-------------------------- MODULE ConcurrentProofs --------------------------
(***************************************************************************)
(* Machine-checked proofs about any number of processes that execute       *)
(* commands over one database: what their interleaved statements can never *)
(* write.                                                                  *)
(***************************************************************************)
EXTENDS ConcurrentCommands, TLAPS

(***************************************************************************)
(* The types, and that a step finds the locals it reads.                   *)
(***************************************************************************)
\* Executions and requests are only added: what an id named it still names.
Grows ==
  /\ DOMAIN execs \subseteq DOMAIN execs'
  /\ \A i \in DOMAIN execs : execs'[i].node = execs[i].node
  /\ DOMAIN requests \subseteq DOMAIN requests'
  /\ \A r \in DOMAIN requests : requests'[r].node = requests[r].node

\* A process whose step leaves the store as it should be spoils no other's.
LEMMA OneProcessMoves ==
  ASSUME TypeInv, NEW p \in Processes, NEW l \in Locals, Become(p, l),
         StoreOK', Grows, commands' \in Nat, kills' \in Nat, LocalsReady(proc[p])'
  PROVE  TypeInv'
<1>1. proc' \in [Processes -> Locals] /\ \A q \in Processes \ {p} : proc'[q] = proc[q]
  BY DEF TypeInv, TypeOK, Become
<1>2. ASSUME NEW q \in Processes \ {p} PROVE LocalsReady(proc[q])'
  BY <1>1 DEF TypeInv, LocalsReady, Grows
<1> QED BY <1>1, <1>2 DEF TypeInv, TypeOK

LEMMA IdleIsReady == Idle \in Locals /\ LocalsReady(Idle) /\ LocalsReady(Idle)'
  BY GraphAssumption
     DEF Idle, Locals, NoRow, NoCall, Rows, Calls, NoExec, NoRequest, KeepAttempts,
         CommandNames, Locations, NodeStatuses, OutcomeNames, LocalsReady, Where, Writing,
         Executing, Answering, Delivering

LEMMA ReadyGrows == ASSUME Grows, NEW l, LocalsReady(l) PROVE LocalsReady(l)'
  BY DEF LocalsReady, Grows

\* A step that writes no row of the database.
LEMMA LocalStep ==
  ASSUME TypeInv, NEW p \in Processes, NEW l \in Locals, Become(p, l), LocalsReady(l),
         UNCHANGED store, commands' \in Nat, kills' \in Nat
  PROVE  TypeInv'
<1>1. proc'[p] = l
  BY DEF TypeInv, TypeOK, Become
<1>2. StoreOK' /\ Grows
  BY DEF TypeInv, TypeOK, StoreOK, Grows, store, rows
<1>3. LocalsReady(proc[p])'
  BY <1>1 DEF LocalsReady, store
<1> QED BY <1>2, <1>3, OneProcessMoves

LEMMA EndStep ==
  ASSUME TypeInv, NEW p \in Processes, End(p), UNCHANGED store,
         commands' \in Nat, kills' \in Nat
  PROVE  TypeInv'
  BY IdleIsReady, LocalStep DEF End

\* A process moves on, or calls upsert_node_state and will: what the place it
\* is bound for reads must be there already.
Reaches(l, location) ==
  /\ location \in Locations \ Writing
  /\ location \in Executing <=> l.pc \in Executing
  /\ location = "decide" => l.todo # <<>>
  /\ location \in Answering => l.pc \in Answering

LEMMA GotoReady ==
  ASSUME NEW l \in Locals, LocalsReady(l), l.pc \notin Writing,
         NEW location, Reaches(l, location)
  PROVE  [l EXCEPT !.pc = location] \in Locals /\ LocalsReady([l EXCEPT !.pc = location])
  BY DEF Locals, Locations, LocalsReady, Where, Writing, Reaches

LEMMA CallReady ==
  ASSUME NEW l \in Locals, LocalsReady(l), l.pc \notin Writing,
         NEW n \in Nodes, NEW status \in NodeStatuses,
         NEW tries \in Nat \cup {KeepAttempts}, NEW exec \in Nat,
         NEW next, Reaches(l, next), NEW p \in Processes, TypeInv,
         Call(p, l, n, status, tries, exec, next),
         UNCHANGED store, commands' \in Nat, kills' \in Nat
  PROVE  TypeInv'
<1> DEFINE called ==
      [l EXCEPT !.pc = "upsert",
         !.call = [node |-> n, status |-> status, tries |-> tries, exec |-> exec,
                   next |-> next]]
<1>1. called \in Locals
  BY DEF Locals, Calls, Locations, Reaches
<1>2. LocalsReady(called)
  BY DEF Locals, Calls, LocalsReady, Where, Writing, Reaches
<1> QED BY <1>1, <1>2, LocalStep DEF Call

LEMMA PersistedStatusType ==
  ASSUME NEW o \in OutcomeNames
  PROVE  PersistedStatus(o) \in NodeStatuses \ {"PENDING", "RUNNING"}
  BY DEF OutcomeNames, Faults, PersistedStatus, NodeStatuses

LEMMA RequestType ==
  ASSUME TypeInv, NEW r \in DOMAIN requests
  PROVE  r \in Nat /\ requests[r] \in Requests /\ requests[r].node \in Nodes
<1>1. requests[r] \in Requests /\ r \in Nat
  BY DEF TypeInv, TypeOK, StoreOK
<1> QED BY <1>1 DEF Requests

LEMMA ExecutionType ==
  ASSUME TypeInv, NEW i \in DOMAIN execs
  PROVE  /\ execs[i] \in Executions
         /\ execs[i].node \in Nodes /\ execs[i].attempt \in Nat \ {0}
<1>1. execs[i] \in Executions
  BY DEF TypeInv, TypeOK, StoreOK
<1> QED BY <1>1 DEF Executions

\* An execution is given a new status and keeps the rest.
LEMMA StatusChange ==
  ASSUME TypeInv, NEW i \in DOMAIN execs, NEW s \in NodeStatuses,
         execs' = [execs EXCEPT ![i].status = s], UNCHANGED requests
  PROVE  /\ execs' \in Seq(Executions) /\ DOMAIN execs' = DOMAIN execs /\ Grows
         /\ execs'[i].status = s /\ \A j \in DOMAIN execs \ {i} : execs'[j] = execs[j]
<1>1. execs \in Seq(Executions)
  BY DEF TypeInv, TypeOK, StoreOK
<1> DEFINE new == [execs[i] EXCEPT !.status = s]
<1>2. new \in Executions /\ new.status = s /\ new.node = execs[i].node
  BY ExecutionType DEF Executions
<1>3. execs' = [execs EXCEPT ![i] = new]
  OBVIOUS
<1> HIDE DEF new
<1>4. /\ execs' \in Seq(Executions) /\ DOMAIN execs' = DOMAIN execs
      /\ execs'[i] = new /\ \A j \in DOMAIN execs \ {i} : execs'[j] = execs[j]
  BY <1>1, <1>2, <1>3
<1> QED BY <1>2, <1>4 DEF Grows

LEMMA RowType == ASSUME TypeInv, NEW n \in Nodes PROVE RowOf(n) \in Rows
  BY DEF TypeInv, TypeOK, StoreOK, RowOf, Rows

LEMMA MyLocals ==
  ASSUME TypeInv, NEW p \in Processes
  PROVE  proc[p] \in Locals /\ LocalsReady(proc[p])
  BY DEF TypeInv, TypeOK

LEMMA RouteTargetsType ==
  ASSUME NEW m \in Nodes
  PROVE  /\ RouteTargets(m) \in Seq(Nodes)
         /\ \A i \in DOMAIN RouteTargets(m) : RouteTargets(m)[i] \in Targets(m)
<1>1. Outgoing[m] \in Seq(Edges)
  BY GraphAssumption
<1>2. ASSUME NEW i \in DOMAIN Outgoing[m] PROVE Outgoing[m][i].target \in Nodes
  <2>1. Outgoing[m][i] \in Edges
    BY <1>1
  <2> QED BY <2>1 DEF Edges
<1> QED BY <1>1, <1>2 DEF RouteTargets, Targets

LEMMA Becomes ==
  ASSUME TypeInv, NEW p \in Processes, NEW l, Become(p, l)
  PROVE  proc'[p] = l /\ \A q \in Processes \ {p} : proc'[q] = proc[q]
  BY DEF Become, TypeInv, TypeOK

LEMMA TypeInit == Init => TypeInv
<1> SUFFICES ASSUME Init PROVE TypeInv
  OBVIOUS
<1>1. StoreOK
  BY DEF Init, StoreOK, NodeStatuses, NoExec
<1> QED BY <1>1, IdleIsReady DEF Init, TypeInv, TypeOK

\* Steps that move a process on or end it.
LEMMA TypeMovingStep ==
  ASSUME TypeInv, NEW p \in Processes,
         \/ EngineOpened(p) \/ LeaveLoop(p) \/ DeclineNode(p) \/ AskForInput(p)
         \/ EndRouting(p) \/ CheckRequest(p) \/ LookUpBatch(p)
  PROVE  TypeInv'
<1>0. proc[p] \in Locals /\ LocalsReady(proc[p])
  BY MyLocals
<1>1. UNCHANGED store /\ commands' \in Nat /\ kills' \in Nat
  BY DEF EngineOpened, LeaveLoop, DeclineNode, AskForInput, EndRouting, CheckRequest,
         LookUpBatch, TypeInv, TypeOK, budgets
<1>2. proc[p].pc \notin Writing
  BY DEF EngineOpened, LeaveLoop, DeclineNode, AskForInput, EndRouting, CheckRequest,
         LookUpBatch, At, Writing
<1>3. CASE End(p)
  BY <1>1, <1>3, EndStep
<1>4. ASSUME NEW location \in Locations, Reaches(proc[p], location), Goto(p, location)
      PROVE  TypeInv'
  BY <1>0, <1>1, <1>2, <1>4, GotoReady, LocalStep DEF Goto
<1>5. End(p) \/ \E location \in Locations :
        Reaches(proc[p], location) /\ Goto(p, location)
  BY DEF EngineOpened, LeaveLoop, DeclineNode, ReturnFromRunNode, AskForInput, EndRouting,
         CheckRequest, LookUpBatch, At, Reaches, Locations, Writing, Executing,
         Answering, Delivering
<1> QED BY <1>3, <1>4, <1>5

\* Steps that read the store and go on with what they have read.
LEMMA TypeReadingStep ==
  ASSUME TypeInv, NEW p \in Processes,
         \/ UpsertReads(p) \/ ListStale(p) \/ SelectNext(p) \/ LookUpRequest(p)
         \/ HandlerEnds(p)
  PROVE  TypeInv'
<1>0. proc[p] \in Locals /\ LocalsReady(proc[p])
  BY MyLocals
<1>1. UNCHANGED store /\ commands' \in Nat /\ kills' \in Nat
  BY DEF UpsertReads, ListStale, SelectNext, LookUpRequest, HandlerEnds,
         TypeInv, TypeOK, budgets
<1>2. CASE UpsertReads(p)
  <2> DEFINE l == [proc[p] EXCEPT !.pc = "write", !.row = RowOf(proc[p].call.node)]
  <2>1. RowOf(proc[p].call.node) \in Rows
    BY <1>0, RowType DEF Locals, Calls
  <2>2. l \in Locals /\ LocalsReady(l)
    BY <1>0, <1>2, <2>1
       DEF UpsertReads, At, Locals, Locations, LocalsReady, Where, Writing
  <2> QED BY <1>1, <1>2, <2>2, LocalStep DEF UpsertReads
<1>3. CASE ListStale(p)
  <2> DEFINE listed == {RowOf(n) : n \in {m \in Nodes : nodeStatus[m] = "RUNNING"}}
             l == [proc[p] EXCEPT !.pc = "recover", !.stale = listed]
  <2>1. listed \in SUBSET Rows
    BY RowType
  <2>2. Become(p, l)
    BY <1>3 DEF ListStale
  <2> HIDE DEF listed
  <2>3. l \in Locals /\ LocalsReady(l)
    BY <1>0, <1>3, <2>1
       DEF ListStale, At, Locals, Locations, LocalsReady, Where, Writing, Executing,
           Answering, Delivering
  <2> QED BY <1>1, <2>2, <2>3, LocalStep
<1>4. CASE SelectNext(p)
  <2>1. PICK n \in Candidates :
          Become(p, [proc[p] EXCEPT !.pc = "begin", !.node = n, !.steps = @ + 1])
    BY <1>4 DEF SelectNext
  <2>2. n \in Nodes
    BY GraphAssumption DEF Candidates
  <2> DEFINE l == [proc[p] EXCEPT !.pc = "begin", !.node = n, !.steps = @ + 1]
  <2>3. l \in Locals
    <3>1. proc[p].steps + 1 \in Nat
      BY <1>0 DEF Locals
    <3> QED BY <1>0, <2>2, <3>1 DEF Locals, Locations
  <2>4. LocalsReady(l)
    BY <1>0, <1>4
       DEF SelectNext, At, Locals, LocalsReady, Where, Writing, Executing, Answering,
           Delivering
  <2> QED BY <1>1, <2>1, <2>3, <2>4, LocalStep
<1>5. ASSUME NEW o \in OutcomeNames, proc[p].pc \in Executing,
             Become(p, [proc[p] EXCEPT !.pc = "finish", !.outcome = o])
      PROVE  TypeInv'
  <2> DEFINE l == [proc[p] EXCEPT !.pc = "finish", !.outcome = o]
  <2>1. l \in Locals /\ LocalsReady(l)
    BY <1>0, <1>5
       DEF Locals, Locations, LocalsReady, Where, Writing, Executing, Answering, Delivering
  <2> QED BY <1>1, <1>5, <2>1, LocalStep
<1>6. CASE LookUpRequest(p)
  <2>1. CASE OpenRequest(proc[p].node)
    <3>1. Reaches(proc[p], "asked") /\ proc[p].pc \notin Writing
      BY <1>6 DEF LookUpRequest, At, Reaches, Locations, Writing, Executing, Answering,
                  Delivering
    <3> QED BY <1>0, <1>1, <1>6, <2>1, <3>1, GotoReady, LocalStep DEF LookUpRequest, Goto
  <2>2. CASE ~OpenRequest(proc[p].node)
    BY <1>5, <1>6, <2>2 DEF LookUpRequest, At, HandlerRaises, OutcomeNames, Faults, Executing
  <2> QED BY <2>1, <2>2
<1>7. CASE HandlerEnds(p)
  <2>1. proc[p].node \in Nodes
    BY <1>0 DEF Locals
  <2>2. proc[p].pc \in Executing
    BY <1>7 DEF HandlerEnds, At, Executing
  <2>3. Outcomes[proc[p].node] \cup AskedOutcomes[proc[p].node] \subseteq OutcomeNames
    BY <2>1, ConcurrencyAssumption
  <2>4. \E o \in OutcomeNames : Become(p, [proc[p] EXCEPT !.pc = "finish", !.outcome = o])
    BY <1>7, <2>3 DEF HandlerEnds
  <2> QED BY <1>5, <2>2, <2>4
<1> QED BY <1>2, <1>3, <1>4, <1>6, <1>7

LEMMA TypeTargetSkipped ==
  ASSUME TypeInv, NEW p \in Processes, RouteEdge(p), Untouchable(Head(proc[p].todo))
  PROVE  TypeInv'
<1> DEFINE l == [proc[p] EXCEPT !.todo = Tail(@)]
<1>1. proc[p] \in Locals /\ LocalsReady(proc[p])
  BY MyLocals
<1>2. UNCHANGED store /\ commands' \in Nat /\ kills' \in Nat
  BY DEF RouteEdge, TypeInv, TypeOK, budgets
<1>3. Tail(proc[p].todo) \in Seq(Nodes)
  BY <1>1 DEF Locals, RouteEdge
<1>4. l \in Locals
  BY <1>1, <1>3 DEF Locals
<1>5. LocalsReady(l)
  BY <1>1 DEF RouteEdge, At, Locals, LocalsReady, Where, Writing, Executing, Answering,
              Delivering
<1> QED BY <1>2, <1>4, <1>5, LocalStep DEF RouteEdge

\* Steps that read the store and call upsert_node_state.
LEMMA TypeCallingStep ==
  ASSUME TypeInv, NEW p \in Processes,
         \/ OpenEngine(p) \/ RecoverNode(p) \/ RouteEdge(p) \/ ReleaseWaitingNode(p)
         \/ ActivateResumeNode(p) \/ Unblock(p)
  PROVE  TypeInv'
<1>0. proc[p] \in Locals /\ LocalsReady(proc[p])
  BY MyLocals
<1>1. UNCHANGED store /\ commands' \in Nat /\ kills' \in Nat
  BY DEF OpenEngine, RecoverNode, RouteEdge, ReleaseWaitingNode, ActivateResumeNode,
         Unblock, TypeInv, TypeOK, budgets
<1>2. proc[p].pc \in Locations \ Writing
  BY DEF OpenEngine, RecoverNode, RouteEdge, ReleaseWaitingNode, ActivateResumeNode,
         Unblock, At, Writing, Locations
<1>3. /\ proc[p].node \in Nodes /\ Entry \in Nodes /\ ResumeNode[proc[p].node] \in Nodes
      /\ {"READY", "SUCCEEDED"} \subseteq NodeStatuses
      /\ NoExec \in Nat /\ KeepAttempts \in Nat \cup {KeepAttempts}
      /\ \A n \in Nodes : attempts[n] \in Nat
  BY <1>0, GraphAssumption, ConcurrencyAssumption
     DEF Locals, NodeStatuses, NoExec, TypeInv, TypeOK, StoreOK
<1>4. ASSUME NEW location \in Locations, Reaches(proc[p], location), Goto(p, location)
      PROVE  TypeInv'
  BY <1>0, <1>1, <1>2, <1>4, GotoReady, LocalStep DEF Goto
<1>5. CASE End(p)
  BY <1>1, <1>5, EndStep
<1> USE DEF Reaches, At, Locations, Writing, Executing, Answering, Delivering
<1>6. CASE OpenEngine(p)
  <2>1. Reaches(proc[p], "list")
    BY <1>6 DEF OpenEngine
  <2> QED BY <1>0, <1>1, <1>2, <1>3, <1>4, <1>6, <2>1, CallReady DEF OpenEngine
<1>7. CASE RecoverNode(p)
  <2>1. PICK row \in proc[p].stale :
          Call(p, proc[p], row.node, "READY", row.attempts, NoExec, "cancel")
    BY <1>7 DEF RecoverNode
  <2>2. row.node \in Nodes /\ row.attempts \in Nat \cup {KeepAttempts}
    BY <1>0 DEF Locals, Rows
  <2>3. Reaches(proc[p], "cancel")
    BY <1>7 DEF RecoverNode
  <2> QED BY <1>0, <1>1, <1>2, <1>3, <2>1, <2>2, <2>3, CallReady
<1>8. CASE RouteEdge(p)
  <2>1. Head(proc[p].todo) \in Nodes
    BY <1>0, <1>8 DEF RouteEdge, Locals
  <2>2. Reaches(proc[p], "decide")
    BY <1>8 DEF RouteEdge
  <2> QED BY <1>0, <1>1, <1>2, <1>3, <1>8, <2>1, <2>2, CallReady, TypeTargetSkipped
          DEF RouteEdge
<1>9. CASE ReleaseWaitingNode(p)
  <2>1. Reaches(proc[p], "resume")
    BY <1>9 DEF ReleaseWaitingNode
  <2> QED BY <1>0, <1>1, <1>2, <1>3, <1>4, <1>9, <2>1, CallReady DEF ReleaseWaitingNode
<1>10. CASE ActivateResumeNode(p)
  <2>1. Reaches(proc[p], "idle")
    BY <1>10 DEF ActivateResumeNode
  <2> QED BY <1>0, <1>1, <1>2, <1>3, <1>10, <2>1, CallReady DEF ActivateResumeNode
<1>11. CASE Unblock(p)
  <2>1. Reaches(proc[p], "idle")
    BY <1>11 DEF Unblock
  <2> QED BY <1>0, <1>1, <1>2, <1>3, <1>5, <1>11, <2>1, CallReady DEF Unblock
<1> QED BY <1>6, <1>7, <1>8, <1>9, <1>10, <1>11

\* A command starts from clean locals; a kill leaves none.
LEMMA TypeIssueOrKill ==
  ASSUME TypeInv, NEW p \in Processes, IssueCommand(p) \/ Kill(p)
  PROVE  TypeInv'
<1>1. CASE IssueCommand(p)
  <2>1. PICK command \in CommandNames, n \in Nodes, r \in Nat :
          /\ Issue(p, command, n, r)
          /\ command = "answer" => r \in DOMAIN requests /\ requests[r].node = n
    <3>1. CASE \E r \in DOMAIN requests : Issue(p, "answer", requests[r].node, r)
      <4>1. PICK r \in DOMAIN requests : Issue(p, "answer", requests[r].node, r)
        BY <3>1
      <4>2. "answer" \in CommandNames
        BY DEF CommandNames
      <4> QED BY <4>1, <4>2, RequestType
    <3>2. CASE ~\E r \in DOMAIN requests : Issue(p, "answer", requests[r].node, r)
      BY <1>1, <3>2, GraphAssumption DEF IssueCommand, CommandNames, NoRequest
    <3> QED BY <3>1, <3>2
  <2> DEFINE location == CASE command = "answer" -> "resolve"
                           [] command = "unblock" -> "unblock"
                           [] OTHER -> "open"
             l == [Idle EXCEPT !.mode = command, !.node = n, !.request = r,
                     !.pc = location]
  <2>2. location \in {"resolve", "unblock", "open"} /\ (location = "resolve" => command = "answer")
    OBVIOUS
  <2>3. Become(p, l) /\ UNCHANGED store /\ commands' \in Nat /\ kills' \in Nat
    BY <2>1 DEF Issue, TypeInv, TypeOK
  <2> HIDE DEF location
  <2>4. l \in Locals
    BY <2>2, IdleIsReady DEF Locals, Locations
  <2>5. LocalsReady(l)
    BY <2>1, <2>2, IdleIsReady
       DEF Locals, Idle, LocalsReady, Where, Writing, Executing, Answering, Delivering
  <2> QED BY <2>3, <2>4, <2>5, LocalStep
<1>2. CASE Kill(p)
  <2>1. End(p) /\ UNCHANGED store /\ commands' \in Nat /\ kills' \in Nat
    BY <1>2 DEF Kill, TypeInv, TypeOK
  <2> QED BY <2>1, EndStep
<1> QED BY <1>1, <1>2

(***************************************************************************)
(* Steps that write.                                                       *)
(***************************************************************************)
LEMMA TypeUpsertWrites ==
  ASSUME TypeInv, NEW p \in Processes, UpsertWrites(p)
  PROVE  TypeInv'
<1> DEFINE call == proc[p].call
           old == proc[p].row
<1>0. proc[p] \in Locals /\ LocalsReady(proc[p])
  BY MyLocals
<1>1. /\ call.node \in Nodes /\ call.status \in NodeStatuses /\ call.exec \in Nat
      /\ call.tries \in Nat \cup {KeepAttempts} /\ call.next \in Locations \ Writing
      /\ old.attempts \in Nat
  BY <1>0 DEF Locals, Calls, Rows
<1>2. commands' \in Nat /\ kills' \in Nat /\ UNCHANGED <<execs, requests, batches, decisions>>
  BY DEF UpsertWrites, TypeInv, TypeOK, budgets
<1>3. StoreOK'
  <2>1. CASE UNCHANGED rows
    BY <1>2, <2>1 DEF TypeInv, TypeOK, StoreOK, rows
  <2>2. CASE ~UNCHANGED rows
    <3>1. /\ nodeStatus' = [nodeStatus EXCEPT ![call.node] = call.status]
          /\ attempts' = [attempts EXCEPT ![call.node] =
               IF call.tries = KeepAttempts THEN old.attempts ELSE call.tries]
          /\ lastExec' = [lastExec EXCEPT ![call.node] = call.exec]
      BY <2>2 DEF UpsertWrites
    <3> QED BY <1>1, <1>2, <3>1 DEF TypeInv, TypeOK, StoreOK
  <2> QED BY <2>1, <2>2
<1>4. Grows
  BY <1>2 DEF Grows
<1>5. CASE End(p)
  <2>1. proc'[p] = Idle
    BY <1>5 DEF End, Become, TypeInv, TypeOK
  <2> QED BY <1>2, <1>3, <1>4, <1>5, <2>1, IdleIsReady, OneProcessMoves DEF End, LocalsReady
<1>6. CASE ~End(p)
  <2> DEFINE l == [proc[p] EXCEPT !.pc = call.next, !.row = NoRow, !.call = NoCall]
  <2>1. Become(p, l)
    BY <1>6 DEF UpsertWrites
  <2>2. l \in Locals
    BY <1>0, <1>1, IdleIsReady DEF Locals, Idle
  <2>3. proc'[p] = l
    BY <2>1 DEF Become, TypeInv, TypeOK
  <2>4. Where(l) = call.next /\ Where(proc[p]) = call.next
    BY <1>0, <1>1 DEF UpsertWrites, At, Where, Writing, Locals
  <2>5. LocalsReady(l)
    BY <1>0, <2>4 DEF LocalsReady, Locals
  <2>6. LocalsReady(proc[p])'
    BY <1>2, <2>3, <2>5 DEF LocalsReady, Where
  <2> QED BY <1>2, <1>3, <1>4, <2>1, <2>2, <2>6, OneProcessMoves
<1> QED BY <1>5, <1>6

\* The other steps that write: each to one table.
LEMMA TypeWritingStep ==
  ASSUME TypeInv, NEW p \in Processes,
         \/ CancelStale(p) \/ CreateExecution(p) \/ InsertRequest(p) \/ FinishExecution(p)
         \/ CreateDecision(p) \/ ResolveRequest(p) \/ PlaceBatch(p) \/ SealBatch(p)
  PROVE  TypeInv'
<1>0. proc[p] \in Locals /\ LocalsReady(proc[p]) /\ proc[p].node \in Nodes
  BY MyLocals DEF Locals
<1>1. commands' \in Nat /\ kills' \in Nat /\ UNCHANGED rows
  BY DEF CancelStale, CreateExecution, InsertRequest, FinishExecution, CreateDecision,
         ResolveRequest, PlaceBatch, SealBatch, TypeInv, TypeOK, budgets
\* What is left to show of each: the table it writes and the locals it leaves.
<1>2. ASSUME NEW l \in Locals, Become(p, l), LocalsReady(l) \/ LocalsReady(proc[p])', Grows,
             execs' \in Seq(Executions), requests' \in Seq(Requests),
             batches' \in Seq(BatchStates), Len(batches') = Len(requests'),
             decisions' \subseteq Nodes \X Nodes
      PROVE  TypeInv'
  <2>1. StoreOK'
    BY <1>1, <1>2 DEF TypeInv, TypeOK, StoreOK, rows
  <2>2. LocalsReady(l) => LocalsReady(proc[p])'
    BY <1>2, Becomes, ReadyGrows DEF LocalsReady, Where
  <2> QED BY <1>1, <1>2, <2>1, <2>2, OneProcessMoves
<1>3. /\ execs \in Seq(Executions) /\ requests \in Seq(Requests)
      /\ batches \in Seq(BatchStates) /\ Len(batches) = Len(requests)
      /\ decisions \subseteq Nodes \X Nodes
  BY DEF TypeInv, TypeOK, StoreOK
<1>4. UNCHANGED <<execs, requests>> => Grows
  BY DEF Grows
<1> USE DEF At
<1>5. CASE CancelStale(p)
  <2>1. PICK row \in proc[p].stale :
          /\ execs' = IF row.exec \in DOMAIN execs /\ execs[row.exec].status = "RUNNING"
                        THEN [execs EXCEPT ![row.exec].status = "CANCELLED"] ELSE execs
          /\ Become(p, [proc[p] EXCEPT !.pc = "recover", !.stale = @ \ {row}])
    BY <1>5 DEF CancelStale
  <2> DEFINE l == [proc[p] EXCEPT !.pc = "recover", !.stale = @ \ {row}]
  <2>2. l \in Locals
    BY <1>0 DEF Locals, Locations
  <2>3. execs' \in Seq(Executions) /\ Grows
    <3>1. "CANCELLED" \in NodeStatuses /\ UNCHANGED requests
      BY <1>5 DEF CancelStale, NodeStatuses
    <3> QED BY <1>3, <1>4, <2>1, <3>1, StatusChange
  <2>4. LocalsReady(l)
    BY <1>0, <1>5
       DEF CancelStale, Locals, LocalsReady, Where, Writing, Executing, Answering, Delivering
  <2> QED BY <1>2, <1>3, <1>5, <2>1, <2>2, <2>3, <2>4 DEF CancelStale
<1>6. CASE CreateExecution(p)
  <2> DEFINE e == Len(execs) + 1
             n == proc[p].node
             new == [node |-> n, attempt |-> attempts[n] + 1, status |-> "RUNNING"]
             call == [node |-> n, status |-> "RUNNING", tries |-> attempts[n] + 1,
                      exec |-> NoExec, next |-> "execute"]
             l == [proc[p] EXCEPT !.exec = e, !.pc = "upsert", !.call = call]
  <2>1. attempts[n] + 1 \in Nat \ {0} /\ "RUNNING" \in NodeStatuses
    BY <1>0 DEF TypeInv, TypeOK, StoreOK, NodeStatuses
  <2>2. e \in Nat \ {0} /\ new \in Executions /\ new.node = n
    BY <1>0, <1>3, <2>1 DEF Executions
  <2>3. Become(p, l) /\ execs' = Append(execs, new)
    BY <1>6 DEF CreateExecution, Call, ExecutionWhileRunning
  <2>4. call \in Calls /\ call.next = "execute"
    BY <1>0, <2>1 DEF Calls, Locations, Writing, NoExec
  <2>5. execs' \in Seq(Executions) /\ Grows /\ e \in DOMAIN execs' /\ execs'[e] = new
    BY <1>3, <1>6, <2>2, <2>3 DEF CreateExecution, Grows
  <2> HIDE DEF e, new, call
  <2>6. l \in Locals
    BY <1>0, <2>2, <2>4 DEF Locals, Locations
  <2>7. proc'[p] = l
    BY <2>3, Becomes
  <2>8. LocalsReady(proc[p])'
    <3>1. Where(l) = "execute" /\ l.exec = e /\ l.node = n
      BY <1>0, <2>4 DEF Locals, Where, Writing
    <3> QED BY <2>2, <2>5, <2>7, <3>1
            DEF LocalsReady, Where, Executing, Answering, Delivering, NoExec
  <2> QED BY <1>2, <1>3, <1>6, <2>3, <2>5, <2>6, <2>8 DEF CreateExecution
<1>7. CASE InsertRequest(p)
  <2>1. CASE ~RefusedByIndex(proc[p].node)
    <3> DEFINE l == [proc[p] EXCEPT !.pc = "asked"]
               new == [node |-> proc[p].node, status |-> "OPEN"]
    <3>1. Become(p, l) /\ requests' = Append(requests, new) /\ batches' = Append(batches, "none")
      BY <1>7, <2>1 DEF InsertRequest, Goto
    <3>2. l \in Locals /\ LocalsReady(l)
      BY <1>0, <1>7 DEF InsertRequest, Locals, Locations, LocalsReady, Where, Writing,
                        Executing, Answering, Delivering
    <3>3. new \in Requests /\ new.node \in Nodes
      BY <1>0 DEF Requests
    <3>4. /\ requests' \in Seq(Requests) /\ batches' \in Seq(BatchStates) /\ Grows
          /\ Len(batches') = Len(requests')
      BY <1>3, <1>7, <3>1, <3>3 DEF InsertRequest, BatchStates, Grows
    <3> QED BY <1>2, <1>3, <1>7, <3>1, <3>2, <3>4 DEF InsertRequest
  <2>2. CASE RefusedByIndex(proc[p].node)
    <3> DEFINE l == [proc[p] EXCEPT !.pc = "finish", !.outcome = "raised"]
    <3>1. l \in Locals
      BY <1>0 DEF Locals, Locations, OutcomeNames, Faults
    <3>2. LocalsReady(l)
      BY <1>0, <1>7 DEF InsertRequest, Locals, LocalsReady, Where, Writing, Executing,
                        Answering, Delivering
    <3> QED BY <1>2, <1>3, <1>4, <1>7, <2>2, <3>1, <3>2 DEF InsertRequest, HandlerRaises
  <2> QED BY <2>1, <2>2
<1>8. CASE FinishExecution(p)
  <2> DEFINE me == proc[p]
             o == me.outcome
             routed == IF RoutesAfter(o) THEN RouteTargets(me.node) ELSE <<>>
             next == IF RoutesAfter(o) THEN "route" ELSE AfterNode(p)
             call == [node |-> me.node, status |-> PersistedStatus(o),
                      tries |-> AttemptsAfter(o, execs[me.exec].attempt),
                      exec |-> me.exec, next |-> next]
             l == [me EXCEPT !.exec = NoExec, !.outcome = "success", !.todo = routed,
                             !.pc = "upsert", !.call = call]
  <2>1. /\ o \in OutcomeNames /\ me.exec \in DOMAIN execs /\ me.exec \in Nat
        /\ PersistedStatus(o) \in NodeStatuses
    BY <1>0, <1>8, PersistedStatusType
       DEF FinishExecution, Locals, LocalsReady, Where, Writing, Executing
  <2>2. Become(p, l) /\ execs' = [execs EXCEPT ![me.exec].status = PersistedStatus(o)]
    BY <1>8 DEF FinishExecution, Call
  <2>3. execs' \in Seq(Executions) /\ Grows
    BY <1>8, <2>1, <2>2, StatusChange DEF FinishExecution
  <2>4. routed \in Seq(Nodes)
    BY <1>0, RouteTargetsType
  <2>5. next \in {"route", "select", "idle"}
    BY DEF AfterNode
  <2>6. AttemptsAfter(o, execs[me.exec].attempt) \in Nat
    BY <2>1, ExecutionType DEF AttemptsAfter
  <2> HIDE DEF routed, next
  <2>7. call \in Calls /\ call.next = next
    BY <1>0, <2>1, <2>5, <2>6 DEF Calls, Locations, Writing
  <2> HIDE DEF call
  <2>8. l \in Locals
    BY <1>0, <2>4, <2>7 DEF Locals, Locations, NoExec, OutcomeNames
  <2>9. LocalsReady(l)
    <3>1. Where(l) = next /\ l.exec = NoExec
      BY <1>0, <2>7 DEF Locals, Where, Writing
    <3> QED BY <2>5, <3>1 DEF LocalsReady, Executing, Answering, Delivering
  <2> QED BY <1>2, <1>3, <1>8, <2>2, <2>3, <2>8, <2>9 DEF FinishExecution
<1>9. CASE CreateDecision(p)
  <2> DEFINE l == [proc[p] EXCEPT !.pc = "route", !.todo = Tail(@)]
  <2>1. proc[p].todo # <<>>
    BY <1>0, <1>9 DEF CreateDecision, LocalsReady, Where, Writing
  <2>2. Head(proc[p].todo) \in Nodes /\ Tail(proc[p].todo) \in Seq(Nodes)
    BY <1>0, <2>1 DEF Locals
  <2>3. l \in Locals
    BY <1>0, <2>2 DEF Locals, Locations
  <2>4. LocalsReady(l)
    BY <1>0, <1>9 DEF CreateDecision, Locals, LocalsReady, Where, Writing, Executing,
                      Answering, Delivering
  <2>5. decisions' \subseteq Nodes \X Nodes
    BY <1>0, <1>3, <1>9, <2>2 DEF CreateDecision
  <2> QED BY <1>2, <1>3, <1>4, <1>9, <2>3, <2>4, <2>5 DEF CreateDecision
<1>10. ASSUME proc[p].pc \in Answering
       PROVE  proc[p].request \in DOMAIN requests
  BY <1>0, <1>10 DEF LocalsReady, Where, Writing, Answering, Delivering
<1>11. CASE ResolveRequest(p)
  <2> DEFINE r == proc[p].request
             new == [requests[r] EXCEPT !.status = "RESOLVED"]
             l == [proc[p] EXCEPT !.pc = "register"]
  <2>1. r \in DOMAIN requests
    BY <1>10, <1>11 DEF ResolveRequest, Answering
  <2>2. new \in Requests /\ new.node = requests[r].node
    BY <2>1, RequestType DEF Requests
  <2>3. Become(p, l) /\ requests' = [requests EXCEPT ![r] = new]
    BY <1>11 DEF ResolveRequest, Goto
  <2> HIDE DEF new
  <2>4. /\ requests' \in Seq(Requests) /\ Len(requests') = Len(requests) /\ Grows
    BY <1>3, <1>11, <2>1, <2>2, <2>3 DEF ResolveRequest, Grows
  <2>5. l \in Locals /\ LocalsReady(l)
    BY <1>0, <1>11 DEF ResolveRequest, Locals, Locations, LocalsReady, Where, Writing,
                       Executing, Answering, Delivering
  <2> QED BY <1>2, <1>3, <1>11, <2>3, <2>4, <2>5 DEF ResolveRequest
<1>12. ASSUME NEW b \in BatchStates, NEW location \in {"seal", "release"},
              proc[p].pc \in {"place", "seal"}, UNCHANGED <<execs, requests, decisions>>,
              batches' = [batches EXCEPT ![proc[p].request] = b], Goto(p, location)
       PROVE  TypeInv'
  <2> DEFINE l == [proc[p] EXCEPT !.pc = location]
  <2>1. proc[p].request \in DOMAIN batches
    BY <1>3, <1>10, <1>12 DEF Answering, Delivering
  <2>2. batches' \in Seq(BatchStates) /\ Len(batches') = Len(batches)
    BY <1>3, <1>12, <2>1
  <2>3. l \in Locals /\ LocalsReady(l)
    BY <1>0, <1>12 DEF Locals, Locations, LocalsReady, Where, Writing, Executing,
                       Answering, Delivering
  <2> QED BY <1>2, <1>3, <1>4, <1>12, <2>2, <2>3 DEF Goto
<1>13. CASE PlaceBatch(p)
  <2>1. CASE batches[proc[p].request] = "none"
    BY <1>12, <1>13, <2>1 DEF PlaceBatch, BatchStates
  <2>2. CASE batches[proc[p].request] # "none"
    BY <1>13, <1>1, <2>2, EndStep DEF PlaceBatch, store
  <2> QED BY <2>1, <2>2
<1>14. CASE SealBatch(p)
  BY <1>12, <1>14 DEF SealBatch, BatchStates
<1> QED BY <1>5, <1>6, <1>7, <1>8, <1>9, <1>11, <1>13, <1>14

LEMMA TypeNext == TypeInv /\ [Next]_vars => TypeInv'
<1> SUFFICES ASSUME TypeInv, [Next]_vars PROVE TypeInv'
  OBVIOUS
<1>1. ASSUME NEW p \in Processes, IssueCommand(p) \/ Kill(p) PROVE TypeInv'
  BY <1>1, TypeIssueOrKill
<1>3. ASSUME NEW p \in Processes, ProcessStep(p) PROVE TypeInv'
  <2>1. CASE UpsertReads(p) \/ UpsertWrites(p) \/ Unblock(p)
    BY <2>1, TypeReadingStep, TypeUpsertWrites, TypeCallingStep
  <2>2. CASE OpeningStep(p)
    BY <2>2, TypeMovingStep, TypeReadingStep, TypeCallingStep, TypeWritingStep DEF OpeningStep
  <2>3. CASE NodeStep(p)
    <3>1. CASE LeaveLoop(p) \/ DeclineNode(p) \/ AskForInput(p) \/ EndRouting(p)
      BY <3>1, TypeMovingStep
    <3>2. CASE SelectNext(p) \/ LookUpRequest(p) \/ HandlerEnds(p)
      BY <3>2, TypeReadingStep
    <3>3. CASE RouteEdge(p)
      BY <3>3, TypeCallingStep
    <3>4. CASE \/ CreateExecution(p) \/ InsertRequest(p) \/ FinishExecution(p)
               \/ CreateDecision(p)
      BY <3>4, TypeWritingStep
    <3> QED BY <2>3, <3>1, <3>2, <3>3, <3>4 DEF NodeStep
  <2>4. CASE AnswerStep(p)
    BY <2>4, TypeMovingStep, TypeReadingStep, TypeCallingStep, TypeWritingStep DEF AnswerStep
  <2> QED BY <1>3, <2>1, <2>2, <2>3, <2>4 DEF ProcessStep
<1>2. CASE UNCHANGED vars
  BY <1>2 DEF vars, store, rows, budgets, TypeInv, TypeOK, StoreOK, LocalsReady, Where
<1> QED BY <1>1, <1>2, <1>3 DEF Next

(***************************************************************************)
(* Who owns a running execution.                                           *)
(***************************************************************************)
LEMMA OwnInit == Init => OwnInv
  BY DEF Init, OwnInv, LocalsOwn, Idle, NoCall, NoExec, Writing

\* A step that leaves the executions and the rows alone, and claims no execution.
LEMMA OwnKept ==
  ASSUME TypeInv, OwnInv, NEW p \in Processes, NEW l, Become(p, l),
         UNCHANGED <<execs, rows>>, l.exec \in {NoExec, proc[p].exec}, LocalsOwn(l)
  PROVE  OwnInv'
<1>1. proc'[p] = l /\ \A q \in Processes \ {p} : proc'[q] = proc[q]
  BY Becomes
<1>2. ASSUME NEW q \in Processes PROVE LocalsOwn(proc[q])'
  BY <1>1 DEF OwnInv, LocalsOwn
<1> QED BY <1>1, <1>2 DEF OwnInv, rows

LEMMA IdleOwnsNothing == Idle.exec = NoExec /\ LocalsOwn(Idle) /\ LocalsOwn(Idle)'
  BY DEF Idle, NoCall, NoExec, LocalsOwn, Writing

LEMMA OwnEnd ==
  ASSUME TypeInv, OwnInv, NEW p \in Processes, End(p), UNCHANGED <<execs, rows>>
  PROVE  OwnInv'
  BY IdleOwnsNothing, OwnKept DEF End

LEMMA OwnGoto ==
  ASSUME TypeInv, OwnInv, NEW p \in Processes, NEW location, location \notin Writing,
         Goto(p, location), UNCHANGED <<execs, rows>>
  PROVE  OwnInv'
<1> DEFINE l == [proc[p] EXCEPT !.pc = location]
<1>1. proc[p] \in Locals
  BY MyLocals
<1>2. l.exec = proc[p].exec /\ l.stale = proc[p].stale /\ l.pc = location
  BY <1>1 DEF Locals
<1>3. LocalsOwn(l)
  BY <1>2 DEF OwnInv, LocalsOwn
<1> QED BY <1>2, <1>3, OwnKept DEF Goto

LEMMA OwnCall ==
  ASSUME TypeInv, OwnInv, NEW p \in Processes, NEW n, NEW status, status # "RUNNING",
         NEW tries, NEW exec, NEW next, Call(p, proc[p], n, status, tries, exec, next),
         UNCHANGED <<execs, rows>>
  PROVE  OwnInv'
<1> DEFINE call == [node |-> n, status |-> status, tries |-> tries, exec |-> exec,
                    next |-> next]
           l == [proc[p] EXCEPT !.pc = "upsert", !.call = call]
<1>1. proc[p] \in Locals
  BY MyLocals
<1>2. l.exec = proc[p].exec /\ l.stale = proc[p].stale /\ l.call.status = status
  BY <1>1 DEF Locals
<1>3. LocalsOwn(l)
  BY <1>2 DEF OwnInv, LocalsOwn
<1> QED BY <1>2, <1>3, OwnKept DEF Call

LEMMA OwnRaise ==
  ASSUME TypeInv, OwnInv, NEW p \in Processes, NEW o,
         Become(p, [proc[p] EXCEPT !.pc = "finish", !.outcome = o]), UNCHANGED <<execs, rows>>
  PROVE  OwnInv'
<1> DEFINE l == [proc[p] EXCEPT !.pc = "finish", !.outcome = o]
<1>1. proc[p] \in Locals
  BY MyLocals
<1>2. l.exec = proc[p].exec /\ l.stale = proc[p].stale /\ l.pc = "finish"
  BY <1>1 DEF Locals
<1>3. LocalsOwn(l)
  BY <1>2 DEF OwnInv, LocalsOwn, Writing
<1> QED BY <1>2, <1>3, OwnKept

LEMMA OwnSimpleStep ==
  ASSUME TypeInv, OwnInv, NEW p \in Processes,
         \/ EngineOpened(p) \/ LeaveLoop(p) \/ DeclineNode(p) \/ AskForInput(p)
         \/ EndRouting(p) \/ CheckRequest(p) \/ LookUpBatch(p) \/ ResolveRequest(p)
         \/ PlaceBatch(p) \/ SealBatch(p) \/ Kill(p)
         \/ OpenEngine(p) \/ RecoverNode(p) \/ ReleaseWaitingNode(p)
         \/ ActivateResumeNode(p) \/ Unblock(p)
         \/ InsertRequest(p) \/ LookUpRequest(p) \/ HandlerEnds(p)
  PROVE  OwnInv'
<1>1. UNCHANGED <<execs, rows>>
  BY DEF EngineOpened, LeaveLoop, DeclineNode, AskForInput, EndRouting, CheckRequest,
         LookUpBatch, ResolveRequest, PlaceBatch, SealBatch, Kill, OpenEngine, RecoverNode,
         ReleaseWaitingNode, ActivateResumeNode, Unblock, InsertRequest, LookUpRequest,
         HandlerEnds, store
<1>2. CASE End(p)
  BY <1>1, <1>2, OwnEnd
<1>3. CASE \E location : location \notin Writing /\ Goto(p, location)
  BY <1>1, <1>3, OwnGoto
<1>4. CASE \E n, status, tries, exec, next :
             status # "RUNNING" /\ Call(p, proc[p], n, status, tries, exec, next)
  BY <1>1, <1>4, OwnCall
<1>5. CASE \E o : Become(p, [proc[p] EXCEPT !.pc = "finish", !.outcome = o])
  BY <1>1, <1>5, OwnRaise
<1>6. CASE \/ EngineOpened(p) \/ LeaveLoop(p) \/ DeclineNode(p) \/ AskForInput(p)
           \/ EndRouting(p) \/ CheckRequest(p) \/ LookUpBatch(p) \/ ResolveRequest(p)
           \/ PlaceBatch(p) \/ SealBatch(p) \/ Kill(p)
  BY <1>2, <1>3, <1>6
     DEF EngineOpened, LeaveLoop, DeclineNode, ReturnFromRunNode, AskForInput, EndRouting,
         CheckRequest, LookUpBatch, ResolveRequest, PlaceBatch, SealBatch, Kill, Writing
<1>7. CASE OpenEngine(p) \/ ReleaseWaitingNode(p) \/ ActivateResumeNode(p) \/ Unblock(p)
  BY <1>2, <1>3, <1>4, <1>7
     DEF OpenEngine, ReleaseWaitingNode, ActivateResumeNode, Unblock, Writing
<1>8. CASE RecoverNode(p)
  BY <1>4, <1>8 DEF RecoverNode
<1>9. CASE InsertRequest(p) \/ LookUpRequest(p) \/ HandlerEnds(p)
  BY <1>3, <1>5, <1>9 DEF InsertRequest, LookUpRequest, HandlerEnds, HandlerRaises, Writing
<1> QED BY <1>6, <1>7, <1>8, <1>9

\* The other steps that claim no execution.
LEMMA OwnOtherStep ==
  ASSUME TypeInv, OwnInv, NEW p \in Processes,
         \/ IssueCommand(p) \/ UpsertReads(p) \/ ListStale(p) \/ CancelStale(p)
         \/ SelectNext(p) \/ RouteEdge(p) \/ CreateDecision(p)
  PROVE  OwnInv'
<1>0. proc[p] \in Locals /\ LocalsOwn(proc[p])
  BY MyLocals DEF OwnInv
<1>1. \A l : /\ l.exec = proc[p].exec /\ l.stale \subseteq proc[p].stale
             /\ l.pc \in Writing => proc[p].pc \in Writing /\ l.call = proc[p].call
             => LocalsOwn(l)
  BY <1>0 DEF LocalsOwn
<1>2. UNCHANGED rows
  BY DEF IssueCommand, Issue, UpsertReads, ListStale, CancelStale, SelectNext, RouteEdge,
         CreateDecision, store
<1>3. CASE IssueCommand(p)
  <2>1. PICK command, n, r : Issue(p, command, n, r)
    BY <1>3 DEF IssueCommand
  <2> DEFINE location == CASE command = "answer" -> "resolve"
                           [] command = "unblock" -> "unblock"
                           [] OTHER -> "open"
             l == [Idle EXCEPT !.mode = command, !.node = n, !.request = r,
                     !.pc = location]
  <2>2. Become(p, l) /\ UNCHANGED execs
    BY <2>1 DEF Issue, store
  <2>3. location \notin Writing
    BY DEF Writing
  <2> HIDE DEF location
  <2>4. l.exec = NoExec /\ l.stale = {} /\ l.pc = location
    BY DEF Idle
  <2>5. LocalsOwn(l)
    BY <2>3, <2>4 DEF LocalsOwn
  <2> QED BY <1>2, <2>2, <2>4, <2>5, OwnKept
<1>4. CASE UpsertReads(p)
  <2> DEFINE l == [proc[p] EXCEPT !.pc = "write", !.row = RowOf(proc[p].call.node)]
  <2>1. /\ l.exec = proc[p].exec /\ l.stale = proc[p].stale /\ l.call = proc[p].call
        /\ proc[p].pc \in Writing
    BY <1>0, <1>4 DEF UpsertReads, At, Locals, Writing
  <2> QED BY <1>1, <1>2, <1>4, <2>1, OwnKept DEF UpsertReads, store
<1>5. CASE ListStale(p)
  <2> DEFINE listed == {RowOf(n) : n \in {m \in Nodes : nodeStatus[m] = "RUNNING"}}
             l == [proc[p] EXCEPT !.pc = "recover", !.stale = listed]
  <2>1. \A row \in listed : row.exec = NoExec
    BY DEF RowOf, OwnInv
  <2>2. Become(p, l) /\ UNCHANGED execs
    BY <1>5 DEF ListStale, store
  <2> HIDE DEF listed
  <2>3. l.exec = proc[p].exec /\ l.stale = listed /\ l.pc \notin Writing
    BY <1>0 DEF Locals, Writing
  <2>4. LocalsOwn(l)
    BY <1>0, <2>1, <2>3 DEF LocalsOwn
  <2> QED BY <1>2, <2>2, <2>3, <2>4, OwnKept
<1>6. CASE CancelStale(p)
  <2>1. PICK row \in proc[p].stale :
          /\ execs' = IF row.exec \in DOMAIN execs /\ execs[row.exec].status = "RUNNING"
                        THEN [execs EXCEPT ![row.exec].status = "CANCELLED"] ELSE execs
          /\ Become(p, [proc[p] EXCEPT !.pc = "recover", !.stale = @ \ {row}])
    BY <1>6 DEF CancelStale
  <2> DEFINE l == [proc[p] EXCEPT !.pc = "recover", !.stale = @ \ {row}]
  <2>2. row.exec \notin DOMAIN execs
    BY <1>0 DEF LocalsOwn, NoExec, TypeInv, TypeOK, StoreOK
  <2>3. l.exec = proc[p].exec /\ l.stale \subseteq proc[p].stale /\ l.pc \notin Writing
    BY <1>0 DEF Locals, Writing
  <2> QED BY <1>1, <1>2, <2>1, <2>2, <2>3, OwnKept
<1>7. CASE SelectNext(p)
  <2>1. PICK n : Become(p, [proc[p] EXCEPT !.pc = "begin", !.node = n, !.steps = @ + 1])
    BY <1>7 DEF SelectNext
  <2> DEFINE l == [proc[p] EXCEPT !.pc = "begin", !.node = n, !.steps = @ + 1]
  <2>2. l.exec = proc[p].exec /\ l.stale = proc[p].stale /\ l.pc \notin Writing
    BY <1>0 DEF Locals, Writing
  <2> QED BY <1>1, <1>2, <1>7, <2>1, <2>2, OwnKept DEF SelectNext, store
<1>8. CASE RouteEdge(p)
  <2>1. CASE Untouchable(Head(proc[p].todo))
    <3> DEFINE l == [proc[p] EXCEPT !.todo = Tail(@)]
    <3>1. l.exec = proc[p].exec /\ l.stale = proc[p].stale /\ l.pc \notin Writing
      BY <1>0, <1>8 DEF RouteEdge, At, Locals, Writing
    <3> QED BY <1>1, <1>2, <1>8, <2>1, <3>1, OwnKept DEF RouteEdge, store
  <2>2. CASE ~Untouchable(Head(proc[p].todo))
    BY <1>2, <1>8, <2>2, OwnCall DEF RouteEdge, store
  <2> QED BY <2>1, <2>2
<1>9. CASE CreateDecision(p)
  <2> DEFINE l == [proc[p] EXCEPT !.pc = "route", !.todo = Tail(@)]
  <2>1. l.exec = proc[p].exec /\ l.stale = proc[p].stale /\ l.pc \notin Writing
    BY <1>0 DEF Locals, Writing
  <2> QED BY <1>1, <1>2, <1>9, <2>1, OwnKept DEF CreateDecision
<1> QED BY <1>3, <1>4, <1>5, <1>6, <1>7, <1>8, <1>9

\* A write of a row claims nothing, and a RUNNING one names no execution.
LEMMA OwnUpsertWrites ==
  ASSUME TypeInv, OwnInv, NEW p \in Processes, UpsertWrites(p)
  PROVE  OwnInv'
<1> DEFINE call == proc[p].call
<1>0. proc[p] \in Locals /\ LocalsOwn(proc[p]) /\ proc[p].pc \in Writing
  BY MyLocals DEF OwnInv, UpsertWrites, At, Writing
<1>1. UNCHANGED execs
  BY DEF UpsertWrites
<1>2. \A n \in Nodes : nodeStatus'[n] = "RUNNING" => lastExec'[n] = NoExec
  <2>1. CASE UNCHANGED rows
    BY <2>1 DEF OwnInv, rows
  <2>2. CASE ~UNCHANGED rows
    <3>1. /\ nodeStatus' = [nodeStatus EXCEPT ![call.node] = call.status]
          /\ lastExec' = [lastExec EXCEPT ![call.node] = call.exec]
      BY <2>2 DEF UpsertWrites
    <3>2. call.status = "RUNNING" => call.exec = NoExec
      BY <1>0 DEF LocalsOwn
    <3> QED BY <3>1, <3>2 DEF OwnInv, TypeInv, TypeOK, StoreOK
  <2> QED BY <2>1, <2>2
<1>3. ASSUME NEW l, Become(p, l), l.exec \in {NoExec, proc[p].exec}, LocalsOwn(l)
      PROVE  OwnInv'
  <2>1. proc'[p] = l /\ \A q \in Processes \ {p} : proc'[q] = proc[q]
    BY <1>3, Becomes
  <2>2. ASSUME NEW q \in Processes PROVE LocalsOwn(proc[q])'
    BY <1>1, <1>3, <2>1 DEF OwnInv, LocalsOwn
  <2> QED BY <1>2, <1>3, <2>1, <2>2 DEF OwnInv
<1>4. CASE End(p)
  BY <1>3, <1>4, IdleOwnsNothing DEF End
<1>5. CASE ~End(p)
  <2> DEFINE l == [proc[p] EXCEPT !.pc = call.next, !.row = NoRow, !.call = NoCall]
  <2>1. Become(p, l)
    BY <1>5 DEF UpsertWrites
  <2>2. l.exec = proc[p].exec /\ l.stale = proc[p].stale /\ l.call = NoCall
    BY <1>0 DEF Locals
  <2>3. LocalsOwn(l)
    BY <1>0, <2>2 DEF LocalsOwn, NoCall
  <2> QED BY <1>3, <2>1, <2>2, <2>3
<1> QED BY <1>4, <1>5

LEMMA OwnCreateExecution ==
  ASSUME TypeInv, OwnInv, NEW p \in Processes, CreateExecution(p)
  PROVE  OwnInv'
<1> DEFINE e == Len(execs) + 1
           n == proc[p].node
           new == [node |-> n, attempt |-> attempts[n] + 1, status |-> "RUNNING"]
           call == [node |-> n, status |-> "RUNNING", tries |-> attempts[n] + 1,
                    exec |-> NoExec, next |-> "execute"]
           l == [proc[p] EXCEPT !.exec = e, !.pc = "upsert", !.call = call]
<1>0. proc[p] \in Locals /\ LocalsOwn(proc[p]) /\ execs \in Seq(Executions)
  BY MyLocals DEF OwnInv, TypeInv, TypeOK, StoreOK
<1>1. Become(p, l) /\ execs' = Append(execs, new) /\ UNCHANGED rows
  BY DEF CreateExecution, Call, ExecutionWhileRunning
<1>2. /\ e \notin DOMAIN execs /\ e # NoExec
      /\ execs'[e] = new /\ \A i \in DOMAIN execs : execs'[i] = execs[i]
  BY <1>0, <1>1 DEF NoExec
<1>3. proc'[p] = l /\ \A q \in Processes \ {p} : proc'[q] = proc[q]
  BY <1>1, Becomes
<1>4. l.exec = e /\ l.stale = proc[p].stale /\ l.call.exec = NoExec /\ new.status = "RUNNING"
  BY <1>0 DEF Locals
<1> HIDE DEF e, new, l
<1>5. \A q \in Processes \ {p} : proc[q].exec # e
  BY <1>2, MyLocals DEF LocalsReady
<1>6. ASSUME NEW q \in Processes \ {p} PROVE LocalsOwn(proc[q])'
  <2>1. LocalsOwn(proc[q]) /\ (proc[q].exec # NoExec => proc[q].exec \in DOMAIN execs)
    BY MyLocals DEF OwnInv, LocalsReady
  <2> QED BY <1>2, <1>3, <2>1 DEF LocalsOwn
<1>7. LocalsOwn(proc[p])'
  BY <1>0, <1>2, <1>3, <1>4 DEF LocalsOwn
<1> QED BY <1>1, <1>3, <1>4, <1>5, <1>6, <1>7 DEF OwnInv, rows

LEMMA OwnFinishExecution ==
  ASSUME TypeInv, OwnInv, NEW p \in Processes, FinishExecution(p)
  PROVE  /\ OwnInv'
         /\ proc[p].exec \in DOMAIN execs /\ execs[proc[p].exec].status = "RUNNING"
         /\ execs'[proc[p].exec].status = PersistedStatus(proc[p].outcome)
         /\ execs'[proc[p].exec].node = proc[p].node
         /\ \A i \in DOMAIN execs \ {proc[p].exec} : execs'[i] = execs[i]
<1> DEFINE e == proc[p].exec
           s == PersistedStatus(proc[p].outcome)
<1>0. proc[p] \in Locals /\ LocalsReady(proc[p]) /\ LocalsOwn(proc[p])
  BY MyLocals DEF OwnInv
<1>1. e # NoExec /\ e \in DOMAIN execs /\ execs[e].status = "RUNNING"
      /\ execs[e].node = proc[p].node /\ s \in NodeStatuses \ {"PENDING", "RUNNING"}
  BY <1>0, PersistedStatusType
     DEF FinishExecution, At, Locals, LocalsReady, LocalsOwn, Where, Writing, Executing
<1>2. /\ execs'[e].status = s /\ execs'[e].node = execs[e].node
      /\ \A i \in DOMAIN execs \ {e} : execs'[i] = execs[i]
  BY <1>1, StatusChange DEF FinishExecution, Grows
<1> DEFINE me == proc[p]
           o == me.outcome
           routed == IF RoutesAfter(o) THEN RouteTargets(me.node) ELSE <<>>
           call == [node |-> me.node, status |-> s,
                    tries |-> AttemptsAfter(o, execs[me.exec].attempt), exec |-> me.exec,
                    next |-> IF RoutesAfter(o) THEN "route" ELSE AfterNode(p)]
           l == [me EXCEPT !.exec = NoExec, !.outcome = "success", !.todo = routed,
                           !.pc = "upsert", !.call = call]
<1>3. Become(p, l) /\ call.status = s
  BY DEF FinishExecution, Call
<1> HIDE DEF routed, call
<1>4. l.exec = NoExec /\ l.stale = proc[p].stale /\ l.call = call
  BY <1>0 DEF Locals
<1>5. proc'[p] = l /\ \A q \in Processes \ {p} : proc'[q] = proc[q]
  BY <1>3, Becomes
<1> HIDE DEF l
<1>6. ASSUME NEW q \in Processes \ {p} PROVE LocalsOwn(proc[q])'
  <2>1. LocalsOwn(proc[q]) /\ (proc[q].exec # NoExec => proc[q].exec \in DOMAIN execs \ {e})
    BY <1>1, MyLocals DEF OwnInv, LocalsReady
  <2> QED BY <1>2, <1>5, <2>1 DEF LocalsOwn
<1>7. LocalsOwn(proc[p])'
  BY <1>0, <1>1, <1>3, <1>4, <1>5 DEF LocalsOwn
<1>8. UNCHANGED rows
  BY DEF FinishExecution
<1>9. OwnInv'
  BY <1>4, <1>5, <1>6, <1>7, <1>8 DEF OwnInv, rows
<1> QED BY <1>1, <1>2, <1>9

LEMMA OwnNext == TypeInv /\ OwnInv /\ [Next]_vars => OwnInv'
<1> SUFFICES ASSUME TypeInv, OwnInv, [Next]_vars PROVE OwnInv'
  OBVIOUS
<1>1. ASSUME NEW p \in Processes, IssueCommand(p) \/ ProcessStep(p) \/ Kill(p)
      PROVE  OwnInv'
  <2>1. CASE \/ IssueCommand(p) \/ UpsertReads(p) \/ ListStale(p) \/ CancelStale(p)
             \/ SelectNext(p) \/ RouteEdge(p) \/ CreateDecision(p)
    BY <2>1, OwnOtherStep
  <2>2. CASE UpsertWrites(p)
    BY <2>2, OwnUpsertWrites
  <2>3. CASE CreateExecution(p)
    BY <2>3, OwnCreateExecution
  <2>4. CASE FinishExecution(p)
    BY <2>4, OwnFinishExecution
  <2>5. CASE Kill(p) \/ Unblock(p) \/ AnswerStep(p)
    BY <2>5, OwnSimpleStep DEF AnswerStep
  <2>6. CASE OpeningStep(p) /\ ~ListStale(p) /\ ~CancelStale(p)
    BY <2>6, OwnSimpleStep DEF OpeningStep
  <2>7. CASE \/ LeaveLoop(p) \/ DeclineNode(p) \/ AskForInput(p) \/ InsertRequest(p)
             \/ LookUpRequest(p) \/ HandlerEnds(p) \/ EndRouting(p)
    BY <2>7, OwnSimpleStep
  <2> QED BY <1>1, <2>1, <2>2, <2>3, <2>4, <2>5, <2>6, <2>7
          DEF ProcessStep, NodeStep, OpeningStep
<1>2. CASE UNCHANGED vars
  BY <1>2 DEF vars, store, rows, OwnInv, LocalsOwn
<1> QED BY <1>1, <1>2 DEF Next

(***************************************************************************)
(* History: an execution that has ended stays, and so does a resolved        *)
(* request.                                                                *)
(***************************************************************************)
EndedKept ==
  /\ DOMAIN execs \subseteq DOMAIN execs'
  /\ \A i \in DOMAIN execs : execs[i].status # "RUNNING" => execs'[i] = execs[i]

LEMMA EndedStays ==
  ASSUME TypeInv, OwnInv, [Next]_vars
  PROVE  EndedKept
<1>1. UNCHANGED execs => EndedKept
  BY DEF EndedKept
<1>2. ASSUME NEW p \in Processes, CancelStale(p) PROVE EndedKept
  <2>1. PICK row \in proc[p].stale :
          execs' = IF row.exec \in DOMAIN execs /\ execs[row.exec].status = "RUNNING"
                     THEN [execs EXCEPT ![row.exec].status = "CANCELLED"] ELSE execs
    BY <1>2 DEF CancelStale
  <2> QED BY <2>1 DEF EndedKept, TypeInv, TypeOK, StoreOK
<1>3. ASSUME NEW p \in Processes, CreateExecution(p) PROVE EndedKept
  BY <1>3 DEF CreateExecution, EndedKept, TypeInv, TypeOK, StoreOK
<1>4. ASSUME NEW p \in Processes, FinishExecution(p) PROVE EndedKept
  <2>1. DOMAIN execs' = DOMAIN execs
    BY <1>4 DEF FinishExecution
  <2> QED BY <1>4, <2>1, OwnFinishExecution DEF EndedKept
<1>5. ASSUME NEW p \in Processes, IssueCommand(p) \/ Kill(p) PROVE UNCHANGED execs
  BY <1>5 DEF IssueCommand, Issue, Kill, store
<1>6. ASSUME NEW p \in Processes, ProcessStep(p), ~CancelStale(p), ~CreateExecution(p),
             ~FinishExecution(p)
      PROVE  UNCHANGED execs
  <2>1. CASE UpsertReads(p) \/ UpsertWrites(p) \/ Unblock(p)
    BY <2>1 DEF UpsertReads, UpsertWrites, Unblock, store
  <2>2. CASE OpeningStep(p)
    BY <1>6, <2>2 DEF OpeningStep, OpenEngine, ListStale, RecoverNode, EngineOpened, store
  <2>3. CASE NodeStep(p)
    BY <1>6, <2>3 DEF NodeStep, SelectNext, LeaveLoop, DeclineNode, AskForInput,
       InsertRequest, LookUpRequest, HandlerEnds, RouteEdge, CreateDecision, EndRouting, store
  <2>4. CASE AnswerStep(p)
    BY <2>4 DEF AnswerStep, CheckRequest, ResolveRequest, LookUpBatch, PlaceBatch, SealBatch,
       ReleaseWaitingNode, ActivateResumeNode, store
  <2> QED BY <1>6, <2>1, <2>2, <2>3, <2>4 DEF ProcessStep
<1>7. CASE UNCHANGED vars
  BY <1>1, <1>7 DEF vars, store
<1> QED BY <1>1, <1>2, <1>3, <1>4, <1>5, <1>6, <1>7 DEF Next

LEMMA OnlyTwoWriteRequests ==
  ASSUME NEW p \in Processes, ProcessStep(p), ~InsertRequest(p), ~ResolveRequest(p)
  PROVE  UNCHANGED requests
<1>1. CASE UpsertReads(p) \/ UpsertWrites(p) \/ Unblock(p)
  BY <1>1 DEF UpsertReads, UpsertWrites, Unblock, store
<1>2. CASE OpeningStep(p)
  BY <1>2 DEF OpeningStep, OpenEngine, ListStale, RecoverNode, CancelStale, EngineOpened,
     store
<1>3. CASE NodeStep(p)
  BY <1>3 DEF NodeStep, SelectNext, LeaveLoop, CreateExecution, DeclineNode,
     AskForInput, LookUpRequest, HandlerEnds, FinishExecution, RouteEdge, CreateDecision,
     EndRouting, store
<1>4. CASE AnswerStep(p)
  BY <1>4 DEF AnswerStep, CheckRequest, LookUpBatch, PlaceBatch, SealBatch,
     ReleaseWaitingNode, ActivateResumeNode, store
<1> QED BY <1>1, <1>2, <1>3, <1>4 DEF ProcessStep

ResolvedKept ==
  /\ DOMAIN requests \subseteq DOMAIN requests'
  /\ \A r \in DOMAIN requests : requests'[r].node = requests[r].node
  /\ \A r \in DOMAIN requests :
       requests[r].status = "RESOLVED" => requests'[r].status = "RESOLVED"

LEMMA ResolvedStays ==
  ASSUME TypeInv, [Next]_vars
  PROVE  ResolvedKept
<1>1. UNCHANGED requests => ResolvedKept
  BY DEF ResolvedKept
<1>2. requests \in Seq(Requests)
  BY DEF TypeInv, TypeOK, StoreOK
<1>3. ASSUME NEW p \in Processes, InsertRequest(p) PROVE ResolvedKept
  <2>1. \/ UNCHANGED requests
        \/ requests' = Append(requests, [node |-> proc[p].node, status |-> "OPEN"])
    BY <1>3 DEF InsertRequest
  <2>2. CASE requests' = Append(requests, [node |-> proc[p].node, status |-> "OPEN"])
    <3>1. /\ DOMAIN requests = 1..Len(requests) /\ Len(requests) \in Nat
          /\ DOMAIN requests' = 1..(Len(requests) + 1)
          /\ \A r \in DOMAIN requests : requests'[r] = requests[r]
      BY <1>2, <2>2
    <3> QED BY <3>1 DEF ResolvedKept
  <2> QED BY <1>1, <2>1, <2>2
<1>4. ASSUME NEW p \in Processes, ResolveRequest(p) PROVE ResolvedKept
  BY <1>2, <1>4 DEF ResolveRequest, ResolvedKept
<1>5. ASSUME NEW p \in Processes, IssueCommand(p) \/ Kill(p) PROVE UNCHANGED requests
  BY <1>5 DEF IssueCommand, Issue, Kill, store
<1>6. ASSUME NEW p \in Processes, ProcessStep(p), ~InsertRequest(p), ~ResolveRequest(p)
      PROVE  UNCHANGED requests
  BY <1>6, OnlyTwoWriteRequests
<1>7. CASE UNCHANGED vars
  BY <1>1, <1>7 DEF vars, store
<1> QED BY <1>1, <1>3, <1>4, <1>5, <1>6, <1>7 DEF Next

\* What has happened has happened.
History ==
  /\ \A m : Succeeded(m) => Succeeded(m)'
  /\ \A n : Answered(n) => Answered(n)'

LEMMA HistoryStays ==
  ASSUME TypeInv, OwnInv, [Next]_vars
  PROVE  History
<1>1. EndedKept /\ ResolvedKept
  BY EndedStays, ResolvedStays
<1> QED BY <1>1 DEF History, EndedKept, ResolvedKept, Succeeded, Answered

LEMMA BackingStays ==
  ASSUME History
  PROVE  /\ \A n : Activated(n) => Activated(n)'
         /\ \A n, status : Backed(n, status) => Backed(n, status)'
         /\ \A l : LocalsBacked(l) => LocalsBacked(l)'
<1>1. \A n : Activated(n) => Activated(n)'
  BY DEF History, Activated
<1>2. \A n, status : Backed(n, status) => Backed(n, status)'
  BY <1>1 DEF History, Backed
<1>3. \A l : LocalsBacked(l) => LocalsBacked(l)'
  BY <1>1, <1>2 DEF History, LocalsBacked, Where
<1> QED BY <1>1, <1>2, <1>3

(***************************************************************************)
(* Backing: what a process writes has happened.                            *)
(***************************************************************************)
LEMMA BackedInit == Init => BackedInv
<1> SUFFICES ASSUME Init PROVE BackedInv
  OBVIOUS
<1>1. WritesBacked
  BY DEF Init, WritesBacked, RowsBacked, DecisionsBacked
<1>2. ASSUME NEW p \in Processes PROVE LocalsBacked(proc[p])
  BY DEF Init, LocalsBacked, Idle, Where, Writing, Executing, Routing, Delivering
<1> QED BY <1>1, <1>2 DEF BackedInv

LEMMA BackedKept ==
  ASSUME TypeInv, BackedInv, History, NEW p \in Processes, NEW l, Become(p, l),
         UNCHANGED <<nodeStatus, decisions>>, LocalsBacked(l) \/ LocalsBacked(l)'
  PROVE  BackedInv'
<1>1. proc'[p] = l /\ \A q \in Processes \ {p} : proc'[q] = proc[q]
  BY Becomes
<1>2. LocalsBacked(l)'
  BY BackingStays
<1>3. ASSUME NEW q \in Processes PROVE LocalsBacked(proc[q])'
  <2>1. CASE q = p
    BY <1>1, <1>2, <2>1 DEF LocalsBacked, Where
  <2>2. CASE q # p
    <3>1. LocalsBacked(proc[q])
      BY DEF BackedInv
    <3> DEFINE k == proc[q]
    <3>2. \A j : LocalsBacked(j) => LocalsBacked(j)'
      BY BackingStays
    <3>3. proc'[q] = k
      BY <1>1, <2>2
    <3> QED BY <3>1, <3>2, <3>3 DEF LocalsBacked, Where
  <2> QED BY <2>1, <2>2
<1>4. RowsBacked'
  BY BackingStays DEF BackedInv, WritesBacked, RowsBacked
<1>5. DecisionsBacked'
  BY DEF BackedInv, WritesBacked, DecisionsBacked, History
<1> QED BY <1>3, <1>4, <1>5 DEF BackedInv, WritesBacked

LEMMA IdleIsBacked == LocalsBacked(Idle)
  BY DEF LocalsBacked, Idle, Where, Writing, Executing, Routing, Delivering

LEMMA MyBacking ==
  ASSUME TypeInv, BackedInv, NEW p \in Processes
  PROVE  proc[p] \in Locals /\ LocalsBacked(proc[p])
  BY MyLocals DEF BackedInv

LEMMA BackedEnd ==
  ASSUME TypeInv, BackedInv, History, NEW p \in Processes, End(p),
         UNCHANGED <<nodeStatus, decisions>>
  PROVE  BackedInv'
  BY IdleIsBacked, BackedKept DEF End

\* Where a process goes on, it relies on what it relied on.
Leads(l, location) ==
  /\ l.pc \notin Writing /\ location \notin Writing
  /\ location \in Executing => l.pc \in Executing
  /\ location \in Routing => l.pc \in Routing
  /\ location \in Delivering => l.pc \in Delivering

LEMMA BackedGoto ==
  ASSUME TypeInv, BackedInv, History, NEW p \in Processes, NEW location,
         Leads(proc[p], location), Goto(p, location), UNCHANGED <<nodeStatus, decisions>>
  PROVE  BackedInv'
<1> DEFINE l == [proc[p] EXCEPT !.pc = location]
<1>1. proc[p] \in Locals /\ LocalsBacked(proc[p])
  BY MyBacking
<1>2. /\ l.pc = location /\ l.stale = proc[p].stale /\ l.node = proc[p].node
      /\ l.todo = proc[p].todo
  BY <1>1 DEF Locals
<1> HIDE DEF l
<1>3. LocalsBacked(l)
  BY <1>1, <1>2 DEF LocalsBacked, Leads, Where
<1> QED BY <1>3, BackedKept DEF Goto, l

LEMMA BackedCall ==
  ASSUME TypeInv, BackedInv, History, NEW p \in Processes, NEW n, NEW status,
         NEW tries, NEW exec, NEW next, Call(p, proc[p], n, status, tries, exec, next),
         Leads(proc[p], next), Backed(n, status), UNCHANGED <<nodeStatus, decisions>>
  PROVE  BackedInv'
<1> DEFINE call == [node |-> n, status |-> status, tries |-> tries, exec |-> exec,
                    next |-> next]
           l == [proc[p] EXCEPT !.pc = "upsert", !.call = call]
<1>1. proc[p] \in Locals /\ LocalsBacked(proc[p])
  BY MyBacking
<1>2. call.node = n /\ call.status = status /\ call.next = next
  OBVIOUS
<1> HIDE DEF call
<1>3. /\ l.pc \in Writing /\ l.stale = proc[p].stale /\ l.node = proc[p].node
      /\ l.todo = proc[p].todo /\ l.call = call
  BY <1>1 DEF Locals, Writing
<1> HIDE DEF l
<1>4. LocalsBacked(l)
  BY <1>1, <1>2, <1>3 DEF LocalsBacked, Leads, Where
<1> QED BY <1>4, BackedKept DEF Call, l, call

\* Steps that only move the process on, or end it.
LEMMA BackedMovingStep ==
  ASSUME TypeInv, BackedInv, History, NEW p \in Processes,
         \/ EngineOpened(p) \/ LeaveLoop(p) \/ DeclineNode(p) \/ AskForInput(p)
         \/ EndRouting(p) \/ CheckRequest(p) \/ LookUpBatch(p) \/ PlaceBatch(p)
         \/ SealBatch(p) \/ Kill(p)
  PROVE  BackedInv'
<1>1. UNCHANGED <<nodeStatus, decisions>>
  BY DEF EngineOpened, LeaveLoop, DeclineNode, AskForInput, EndRouting, CheckRequest,
         LookUpBatch, PlaceBatch, SealBatch, Kill, store, rows
<1>2. End(p) \/ \E location : Leads(proc[p], location) /\ Goto(p, location)
  BY DEF EngineOpened, LeaveLoop, DeclineNode, ReturnFromRunNode, AskForInput, EndRouting,
         CheckRequest, LookUpBatch, PlaceBatch, SealBatch, Kill, At, Leads, Writing,
         Executing, Routing, Delivering
<1> QED BY <1>1, <1>2, BackedEnd, BackedGoto

\* Calls of upsert_node_state outside the run of a node.
LEMMA BackedCallingStep ==
  ASSUME TypeInv, BackedInv, History, NEW p \in Processes,
         \/ OpenEngine(p) \/ RecoverNode(p) \/ ReleaseWaitingNode(p)
         \/ ActivateResumeNode(p) \/ Unblock(p)
  PROVE  BackedInv'
<1>0. proc[p] \in Locals /\ LocalsBacked(proc[p]) /\ proc[p].node \in Nodes
  BY MyBacking DEF Locals
<1>1. UNCHANGED <<nodeStatus, decisions>>
  BY DEF OpenEngine, RecoverNode, ReleaseWaitingNode, ActivateResumeNode, Unblock, store, rows
<1>2. ASSUME NEW n, NEW status, NEW tries, NEW exec, NEW next,
             Call(p, proc[p], n, status, tries, exec, next), Leads(proc[p], next),
             Backed(n, status)
      PROVE  BackedInv'
  BY <1>1, <1>2, BackedCall
<1>3. CASE OpenEngine(p)
  <2>1. Backed(Entry, "READY")
    BY DEF Backed, Activated
  <2>2. Leads(proc[p], "list")
    BY <1>3 DEF OpenEngine, At, Leads, Writing, Executing, Routing, Delivering
  <2> QED BY <1>1, <1>2, <1>3, <2>1, <2>2, BackedGoto DEF OpenEngine
<1>4. CASE RecoverNode(p)
  <2>1. PICK row \in proc[p].stale :
          Call(p, proc[p], row.node, "READY", row.attempts, NoExec, "cancel")
    BY <1>4 DEF RecoverNode
  <2>2. Backed(row.node, "READY")
    BY <1>0 DEF LocalsBacked, Backed
  <2>3. Leads(proc[p], "cancel")
    BY <1>4 DEF RecoverNode, At, Leads, Writing, Executing, Routing, Delivering
  <2> QED BY <1>2, <2>1, <2>2, <2>3
<1>5. CASE ReleaseWaitingNode(p)
  <2>1. Answered(proc[p].node)
    BY <1>0, <1>5 DEF ReleaseWaitingNode, At, LocalsBacked, Where, Writing, Delivering
  <2>2. Backed(proc[p].node, "SUCCEEDED")
    BY <2>1 DEF Backed, Activated
  <2>3. Leads(proc[p], "resume")
    BY <1>5 DEF ReleaseWaitingNode, At, Leads, Writing, Executing, Routing, Delivering
  <2> QED BY <1>1, <1>2, <1>5, <2>2, <2>3, BackedGoto DEF ReleaseWaitingNode
<1>6. CASE ActivateResumeNode(p)
  <2>1. Answered(proc[p].node)
    BY <1>0, <1>6 DEF ActivateResumeNode, At, LocalsBacked, Where, Writing, Delivering
  <2>2. Backed(ResumeNode[proc[p].node], "READY")
    BY <1>0, <2>1 DEF Backed, Activated
  <2>3. Leads(proc[p], "idle")
    BY <1>6 DEF ActivateResumeNode, At, Leads, Writing, Executing, Routing, Delivering
  <2> QED BY <1>2, <1>6, <2>2, <2>3 DEF ActivateResumeNode
<1>7. CASE Unblock(p)
  <2>1. nodeStatus[proc[p].node] # "PENDING" => Backed(proc[p].node, "READY")
    BY <1>0 DEF BackedInv, WritesBacked, RowsBacked, Backed
  <2>2. Leads(proc[p], "idle")
    BY <1>7 DEF Unblock, At, Leads, Writing, Executing, Routing, Delivering
  <2> QED BY <1>1, <1>2, <1>7, <2>1, <2>2, BackedEnd DEF Unblock
<1> QED BY <1>3, <1>4, <1>5, <1>6, <1>7

\* What the handler asks and ends with.
LEMMA BackedHandlerStep ==
  ASSUME TypeInv, BackedInv, History, NEW p \in Processes,
         InsertRequest(p) \/ LookUpRequest(p) \/ HandlerEnds(p)
  PROVE  BackedInv'
<1>0. proc[p] \in Locals /\ LocalsBacked(proc[p])
  BY MyBacking
<1>1. UNCHANGED <<nodeStatus, decisions>>
  BY DEF InsertRequest, LookUpRequest, HandlerEnds, store, rows
<1>2. /\ Where(proc[p]) \in Executing
      /\ \/ Leads(proc[p], "asked") /\ Goto(p, "asked")
         \/ \E o : Become(p, [proc[p] EXCEPT !.pc = "finish", !.outcome = o])
  BY DEF InsertRequest, LookUpRequest, HandlerEnds, HandlerRaises, At, Where, Leads, Writing,
         Executing, Routing, Delivering
<1>3. CASE Leads(proc[p], "asked") /\ Goto(p, "asked")
  BY <1>1, <1>3, BackedGoto
<1>4. CASE \E o : Become(p, [proc[p] EXCEPT !.pc = "finish", !.outcome = o])
  <2>1. PICK o : Become(p, [proc[p] EXCEPT !.pc = "finish", !.outcome = o])
    BY <1>4
  <2> DEFINE l == [proc[p] EXCEPT !.pc = "finish", !.outcome = o]
  <2>2. l.pc = "finish" /\ l.stale = proc[p].stale /\ l.node = proc[p].node
    BY <1>0 DEF Locals
  <2> HIDE DEF l
  <2>3. LocalsBacked(l)
    BY <1>0, <1>2, <2>2 DEF LocalsBacked, Where, Writing, Executing, Routing, Delivering
  <2> QED BY <1>1, <2>1, <2>3, BackedKept DEF l
<1> QED BY <1>2, <1>3, <1>4

\* Steps that read the database, or strike a row off the listing.
LEMMA BackedReadingStep ==
  ASSUME TypeInv, BackedInv, History, NEW p \in Processes,
         \/ IssueCommand(p) \/ UpsertReads(p) \/ ListStale(p) \/ CancelStale(p)
         \/ SelectNext(p)
  PROVE  BackedInv'
<1>0. proc[p] \in Locals /\ LocalsBacked(proc[p])
  BY MyBacking
<1>1. UNCHANGED <<nodeStatus, decisions>>
  BY DEF IssueCommand, Issue, UpsertReads, ListStale, CancelStale, SelectNext, store, rows
<1>2. ASSUME NEW l, Become(p, l), LocalsBacked(l) PROVE BackedInv'
  BY <1>1, <1>2, BackedKept
<1>3. ASSUME NEW l, l.pc \notin Writing \cup Executing \cup Routing \cup Delivering,
             \A row \in l.stale : Activated(row.node)
      PROVE  LocalsBacked(l)
  BY <1>3 DEF LocalsBacked, Where
<1>4. CASE IssueCommand(p)
  <2>1. PICK command, n, r : Issue(p, command, n, r)
    BY <1>4 DEF IssueCommand
  <2> DEFINE pc == CASE command = "answer" -> "resolve"
                     [] command = "unblock" -> "unblock"
                     [] OTHER -> "open"
             l == [Idle EXCEPT !.mode = command, !.node = n, !.request = r, !.pc = pc]
  <2>2. Become(p, l)
    BY <2>1 DEF Issue
  <2>3. pc \in {"resolve", "unblock", "open"}
    OBVIOUS
  <2> HIDE DEF pc
  <2>4. l.pc = pc /\ l.stale = {}
    BY DEF Idle
  <2> HIDE DEF l
  <2>5. l.pc \notin Writing \cup Executing \cup Routing \cup Delivering
    BY <2>3, <2>4 DEF Writing, Executing, Routing, Delivering
  <2> QED BY <1>2, <1>3, <2>2, <2>4, <2>5
<1>5. CASE UpsertReads(p)
  <2> DEFINE row == RowOf(proc[p].call.node)
             l == [proc[p] EXCEPT !.pc = "write", !.row = row]
  <2>1. Become(p, l) /\ proc[p].pc = "upsert"
    BY <1>5 DEF UpsertReads, At
  <2> HIDE DEF row
  <2>2. /\ l.pc = "write" /\ l.stale = proc[p].stale /\ l.node = proc[p].node
        /\ l.call = proc[p].call /\ l.todo = proc[p].todo
    BY <1>0 DEF Locals
  <2> HIDE DEF l
  <2>3. LocalsBacked(l)
    BY <1>0, <2>1, <2>2 DEF LocalsBacked, Where, Writing
  <2> QED BY <1>2, <2>1, <2>3
<1>6. CASE ListStale(p)
  <2> DEFINE listed == {RowOf(n) : n \in {m \in Nodes : nodeStatus[m] = "RUNNING"}}
             l == [proc[p] EXCEPT !.pc = "recover", !.stale = listed]
  <2>1. Become(p, l)
    BY <1>6 DEF ListStale
  <2>2. \A row \in listed : Activated(row.node)
    BY DEF RowOf, BackedInv, WritesBacked, RowsBacked, Backed
  <2> HIDE DEF listed
  <2>3. l.pc = "recover" /\ l.stale = listed
    BY <1>0 DEF Locals
  <2> HIDE DEF l
  <2>4. l.pc \notin Writing \cup Executing \cup Routing \cup Delivering
    BY <2>3 DEF Writing, Executing, Routing, Delivering
  <2> QED BY <1>2, <1>3, <2>1, <2>2, <2>3, <2>4
<1>7. CASE CancelStale(p)
  <2>1. PICK row : Become(p, [proc[p] EXCEPT !.pc = "recover", !.stale = @ \ {row}])
    BY <1>7 DEF CancelStale
  <2> DEFINE l == [proc[p] EXCEPT !.pc = "recover", !.stale = @ \ {row}]
  <2>2. l.pc = "recover" /\ l.stale \subseteq proc[p].stale
    BY <1>0 DEF Locals
  <2> HIDE DEF l
  <2>3. \A other \in l.stale : Activated(other.node)
    BY <1>0, <2>2 DEF LocalsBacked
  <2>4. l.pc \notin Writing \cup Executing \cup Routing \cup Delivering
    BY <2>2 DEF Writing, Executing, Routing, Delivering
  <2> QED BY <1>2, <1>3, <2>1, <2>3, <2>4 DEF l
<1>8. CASE SelectNext(p)
  <2>1. PICK n : Become(p, [proc[p] EXCEPT !.pc = "begin", !.node = n, !.steps = @ + 1])
    BY <1>8 DEF SelectNext
  <2> DEFINE l == [proc[p] EXCEPT !.pc = "begin", !.node = n, !.steps = @ + 1]
  <2>2. l.pc = "begin" /\ l.stale = proc[p].stale
    BY <1>0 DEF Locals
  <2> HIDE DEF l
  <2>3. \A row \in l.stale : Activated(row.node)
    BY <1>0, <2>2 DEF LocalsBacked
  <2>4. l.pc \notin Writing \cup Executing \cup Routing \cup Delivering
    BY <2>2 DEF Writing, Executing, Routing, Delivering
  <2> QED BY <1>2, <1>3, <2>1, <2>3, <2>4 DEF l
<1> QED BY <1>4, <1>5, <1>6, <1>7, <1>8

\* Routing: a fired edge leads on from a success, and its decision says so.
LEMMA BackedRoutingStep ==
  ASSUME TypeInv, BackedInv, History, NEW p \in Processes, RouteEdge(p) \/ CreateDecision(p)
  PROVE  BackedInv'
<1> DEFINE n == proc[p].node
           todo == proc[p].todo
<1>0. proc[p] \in Locals /\ LocalsBacked(proc[p]) /\ LocalsReady(proc[p])
  BY MyBacking, MyLocals
<1>1. UNCHANGED nodeStatus
  BY DEF RouteEdge, CreateDecision, store, rows
<1>2. /\ n \in Nodes /\ todo \in Seq(Nodes) /\ todo # <<>> /\ Succeeded(n)
      /\ \A i \in DOMAIN todo : todo[i] \in Targets(n)
      /\ proc[p].pc \in Routing
  BY <1>0 DEF RouteEdge, CreateDecision, At, LocalsBacked, LocalsReady, Where, Writing, Routing,
     Locals
<1>3. /\ Head(todo) \in Targets(n)
      /\ \A i \in DOMAIN Tail(todo) : Tail(todo)[i] \in Targets(n)
  <2>1. /\ 1 \in DOMAIN todo /\ Head(todo) = todo[1]
        /\ \A i \in DOMAIN Tail(todo) : i + 1 \in DOMAIN todo /\ Tail(todo)[i] = todo[i + 1]
    BY <1>2
  <2> QED BY <1>2, <2>1
<1>4. CASE RouteEdge(p) /\ Untouchable(Head(todo))
  <2> DEFINE tail == Tail(todo)
             l == [proc[p] EXCEPT !.todo = tail]
  <2>1. Become(p, l) /\ UNCHANGED decisions
    BY <1>4 DEF RouteEdge, store
  <2> HIDE DEF tail
  <2>2. /\ l.pc = proc[p].pc /\ l.stale = proc[p].stale /\ l.node = n /\ l.todo = tail
    BY <1>0 DEF Locals
  <2> HIDE DEF l
  <2>3. LocalsBacked(l)
    BY <1>0, <1>2, <1>3, <2>2
       DEF LocalsBacked, Where, Writing, Routing, Executing, Delivering, tail
  <2> QED BY <1>1, <2>1, <2>3, BackedKept
<1>5. CASE RouteEdge(p) /\ ~Untouchable(Head(todo))
  <2>1. Call(p, proc[p], Head(todo), "READY", KeepAttempts, NoExec, "decide")
        /\ UNCHANGED decisions
    BY <1>5 DEF RouteEdge, store
  <2>2. Backed(Head(todo), "READY")
    BY <1>2, <1>3 DEF Backed, Activated
  <2>3. Leads(proc[p], "decide")
    BY <1>2 DEF Leads, Writing, Executing, Routing, Delivering
  <2> QED BY <1>1, <2>1, <2>2, <2>3, BackedCall
<1>6. CASE CreateDecision(p)
  <2> DEFINE tail == Tail(todo)
             l == [proc[p] EXCEPT !.pc = "route", !.todo = tail]
  <2>1. Become(p, l) /\ decisions' = decisions \cup {<<n, Head(todo)>>}
    BY <1>6 DEF CreateDecision
  <2> HIDE DEF tail
  <2>2. /\ l.pc = "route" /\ l.stale = proc[p].stale /\ l.node = n /\ l.todo = tail
    BY <1>0 DEF Locals
  <2> HIDE DEF l
  <2>3. LocalsBacked(l)
    BY <1>0, <1>2, <1>3, <2>2
       DEF LocalsBacked, Where, Writing, Routing, Executing, Delivering, tail
  <2>4. proc'[p] = l /\ \A q \in Processes \ {p} : proc'[q] = proc[q]
    BY <2>1, Becomes
  <2>5. UNCHANGED <<execs, requests>>
    BY <1>6 DEF CreateDecision
  <2>6. ASSUME NEW q \in Processes PROVE LocalsBacked(proc[q])'
    BY <2>3, <2>4, <2>5
       DEF BackedInv, LocalsBacked, Where, Backed, Activated, Succeeded, Answered
  <2>7. RowsBacked'
    BY <1>1, BackingStays DEF BackedInv, WritesBacked, RowsBacked
  <2>8. DecisionsBacked'
    BY <1>2, <1>3, <2>1 DEF BackedInv, WritesBacked, DecisionsBacked, History
  <2> QED BY <2>6, <2>7, <2>8 DEF BackedInv, WritesBacked
<1> QED BY <1>4, <1>5, <1>6

\* An answer is on record before it is delivered.
LEMMA BackedResolveRequest ==
  ASSUME TypeInv, BackedInv, History, NEW p \in Processes, ResolveRequest(p)
  PROVE  BackedInv'
<1>a. PICK n, r, l : /\ n = proc[p].node /\ r = proc[p].request
                     /\ l = [proc[p] EXCEPT !.pc = "register"]
  OBVIOUS
<1>0. proc[p] \in Locals /\ LocalsBacked(proc[p]) /\ LocalsReady(proc[p])
  BY MyBacking, MyLocals
<1>1. r \in DOMAIN requests /\ requests[r].node = n
  BY <1>0, <1>a DEF ResolveRequest, At, LocalsReady, Where, Writing, Answering
<1>2. requests[r] \in Requests
  BY <1>1, RequestType
<1>3. /\ requests' = [requests EXCEPT ![r].status = "RESOLVED"] /\ Become(p, l)
      /\ UNCHANGED <<nodeStatus, decisions>>
  BY <1>a DEF ResolveRequest, Goto, rows
<1>4. r \in DOMAIN requests' /\ requests'[r].node = n /\ requests'[r].status = "RESOLVED"
  BY <1>1, <1>2, <1>3 DEF Requests, TypeInv, TypeOK, StoreOK
<1>5. Answered(n)'
  BY <1>4 DEF Answered
<1>6. l.pc = "register" /\ l.stale = proc[p].stale /\ l.node = n
  BY <1>0, <1>a DEF Locals
<1>7. \A row \in l.stale : Activated(row.node)'
  BY <1>0, <1>6, BackingStays DEF LocalsBacked
<1>8. LocalsBacked(l)'
  BY <1>5, <1>6, <1>7 DEF LocalsBacked, Where, Writing, Executing, Routing
<1> QED BY <1>3, <1>8, BackedKept

\* A node is run only when its row is there, or it is the entry.
LEMMA BackedCreateExecution ==
  ASSUME TypeInv, BackedInv, History, NEW p \in Processes, CreateExecution(p)
  PROVE  BackedInv'
<1> DEFINE e == Len(execs) + 1
           n == proc[p].node
           call == [node |-> n, status |-> "RUNNING", tries |-> attempts[n] + 1,
                    exec |-> NoExec, next |-> "execute"]
           l == [proc[p] EXCEPT !.exec = e, !.pc = "upsert", !.call = call]
<1>0. proc[p] \in Locals /\ LocalsBacked(proc[p]) /\ n \in Nodes
  BY MyBacking DEF Locals
<1>1. Become(p, l) /\ UNCHANGED <<nodeStatus, decisions>>
  BY DEF CreateExecution, Call, ExecutionWhileRunning, rows
<1>2. Activated(n)
  BY <1>0 DEF CreateExecution, Runnable, BackedInv, WritesBacked, RowsBacked, Backed, Activated
<1>3. call.node = n /\ call.status = "RUNNING" /\ call.next = "execute"
  OBVIOUS
<1> HIDE DEF call, e
<1>4. l.pc = "upsert" /\ l.stale = proc[p].stale /\ l.node = n /\ l.call = call
  BY <1>0 DEF Locals
<1> HIDE DEF l
<1>5. LocalsBacked(l)
  BY <1>0, <1>2, <1>3, <1>4
     DEF LocalsBacked, Where, Writing, Executing, Routing, Delivering, Backed
<1> QED BY <1>1, <1>5, BackedKept

\* A success is on record before its row is written and its edges are routed.
LEMMA BackedFinishExecution ==
  ASSUME TypeInv, OwnInv, BackedInv, History, NEW p \in Processes, FinishExecution(p)
  PROVE  BackedInv'
<1>a. PICK n, o, s, e : /\ n = proc[p].node /\ o = proc[p].outcome /\ s = PersistedStatus(o)
                        /\ e = proc[p].exec
  OBVIOUS
<1>b. PICK routed : routed = IF RoutesAfter(o) THEN RouteTargets(n) ELSE <<>>
  OBVIOUS
<1>c. PICK next : next = IF RoutesAfter(o) THEN "route" ELSE AfterNode(p)
  OBVIOUS
<1>d. PICK call : call = [node |-> n, status |-> s,
                          tries |-> AttemptsAfter(o, execs[e].attempt), exec |-> e,
                          next |-> next]
  OBVIOUS
<1>e. PICK l : l = [proc[p] EXCEPT !.exec = NoExec, !.outcome = "success", !.todo = routed,
                                   !.pc = "upsert", !.call = call]
  OBVIOUS
<1>0. proc[p] \in Locals /\ LocalsBacked(proc[p]) /\ n \in Nodes /\ o \in OutcomeNames
  BY <1>a, MyBacking DEF Locals
<1>1. Become(p, l) /\ UNCHANGED <<nodeStatus, decisions>>
  BY <1>a, <1>b, <1>c, <1>d, <1>e DEF FinishExecution, Call, rows
<1>2. Activated(n)
  BY <1>0, <1>a DEF FinishExecution, At, LocalsBacked, Where, Writing, Executing
<1>3. s = "SUCCEEDED" => Succeeded(n)'
  <2>1. DOMAIN execs' = DOMAIN execs
    BY DEF FinishExecution
  <2>2. e \in DOMAIN execs /\ execs'[e].node = n /\ execs'[e].status = s
    BY <1>a, OwnFinishExecution
  <2> QED BY <2>1, <2>2 DEF Succeeded
<1>4. RoutesAfter(o) => s = "SUCCEEDED"
  BY <1>a DEF RoutesAfter, PersistedStatus
<1>5. \A i \in DOMAIN routed : RoutesAfter(o) /\ routed[i] \in Targets(n)
  BY <1>0, <1>b, RouteTargetsType
<1>6. next = "route" => RoutesAfter(o)
  BY <1>c DEF AfterNode
<1>7. next \notin Executing \cup Delivering \cup {"decide"}
  BY <1>c DEF AfterNode, Executing, Delivering
<1>8. call.node = n /\ call.status = s /\ call.next = next
  BY <1>d
<1>9. /\ l.pc = "upsert" /\ l.stale = proc[p].stale /\ l.node = n /\ l.todo = routed
      /\ l.call = call
  BY <1>0, <1>a, <1>e DEF Locals
<1>10. Activated(n)' /\ \A row \in l.stale : Activated(row.node)'
  BY <1>0, <1>2, <1>9, BackingStays DEF LocalsBacked
<1>11. Backed(n, s)'
  BY <1>3, <1>10 DEF Backed
<1>12. next \in Routing => Succeeded(n)' /\ \A i \in DOMAIN routed : routed[i] \in Targets(n)
  BY <1>3, <1>4, <1>5, <1>6, <1>7 DEF Routing
<1>13. LocalsBacked(l)'
  BY <1>7, <1>8, <1>9, <1>10, <1>11, <1>12 DEF LocalsBacked, Where, Writing
<1> QED BY <1>1, <1>13, BackedKept

\* A write keeps every row backed: its own is, whatever it read before.
LEMMA BackedUpsertWrites ==
  ASSUME TypeInv, BackedInv, History, NEW p \in Processes, UpsertWrites(p)
  PROVE  BackedInv'
<1>a. PICK call : call = proc[p].call
  OBVIOUS
<1>0. proc[p] \in Locals /\ LocalsBacked(proc[p]) /\ proc[p].pc \in Writing
  BY MyBacking DEF UpsertWrites, At, Writing
<1>1. UNCHANGED <<execs, requests, decisions>>
  BY DEF UpsertWrites
<1>2. ASSUME NEW n \in Nodes, nodeStatus'[n] # "PENDING" PROVE Backed(n, nodeStatus'[n])
  <2>1. CASE UNCHANGED rows
    BY <1>2, <2>1 DEF BackedInv, WritesBacked, RowsBacked, rows
  <2>2. CASE ~UNCHANGED rows
    <3>1. nodeStatus' = [nodeStatus EXCEPT ![call.node] = call.status]
      BY <1>a, <2>2 DEF UpsertWrites
    <3>2. Backed(call.node, call.status)
      BY <1>0, <1>a DEF LocalsBacked
    <3> QED BY <1>2, <3>1, <3>2 DEF BackedInv, WritesBacked, RowsBacked, TypeInv, TypeOK, StoreOK
  <2> QED BY <2>1, <2>2
<1>3. RowsBacked'
  BY <1>1, <1>2 DEF RowsBacked, Backed, Activated, Succeeded, Answered
<1>4. DecisionsBacked'
  BY <1>1 DEF BackedInv, WritesBacked, DecisionsBacked, Succeeded
<1>5. PICK l : Become(p, l) /\ LocalsBacked(l)
  <2>1. CASE End(p)
    BY <2>1, IdleIsBacked DEF End
  <2>2. CASE ~End(p)
    <3>1. PICK l : l = [proc[p] EXCEPT !.pc = call.next, !.row = NoRow, !.call = NoCall]
      OBVIOUS
    <3>2. Become(p, l)
      BY <1>a, <2>2, <3>1 DEF UpsertWrites
    <3>3. call.next \notin Writing
      BY <1>0, <1>a DEF Locals, Calls
    <3>4. /\ l.pc = call.next /\ l.stale = proc[p].stale /\ l.node = proc[p].node
          /\ l.todo = proc[p].todo
      BY <1>0, <3>1 DEF Locals
    <3>5. LocalsBacked(l)
      BY <1>0, <1>a, <3>3, <3>4 DEF LocalsBacked, Where
    <3> QED BY <3>2, <3>5
  <2> QED BY <2>1, <2>2
<1>6. proc'[p] = l /\ \A q \in Processes \ {p} : proc'[q] = proc[q]
  BY <1>5, Becomes
<1>7. ASSUME NEW q \in Processes PROVE LocalsBacked(proc[q])'
  BY <1>1, <1>5, <1>6
     DEF BackedInv, LocalsBacked, Where, Backed, Activated, Succeeded, Answered
<1> QED BY <1>3, <1>4, <1>7 DEF BackedInv, WritesBacked

LEMMA BackedNext == TypeInv /\ OwnInv /\ BackedInv /\ [Next]_vars => BackedInv'
<1> SUFFICES ASSUME TypeInv, OwnInv, BackedInv, [Next]_vars PROVE BackedInv'
  OBVIOUS
<1>h. History
  BY HistoryStays
<1>1. ASSUME NEW p \in Processes, IssueCommand(p) \/ ProcessStep(p) \/ Kill(p)
      PROVE  BackedInv'
  <2>1. CASE \/ IssueCommand(p) \/ UpsertReads(p) \/ ListStale(p) \/ CancelStale(p)
             \/ SelectNext(p)
    BY <1>h, <2>1, BackedReadingStep
  <2>2. CASE \/ EngineOpened(p) \/ LeaveLoop(p) \/ DeclineNode(p) \/ AskForInput(p)
             \/ EndRouting(p) \/ CheckRequest(p) \/ LookUpBatch(p) \/ PlaceBatch(p)
             \/ SealBatch(p) \/ Kill(p)
    BY <1>h, <2>2, BackedMovingStep
  <2>3. CASE \/ OpenEngine(p) \/ RecoverNode(p) \/ ReleaseWaitingNode(p)
             \/ ActivateResumeNode(p) \/ Unblock(p)
    BY <1>h, <2>3, BackedCallingStep
  <2>4. CASE InsertRequest(p) \/ LookUpRequest(p) \/ HandlerEnds(p)
    BY <1>h, <2>4, BackedHandlerStep
  <2>5. CASE RouteEdge(p) \/ CreateDecision(p)
    BY <1>h, <2>5, BackedRoutingStep
  <2>6. CASE UpsertWrites(p)
    BY <1>h, <2>6, BackedUpsertWrites
  <2>7. CASE CreateExecution(p)
    BY <1>h, <2>7, BackedCreateExecution
  <2>8. CASE FinishExecution(p)
    BY <1>h, <2>8, BackedFinishExecution
  <2>9. CASE ResolveRequest(p)
    BY <1>h, <2>9, BackedResolveRequest
  <2> QED BY <1>1, <2>1, <2>2, <2>3, <2>4, <2>5, <2>6, <2>7, <2>8, <2>9
          DEF ProcessStep, OpeningStep, NodeStep, AnswerStep
<1>2. CASE UNCHANGED vars
  <2>1. UNCHANGED <<nodeStatus, execs, requests, decisions, proc>>
    BY <1>2 DEF vars, store, rows
  <2> QED BY <2>1 DEF BackedInv, WritesBacked, RowsBacked, DecisionsBacked, LocalsBacked,
          Where, Backed, Activated, Succeeded, Answered
<1> QED BY <1>1, <1>2 DEF Next

(***************************************************************************)
(* Rows agree with the executions they name, and numbers with the budget.  *)
(***************************************************************************)
LEMMA LimitType == ASSUME NEW n \in Nodes PROVE AttemptLimit(n) \in Nat
  BY GraphAssumption DEF AttemptLimit

LEMMA AgreeInit == Init => AgreeInv
  BY LimitType
     DEF Init, AgreeInv, RowMatchesExecution, NumberedWithinBudget, LocalsAgree, Idle, NoCall,
         NoExec, Writing

\* Executions that have ended stay, so what agreed with one still does.
LEMMA AgreeStays ==
  ASSUME EndedKept, NEW l, LocalsOwn(l), LocalsAgree(l)
  PROVE  LocalsAgree(l)'
  BY DEF EndedKept, LocalsOwn, LocalsAgree

LEMMA MatchStays ==
  ASSUME OwnInv, EndedKept, RowMatchesExecution, UNCHANGED rows
  PROVE  RowMatchesExecution'
  BY DEF OwnInv, EndedKept, RowMatchesExecution, rows

\* The step of one process that writes no row.
LEMMA AgreeKept ==
  ASSUME TypeInv, OwnInv, AgreeInv, EndedKept, NEW p \in Processes, NEW l, Become(p, l),
         UNCHANGED rows, LocalsAgree(proc[p])',
         \A i \in DOMAIN execs' : execs'[i].attempt <= AttemptLimit(execs'[i].node)
  PROVE  AgreeInv'
<1>1. proc'[p] = l /\ \A q \in Processes \ {p} : proc'[q] = proc[q]
  BY Becomes
<1>2. ASSUME NEW q \in Processes \ {p} PROVE LocalsAgree(proc[q])'
  BY <1>1, AgreeStays DEF OwnInv, AgreeInv, LocalsAgree
<1>3. RowMatchesExecution'
  BY MatchStays DEF AgreeInv
<1> QED BY <1>2, <1>3 DEF AgreeInv, NumberedWithinBudget, rows

\* A process that goes on without writing, and without listing anything.
LEMMA AgreeMoves ==
  ASSUME TypeInv, OwnInv, AgreeInv, EndedKept, NEW p \in Processes, NEW l, Become(p, l),
         UNCHANGED <<execs, rows>>, l.pc \notin Writing, l.stale \subseteq proc[p].stale
  PROVE  AgreeInv'
<1>1. LocalsAgree(proc[p])'
  BY Becomes DEF AgreeInv, LocalsAgree, Writing
<1>2. \A i \in DOMAIN execs' : execs'[i].attempt <= AttemptLimit(execs'[i].node)
  BY DEF AgreeInv, NumberedWithinBudget
<1> QED BY <1>1, <1>2, AgreeKept

LEMMA AgreeEnd ==
  ASSUME TypeInv, OwnInv, AgreeInv, EndedKept, NEW p \in Processes, End(p),
         UNCHANGED <<execs, rows>>
  PROVE  AgreeInv'
<1>1. Idle.pc \notin Writing /\ Idle.stale \subseteq proc[p].stale
  BY DEF Idle, Writing
<1> QED BY <1>1, AgreeMoves DEF End

LEMMA AgreeGoto ==
  ASSUME TypeInv, OwnInv, AgreeInv, EndedKept, NEW p \in Processes, NEW location,
         location \notin Writing, Goto(p, location), UNCHANGED <<execs, rows>>
  PROVE  AgreeInv'
<1> DEFINE l == [proc[p] EXCEPT !.pc = location]
<1>1. l.pc = location /\ l.stale = proc[p].stale
  BY MyLocals DEF Locals
<1> QED BY <1>1, AgreeMoves DEF Goto

\* A call that names no execution and passes attempts within the budget.
LEMMA AgreeCall ==
  ASSUME TypeInv, OwnInv, AgreeInv, EndedKept, NEW p \in Processes, NEW n, NEW status,
         NEW tries, tries # KeepAttempts => tries <= AttemptLimit(n), NEW next,
         Call(p, proc[p], n, status, tries, NoExec, next), UNCHANGED <<execs, rows>>
  PROVE  AgreeInv'
<1> DEFINE call == [node |-> n, status |-> status, tries |-> tries, exec |-> NoExec,
                    next |-> next]
           l == [proc[p] EXCEPT !.pc = "upsert", !.call = call]
<1>1. l.pc = "upsert" /\ l.stale = proc[p].stale /\ l.call = call
  BY MyLocals DEF Locals
<1>2. Become(p, l) /\ proc'[p] = l
  BY Becomes DEF Call
<1> HIDE DEF l
<1>3. LocalsAgree(proc[p])'
  BY <1>1, <1>2 DEF AgreeInv, LocalsAgree
<1>4. \A i \in DOMAIN execs' : execs'[i].attempt <= AttemptLimit(execs'[i].node)
  BY DEF AgreeInv, NumberedWithinBudget
<1> QED BY <1>2, <1>3, <1>4, AgreeKept

LEMMA AgreeMovingStep ==
  ASSUME TypeInv, OwnInv, AgreeInv, EndedKept, NEW p \in Processes,
         \/ EngineOpened(p) \/ LeaveLoop(p) \/ DeclineNode(p) \/ AskForInput(p)
         \/ EndRouting(p) \/ CheckRequest(p) \/ LookUpBatch(p) \/ ResolveRequest(p)
         \/ PlaceBatch(p) \/ SealBatch(p) \/ Kill(p)
  PROVE  AgreeInv'
<1>1. UNCHANGED <<execs, rows>>
  BY DEF EngineOpened, LeaveLoop, DeclineNode, AskForInput, EndRouting, CheckRequest,
         LookUpBatch, ResolveRequest, PlaceBatch, SealBatch, Kill, store
<1>2. End(p) \/ \E location : location \notin Writing /\ Goto(p, location)
  BY DEF EngineOpened, LeaveLoop, DeclineNode, ReturnFromRunNode, AskForInput, EndRouting,
         CheckRequest, LookUpBatch, ResolveRequest, PlaceBatch, SealBatch, Kill, Writing
<1> QED BY <1>1, <1>2, AgreeEnd, AgreeGoto

LEMMA AgreeCallingStep ==
  ASSUME TypeInv, OwnInv, AgreeInv, EndedKept, NEW p \in Processes,
         \/ OpenEngine(p) \/ RecoverNode(p) \/ ReleaseWaitingNode(p)
         \/ ActivateResumeNode(p) \/ Unblock(p)
  PROVE  AgreeInv'
<1>1. UNCHANGED <<execs, rows>>
  BY DEF OpenEngine, RecoverNode, ReleaseWaitingNode, ActivateResumeNode, Unblock, store
<1>2. CASE End(p) \/ \E location : location \notin Writing /\ Goto(p, location)
  BY <1>1, <1>2, AgreeEnd, AgreeGoto
<1>3. CASE \E n, status, tries, next :
             /\ tries # KeepAttempts => tries <= AttemptLimit(n)
             /\ Call(p, proc[p], n, status, tries, NoExec, next)
  BY <1>1, <1>3, AgreeCall
<1>4. proc[p].node \in Nodes
  BY MyLocals DEF Locals
<1>5. CASE OpenEngine(p) \/ ActivateResumeNode(p)
  BY <1>2, <1>3, <1>5 DEF OpenEngine, ActivateResumeNode, Writing
<1>6. CASE ReleaseWaitingNode(p) \/ Unblock(p)
  <2>1. attempts[proc[p].node] <= AttemptLimit(proc[p].node)
    BY <1>4 DEF AgreeInv, NumberedWithinBudget
  <2> QED BY <1>2, <1>3, <1>6, <2>1 DEF ReleaseWaitingNode, Unblock, Writing
<1>7. CASE RecoverNode(p)
  BY <1>3, <1>7 DEF RecoverNode, AgreeInv, LocalsAgree
<1> QED BY <1>5, <1>6, <1>7

\* The other steps that leave rows and executions alone.
LEMMA AgreeReadingStep ==
  ASSUME TypeInv, OwnInv, AgreeInv, EndedKept, NEW p \in Processes,
         \/ IssueCommand(p) \/ SelectNext(p) \/ InsertRequest(p) \/ LookUpRequest(p)
         \/ HandlerEnds(p) \/ RouteEdge(p) \/ CreateDecision(p) \/ CancelStale(p)
  PROVE  AgreeInv'
<1>0. proc[p] \in Locals /\ LocalsOwn(proc[p])
  BY MyLocals DEF OwnInv
<1>1. UNCHANGED rows
  BY DEF IssueCommand, Issue, SelectNext, InsertRequest, LookUpRequest, HandlerEnds,
         RouteEdge, CreateDecision, CancelStale, store
<1>2. CASE IssueCommand(p)
  <2>1. PICK command, n, r : Issue(p, command, n, r)
    BY <1>2 DEF IssueCommand
  <2> DEFINE location == CASE command = "answer" -> "resolve"
                           [] command = "unblock" -> "unblock"
                           [] OTHER -> "open"
             l == [Idle EXCEPT !.mode = command, !.node = n, !.request = r,
                     !.pc = location]
  <2>2. Become(p, l) /\ UNCHANGED execs
    BY <2>1 DEF Issue, store
  <2>3. location \notin Writing
    BY DEF Writing
  <2> HIDE DEF location
  <2>4. l.stale = {} /\ l.pc = location
    BY DEF Idle
  <2> QED BY <1>1, <2>2, <2>3, <2>4, AgreeMoves
<1>3. CASE SelectNext(p)
  <2>1. PICK n : Become(p, [proc[p] EXCEPT !.pc = "begin", !.node = n, !.steps = @ + 1])
    BY <1>3 DEF SelectNext
  <2> DEFINE l == [proc[p] EXCEPT !.pc = "begin", !.node = n, !.steps = @ + 1]
  <2>2. l.stale = proc[p].stale /\ l.pc \notin Writing
    BY <1>0 DEF Locals, Writing
  <2> QED BY <1>1, <1>3, <2>1, <2>2, AgreeMoves DEF SelectNext, store
<1>4. CASE InsertRequest(p) \/ LookUpRequest(p) \/ HandlerEnds(p)
  <2>1. UNCHANGED execs
    BY <1>4 DEF InsertRequest, LookUpRequest, HandlerEnds, store
  <2>2. CASE \E o : Become(p, [proc[p] EXCEPT !.pc = "finish", !.outcome = o])
    <3>1. PICK o : Become(p, [proc[p] EXCEPT !.pc = "finish", !.outcome = o])
      BY <2>2
    <3> DEFINE l == [proc[p] EXCEPT !.pc = "finish", !.outcome = o]
    <3>2. l.stale = proc[p].stale /\ l.pc \notin Writing
      BY <1>0 DEF Locals, Writing
    <3> QED BY <1>1, <2>1, <3>1, <3>2, AgreeMoves
  <2>3. CASE Goto(p, "asked")
    BY <1>1, <2>1, <2>3, AgreeGoto DEF Writing
  <2> QED BY <1>4, <2>2, <2>3 DEF InsertRequest, LookUpRequest, HandlerEnds, HandlerRaises
<1>5. CASE RouteEdge(p)
  <2>1. CASE Untouchable(Head(proc[p].todo))
    <3> DEFINE l == [proc[p] EXCEPT !.todo = Tail(@)]
    <3>1. l.stale = proc[p].stale /\ l.pc \notin Writing
      BY <1>0, <1>5 DEF RouteEdge, At, Locals, Writing
    <3> QED BY <1>1, <1>5, <2>1, <3>1, AgreeMoves DEF RouteEdge, store
  <2>2. CASE ~Untouchable(Head(proc[p].todo))
    BY <1>1, <1>5, <2>2, AgreeCall DEF RouteEdge, store
  <2> QED BY <2>1, <2>2
<1>6. CASE CreateDecision(p)
  <2> DEFINE l == [proc[p] EXCEPT !.pc = "route", !.todo = Tail(@)]
  <2>1. l.stale = proc[p].stale /\ l.pc \notin Writing
    BY <1>0 DEF Locals, Writing
  <2> QED BY <1>1, <1>6, <2>1, AgreeMoves DEF CreateDecision
<1>7. CASE CancelStale(p)
  <2>1. PICK row \in proc[p].stale :
          /\ execs' = IF row.exec \in DOMAIN execs /\ execs[row.exec].status = "RUNNING"
                        THEN [execs EXCEPT ![row.exec].status = "CANCELLED"] ELSE execs
          /\ Become(p, [proc[p] EXCEPT !.pc = "recover", !.stale = @ \ {row}])
    BY <1>7 DEF CancelStale
  <2> DEFINE l == [proc[p] EXCEPT !.pc = "recover", !.stale = @ \ {row}]
  <2>2. row.exec \notin DOMAIN execs
    BY <1>0 DEF LocalsOwn, NoExec, TypeInv, TypeOK, StoreOK
  <2>3. l.stale \subseteq proc[p].stale /\ l.pc \notin Writing
    BY <1>0 DEF Locals, Writing
  <2> QED BY <1>1, <2>1, <2>2, <2>3, AgreeMoves
<1> QED BY <1>2, <1>3, <1>4, <1>5, <1>6, <1>7

\* The rows a process reads are within the budget when it reads them.
LEMMA AgreeRowReads ==
  ASSUME TypeInv, OwnInv, AgreeInv, EndedKept, NEW p \in Processes,
         ListStale(p) \/ UpsertReads(p)
  PROVE  AgreeInv'
<1>0. proc[p] \in Locals
  BY MyLocals
<1>1. UNCHANGED <<execs, rows>>
  BY DEF ListStale, UpsertReads, store
<1>2. \A i \in DOMAIN execs' : execs'[i].attempt <= AttemptLimit(execs'[i].node)
  BY <1>1 DEF AgreeInv, NumberedWithinBudget
<1>3. \A n \in Nodes : RowOf(n).node = n /\ RowOf(n).attempts <= AttemptLimit(n)
  BY DEF RowOf, AgreeInv, NumberedWithinBudget
<1>4. CASE ListStale(p)
  <2> DEFINE listed == {RowOf(n) : n \in {m \in Nodes : nodeStatus[m] = "RUNNING"}}
             l == [proc[p] EXCEPT !.pc = "recover", !.stale = listed]
  <2>1. Become(p, l)
    BY <1>4 DEF ListStale
  <2>2. \A row \in listed : row.attempts <= AttemptLimit(row.node)
    BY <1>3
  <2> HIDE DEF listed
  <2>3. l.stale = listed /\ l.pc = "recover"
    BY <1>0 DEF Locals
  <2> HIDE DEF l
  <2>4. LocalsAgree(proc[p])'
    BY <2>1, <2>2, <2>3, Becomes DEF LocalsAgree, Writing
  <2> QED BY <1>1, <1>2, <2>1, <2>4, AgreeKept
<1>5. CASE UpsertReads(p)
  <2> DEFINE n == proc[p].call.node
             l == [proc[p] EXCEPT !.pc = "write", !.row = RowOf(n)]
  <2>1. n \in Nodes /\ proc[p].pc \in Writing
    BY <1>0, <1>5 DEF Locals, Calls, UpsertReads, At, Writing
  <2>2. /\ l.pc = "write" /\ l.row = RowOf(n) /\ l.call = proc[p].call
        /\ l.stale = proc[p].stale
    BY <1>0 DEF Locals
  <2>3. Become(p, l)
    BY <1>5 DEF UpsertReads
  <2> HIDE DEF l
  <2>4. LocalsAgree(proc[p])'
    BY <1>1, <1>3, <2>1, <2>2, <2>3, Becomes DEF AgreeInv, LocalsAgree
  <2> QED BY <1>1, <1>2, <2>3, <2>4, AgreeKept
<1> QED BY <1>4, <1>5

LEMMA AgreeUpsertWrites ==
  ASSUME TypeInv, OwnInv, AgreeInv, EndedKept, NEW p \in Processes, UpsertWrites(p)
  PROVE  AgreeInv'
<1> DEFINE call == proc[p].call
           old == proc[p].row
<1>0. /\ proc[p] \in Locals /\ proc[p].pc = "write" /\ proc[p].pc \in Writing
      /\ LocalsAgree(proc[p])
  BY MyLocals DEF AgreeInv, UpsertWrites, At, Writing
<1>1. UNCHANGED execs
  BY DEF UpsertWrites
<1>2. (RowMatchesExecution /\ NumberedWithinBudget)'
  <2>1. CASE UNCHANGED rows
    BY <1>1, <2>1 DEF AgreeInv, RowMatchesExecution, NumberedWithinBudget, rows
  <2>2. CASE ~UNCHANGED rows
    <3>1. /\ nodeStatus' = [nodeStatus EXCEPT ![call.node] = call.status]
          /\ attempts' = [attempts EXCEPT ![call.node] =
               IF call.tries = KeepAttempts THEN old.attempts ELSE call.tries]
          /\ lastExec' = [lastExec EXCEPT ![call.node] = call.exec]
      BY <2>2 DEF UpsertWrites
    <3>2. RowMatchesExecution'
      BY <1>0, <1>1, <3>1
         DEF AgreeInv, RowMatchesExecution, LocalsAgree, TypeInv, TypeOK, StoreOK
    <3>3. \A n \in Nodes : attempts'[n] <= AttemptLimit(n)
      BY <1>0, <3>1
         DEF AgreeInv, NumberedWithinBudget, LocalsAgree, TypeInv, TypeOK, StoreOK
    <3> QED BY <1>1, <3>2, <3>3 DEF AgreeInv, NumberedWithinBudget
  <2> QED BY <2>1, <2>2
<1>3. ASSUME NEW l, Become(p, l), l.pc \notin Writing, l.stale \subseteq proc[p].stale
      PROVE  AgreeInv'
  <2>1. proc'[p] = l /\ \A q \in Processes \ {p} : proc'[q] = proc[q]
    BY <1>3, Becomes
  <2>2. ASSUME NEW q \in Processes PROVE LocalsAgree(proc[q])'
    BY <1>0, <1>1, <1>3, <2>1 DEF AgreeInv, LocalsAgree, Writing
  <2> QED BY <1>2, <2>2 DEF AgreeInv
<1>4. CASE End(p)
  <2>1. Idle.pc \notin Writing /\ Idle.stale \subseteq proc[p].stale
    BY DEF Idle, Writing
  <2> QED BY <1>3, <1>4, <2>1 DEF End
<1>5. CASE ~End(p)
  <2> DEFINE l == [proc[p] EXCEPT !.pc = call.next, !.row = NoRow, !.call = NoCall]
  <2>1. Become(p, l)
    BY <1>5 DEF UpsertWrites
  <2>2. l.pc = call.next /\ call.next \notin Writing /\ l.stale = proc[p].stale
    BY <1>0 DEF Locals, Calls
  <2> QED BY <1>3, <2>1, <2>2
<1> QED BY <1>4, <1>5

\* A node is run only while its row counts less than its limit.
LEMMA AgreeCreateExecution ==
  ASSUME TypeInv, OwnInv, AgreeInv, EndedKept, NEW p \in Processes, CreateExecution(p)
  PROVE  AgreeInv'
<1> DEFINE e == Len(execs) + 1
           n == proc[p].node
           new == [node |-> n, attempt |-> attempts[n] + 1, status |-> "RUNNING"]
           call == [node |-> n, status |-> "RUNNING", tries |-> attempts[n] + 1,
                    exec |-> NoExec, next |-> "execute"]
           l == [proc[p] EXCEPT !.exec = e, !.pc = "upsert", !.call = call]
<1>0. proc[p] \in Locals /\ execs \in Seq(Executions) /\ n \in Nodes /\ attempts[n] \in Nat
  <2>1. proc[p] \in Locals
    BY MyLocals
  <2> QED BY <2>1 DEF Locals, TypeInv, TypeOK, StoreOK
<1>1. Become(p, l) /\ execs' = Append(execs, new) /\ UNCHANGED rows
  BY DEF CreateExecution, Call, ExecutionWhileRunning
<1>2. attempts[n] + 1 <= AttemptLimit(n)
  BY <1>0, LimitType DEF CreateExecution, Runnable
<1>3. l.pc = "upsert" /\ l.stale = proc[p].stale /\ l.call = call
  BY <1>0 DEF Locals
<1> HIDE DEF l
<1>4. LocalsAgree(proc[p])'
  BY <1>1, <1>2, <1>3, Becomes DEF AgreeInv, LocalsAgree
<1>5. \A i \in DOMAIN execs' : execs'[i].attempt <= AttemptLimit(execs'[i].node)
  <2>1. /\ DOMAIN execs' = DOMAIN execs \cup {e} /\ execs'[e] = new
        /\ \A i \in DOMAIN execs : execs'[i] = execs[i]
    BY <1>0, <1>1
  <2> QED BY <1>2, <2>1 DEF AgreeInv, NumberedWithinBudget
<1> QED BY <1>1, <1>4, <1>5, AgreeKept

\* The row is written with the execution that has just ended.
LEMMA AgreeFinishExecution ==
  ASSUME TypeInv, OwnInv, AgreeInv, EndedKept, NEW p \in Processes, FinishExecution(p)
  PROVE  AgreeInv'
<1> DEFINE me == proc[p]
           e == me.exec
           o == me.outcome
           s == PersistedStatus(o)
           tries == AttemptsAfter(o, execs[e].attempt)
           routed == IF RoutesAfter(o) THEN RouteTargets(me.node) ELSE <<>>
           call == [node |-> me.node, status |-> s, tries |-> tries, exec |-> e,
                    next |-> IF RoutesAfter(o) THEN "route" ELSE AfterNode(p)]
           l == [me EXCEPT !.exec = NoExec, !.outcome = "success", !.todo = routed,
                           !.pc = "upsert", !.call = call]
<1>0. proc[p] \in Locals
  BY MyLocals
<1>1. /\ e \in DOMAIN execs /\ execs'[e].status = s /\ execs'[e].node = me.node
      /\ \A i \in DOMAIN execs \ {e} : execs'[i] = execs[i]
  BY OwnFinishExecution
<1>2. DOMAIN execs' = DOMAIN execs /\ execs'[e].attempt = execs[e].attempt
      /\ execs[e].node = me.node /\ execs[e].attempt \in Nat \ {0}
  <2>1. execs' = [execs EXCEPT ![e].status = s]
    BY DEF FinishExecution
  <2>2. execs[e] \in Executions /\ execs[e].attempt \in Nat \ {0}
    BY <1>1, ExecutionType
  <2>3. execs'[e] = [execs[e] EXCEPT !.status = s]
    BY <1>1, <2>1
  <2>4. execs'[e].attempt = execs[e].attempt /\ execs'[e].node = execs[e].node
    BY <2>2, <2>3 DEF Executions
  <2> QED BY <1>1, <2>1, <2>2, <2>4
<1>3. execs[e].attempt <= AttemptLimit(me.node)
  BY <1>1, <1>2 DEF AgreeInv, NumberedWithinBudget
<1>4. tries <= AttemptLimit(me.node)
  BY <1>0, <1>2, <1>3, LimitType DEF AttemptsAfter, Locals
<1>5. Become(p, l) /\ UNCHANGED rows
  BY DEF FinishExecution, Call
<1> HIDE DEF routed, tries, s
<1>6. l.pc = "upsert" /\ l.stale = proc[p].stale /\ l.call = call
  BY <1>0 DEF Locals
<1> HIDE DEF l
<1>7. LocalsAgree(proc[p])'
  BY <1>1, <1>2, <1>4, <1>5, <1>6, Becomes DEF AgreeInv, LocalsAgree
<1>8. \A i \in DOMAIN execs' : execs'[i].attempt <= AttemptLimit(execs'[i].node)
  BY <1>1, <1>2, <1>3 DEF AgreeInv, NumberedWithinBudget
<1> QED BY <1>5, <1>7, <1>8, AgreeKept

LEMMA AgreeNext == TypeInv /\ OwnInv /\ AgreeInv /\ [Next]_vars => AgreeInv'
<1> SUFFICES ASSUME TypeInv, OwnInv, AgreeInv, [Next]_vars PROVE AgreeInv'
  OBVIOUS
<1>0. EndedKept
  BY EndedStays
<1>1. ASSUME NEW p \in Processes, IssueCommand(p) \/ ProcessStep(p) \/ Kill(p)
      PROVE  AgreeInv'
  <2>1. CASE UpsertReads(p) \/ ListStale(p)
    BY <1>0, <2>1, AgreeRowReads
  <2>2. CASE UpsertWrites(p)
    BY <1>0, <2>2, AgreeUpsertWrites
  <2>3. CASE CreateExecution(p)
    BY <1>0, <2>3, AgreeCreateExecution
  <2>4. CASE FinishExecution(p)
    BY <1>0, <2>4, AgreeFinishExecution
  <2>5. CASE \/ EngineOpened(p) \/ LeaveLoop(p) \/ DeclineNode(p) \/ AskForInput(p)
             \/ EndRouting(p) \/ Kill(p)
    BY <1>0, <2>5, AgreeMovingStep
  <2>6. CASE OpenEngine(p) \/ RecoverNode(p) \/ Unblock(p)
    BY <1>0, <2>6, AgreeCallingStep
  <2>7. CASE AnswerStep(p)
    BY <1>0, <2>7, AgreeMovingStep, AgreeCallingStep DEF AnswerStep
  <2>8. CASE \/ IssueCommand(p) \/ SelectNext(p) \/ InsertRequest(p) \/ LookUpRequest(p)
             \/ HandlerEnds(p) \/ RouteEdge(p) \/ CreateDecision(p) \/ CancelStale(p)
    BY <1>0, <2>8, AgreeReadingStep
  <2> QED BY <1>1, <2>1, <2>2, <2>3, <2>4, <2>5, <2>6, <2>7, <2>8
          DEF ProcessStep, NodeStep, OpeningStep
<1>2. CASE UNCHANGED vars
  BY <1>2 DEF vars, store, rows, AgreeInv, LocalsAgree, RowMatchesExecution,
             NumberedWithinBudget
<1> QED BY <1>1, <1>2 DEF Next

(***************************************************************************)
(* A node has one open request.                                            *)
(***************************************************************************)
LEMMA OneOpenInit == Init => OneOpenRequest
  BY DEF Init, OneOpenRequest

LEMMA OneOpenNext == TypeInv /\ OneOpenRequest /\ [Next]_vars => OneOpenRequest'
<1> SUFFICES ASSUME TypeInv, OneOpenRequest, [Next]_vars PROVE OneOpenRequest'
  OBVIOUS
<1>1. CASE UNCHANGED requests
  BY <1>1 DEF OneOpenRequest
<1>2. requests \in Seq(Requests)
  BY DEF TypeInv, TypeOK, StoreOK
<1>3. ASSUME NEW p \in Processes, InsertRequest(p), ~UNCHANGED requests
      PROVE  OneOpenRequest'
  <2> DEFINE n == proc[p].node
             new == [node |-> n, status |-> "OPEN"]
  <2>1. requests' = Append(requests, new) /\ ~OpenRequest(n)
    BY <1>3 DEF InsertRequest, RefusedByIndex
  <2>2. /\ DOMAIN requests' = DOMAIN requests \cup {Len(requests) + 1}
        /\ requests'[Len(requests) + 1] = new
        /\ \A r \in DOMAIN requests : requests'[r] = requests[r]
    BY <1>2, <2>1
  <2> QED BY <2>1, <2>2 DEF OneOpenRequest, OpenRequest
<1>4. ASSUME NEW p \in Processes, ResolveRequest(p) PROVE OneOpenRequest'
  <2> DEFINE r == proc[p].request
  <2>1. requests' = [requests EXCEPT ![r].status = "RESOLVED"]
    BY <1>4 DEF ResolveRequest
  <2>2. /\ DOMAIN requests' = DOMAIN requests
        /\ \A i \in DOMAIN requests : i # r => requests'[i] = requests[i]
        /\ r \in DOMAIN requests => requests'[r] = [requests[r] EXCEPT !.status = "RESOLVED"]
    BY <1>2, <2>1
  <2>3. r \in DOMAIN requests => requests'[r].status = "RESOLVED"
    BY <2>2, RequestType DEF Requests
  <2> QED BY <2>2, <2>3 DEF OneOpenRequest
<1>5. ASSUME NEW p \in Processes, IssueCommand(p) \/ Kill(p) PROVE UNCHANGED requests
  BY <1>5 DEF IssueCommand, Issue, Kill, store
<1>6. ASSUME NEW p \in Processes, ProcessStep(p), ~InsertRequest(p), ~ResolveRequest(p)
      PROVE  UNCHANGED requests
  BY <1>6, OnlyTwoWriteRequests
<1>7. CASE UNCHANGED vars
  BY <1>7 DEF vars, store, OneOpenRequest
<1> QED BY <1>1, <1>3, <1>4, <1>5, <1>6, <1>7 DEF Next

(***************************************************************************)
(* The invariant is inductive.                                             *)
(***************************************************************************)
LEMMA IInvInit == Init => IInv
  BY TypeInit, OwnInit, BackedInit, AgreeInit, OneOpenInit DEF IInv

LEMMA IInvNext == IInv /\ [Next]_vars => IInv'
  BY TypeNext, OwnNext, BackedNext, AgreeNext, OneOpenNext DEF IInv

LEMMA Invariant == Spec => []IInv
  BY IInvInit, IInvNext, PTL DEF Spec

(***************************************************************************)
(* However many processes interleave their statements, are killed or       *)
(* refused, every row of node_states and every local a process carries     *)
(* between two statements keeps its type.                                  *)
(***************************************************************************)
THEOREM TypesSurviveConcurrency == Spec => []TypeOK
<1>1. IInv => TypeOK
  BY DEF IInv, TypeInv
<1> QED BY <1>1, Invariant, PTL

(***************************************************************************)
(* With any number of processes: a row agrees with the execution it names, *)
(* no node has two open requests, and no execution and no row counts more  *)
(* attempts than the node may use, though two processes count them.        *)
(***************************************************************************)
THEOREM ConcurrencyIsSafe == Spec => []ConcurrencyInv
<1>1. IInv => ConcurrencyInv
  BY DEF IInv, TypeInv, AgreeInv, ConcurrencyInv
<1> QED BY <1>1, Invariant, PTL

(***************************************************************************)
(* With any number of processes and any graph: a node has a row only when  *)
(* a success along an edge or an answer activated it, is SUCCEEDED only    *)
(* when it ran with success or was answered, and a decision has its        *)
(* success, though upsert_node_state writes rows others have changed.      *)
(***************************************************************************)
THEOREM ConcurrentWritesAreBacked == Spec => []WritesBacked
<1>1. IInv => WritesBacked
  BY DEF IInv, BackedInv
<1> QED BY <1>1, Invariant, PTL

(***************************************************************************)
(* With any number of processes: an execution that has ended is never      *)
(* ended again, by its own process or by the recovery of another.          *)
(***************************************************************************)
THEOREM EndedExecutionsAreFinal == Spec => EndedIsFinal
<1>1. IInv /\ [Next]_vars =>
        [\A i \in DOMAIN execs : execs[i].status # "RUNNING" => execs'[i] = execs[i]]_vars
  BY EndedStays DEF IInv, EndedKept
<1> QED BY <1>1, Invariant, PTL DEF Spec, EndedIsFinal

=============================================================================
