-------------------------- MODULE GraphEngineProofs --------------------------
(***************************************************************************)
(* Machine-checked proofs that the safety properties of the engine hold    *)
(* for every graph, every handler behaviour and every number of commands,  *)
(* crashes and faults, and that the engine, driven in order, implements    *)
(* the plan of an assessment.  The last part proves, under the condition   *)
(* that restores it, what the documents say and the engine at large does   *)
(* not do.                                                                 *)
(***************************************************************************)
EXTENDS EngineUninterrupted, FiniteSetTheorems, TLAPS

(***************************************************************************)
(* Lemmas about the operators the actions are built from.                  *)
(***************************************************************************)

\* Every status a finished node is given is one both tables know.
LEMMA PersistedStatusType ==
  ASSUME NEW o \in OutcomeNames
  PROVE  PersistedStatus(o) \in ExecStatuses /\ PersistedStatus(o) \in NodeStatuses
  BY DEF OutcomeNames, Faults, PersistedStatus, ExecStatuses, NodeStatuses

\* Finishing an execution keeps its node and its attempt.
LEMMA FinishedType ==
  ASSUME NEW e \in Executions, NEW s \in ExecStatuses
  PROVE  /\ Finished(e, s) \in Executions
         /\ Finished(e, s).node = e.node
         /\ Finished(e, s).attempt = e.attempt
         /\ Finished(e, s).status = s
  BY DEF Executions, Finished

\* Rewriting the elements of a sequence in place keeps its length.
LEMMA RewriteInPlace ==
  ASSUME NEW S, NEW s \in Seq(S), NEW t,
         t = [i \in DOMAIN s |-> t[i]], \A i \in DOMAIN s : t[i] \in S
  PROVE  t \in Seq(S) /\ Len(t) = Len(s) /\ DOMAIN t = DOMAIN s
  OBVIOUS

\* upsert_node_state writes a well-formed row.
LEMMA UpsertType ==
  ASSUME RowsOK, NEW n \in Nodes, NEW status \in NodeStatuses,
         NEW tries \in Nat, NEW exec \in Nat, Upsert(n, status, tries, exec)
  PROVE  RowsOK'
  BY DEF RowsOK, Upsert

\* A command that ends leaves no locals behind.
LEMMA EndCommandType ==
  ASSUME NEW how \in Endings, EndCommand(how)
  PROVE  CommandOK' /\ LocalsReady'
  BY GraphAssumption
     DEF CommandOK, EndCommand, Locations, CommandNames, OutcomeNames, NoExec,
         LocalsReady, InFlight, Running, Answering

\* What an action leaves alone keeps its type.
LEMMA Frames ==
  ASSUME TypeOK
  PROVE  /\ UNCHANGED nodeRow => RowsOK'
         /\ UNCHANGED execs => (execs \in Seq(Executions))'
         /\ UNCHANGED requestRows => RequestsOK'
         /\ UNCHANGED routing => RoutingOK'
         /\ UNCHANGED budgets => BudgetsOK'
  BY DEF TypeOK, RowsOK, RequestsOK, RoutingOK, BudgetsOK,
         nodeRow, requestRows, routing, budgets

\* Moving on to a location where no local is read.
LEMMA GotoType ==
  ASSUME CommandOK, NEW l \in Locations, Goto(l), UNCHANGED <<locals, last>>
  PROVE  /\ CommandOK'
         /\ l \notin InFlight \cup Answering \cup {"decide"} => LocalsReady'
  BY DEF CommandOK, Goto, locals, LocalsReady

LEMMA ReturnType ==
  ASSUME CommandOK, ReturnFromRunNode
  PROVE  CommandOK' /\ LocalsReady'
<1>1. CASE mode = "start"
  BY <1>1 DEF CommandOK, ReturnFromRunNode, Goto, NoExec, Locations, OutcomeNames,
              LocalsReady, InFlight, Running, Answering
<1>2. CASE mode # "start"
  BY <1>2, EndCommandType DEF ReturnFromRunNode, Endings
<1> QED BY <1>1, <1>2

(***************************************************************************)
(* The types, and that a step finds the locals it reads.                   *)
(***************************************************************************)
TypeInv == TypeOK /\ LocalsReady

LEMMA TypeInit == Init => TypeInv
<1> SUFFICES ASSUME Init PROVE TypeInv
  OBVIOUS
<1>1. RowsOK /\ execs \in Seq(Executions) /\ RequestsOK /\ BudgetsOK
  BY DEF Init, NoExec, RowsOK, NodeStatuses, RequestsOK, BudgetsOK
<1>2. RoutingOK
  <2>1. decisions \subseteq Decisions /\ phase \in PhaseIndexes
    BY DEF Init, PhaseIndexes, LastPhase
  <2>2. flag \in BOOLEAN
    BY Zenon DEF Init
  <2> QED BY <2>1, <2>2 DEF RoutingOK
<1>3. CommandOK
  BY GraphAssumption
     DEF Init, IdleLocals, NoExec, CommandOK, Locations, CommandNames, OutcomeNames, Endings
<1>4. LocalsReady
  BY DEF Init, LocalsReady, InFlight, Running, Answering
<1> QED BY <1>1, <1>2, <1>3, <1>4 DEF TypeInv, TypeOK

\* Every execution is one, and the one run_node works on is there.
LEMMA ExecutionTypes ==
  ASSUME TypeInv, NEW i \in DOMAIN execs
  PROVE  /\ execs[i] \in Executions
         /\ execs[i].attempt \in Nat \ {0}
         /\ execs[i].node \in Nodes
         /\ execs[i].status \in ExecStatuses
<1>1. execs[i] \in Executions
  BY DEF TypeInv, TypeOK
<1> QED BY <1>1 DEF Executions

LEMMA CurrentExecution ==
  ASSUME TypeInv, pc \in InFlight
  PROVE  /\ curExec \in 1..Len(execs)
         /\ execs[curExec] \in Executions
         /\ execs[curExec].attempt \in Nat \ {0}
         /\ execs[curExec].node \in Nodes
         /\ execs[curExec].status \in ExecStatuses
<1>1. curExec \in 1..Len(execs)
  BY DEF TypeInv, TypeOK, LocalsReady
<1> QED BY <1>1, ExecutionTypes DEF TypeInv, TypeOK

\* The edge routing looks at next is one of the graph.
LEMMA NextRoute ==
  ASSUME TypeInv, todo # <<>>
  PROVE  Head(todo) \in Routes /\ Head(todo).target \in Nodes
<1>1. Head(todo) \in Routes
  BY DEF TypeInv, TypeOK, CommandOK
<1> QED BY <1>1 DEF Routes

LEMMA TypeEngineStep == TypeInv /\ EngineStep => TypeInv'
<1> SUFFICES ASSUME TypeInv, EngineStep PROVE TypeInv'
  OBVIOUS
<1> USE Frames DEF TypeInv, TypeOK
<1>1. ASSUME NEW n \in Nodes, RecoverStaleRunning(n) PROVE TypeInv'
  <2>1. RowsOK'
    BY <1>1, UpsertType DEF RecoverStaleRunning, RowsOK, NodeStatuses, NoExec
  <2>2. execs' \in Seq(Executions)
    <3>1. \A i \in DOMAIN execs : Finished(execs[i], "CANCELLED") \in Executions
      BY FinishedType DEF ExecStatuses
    <3> QED BY <1>1, <3>1 DEF RecoverStaleRunning
  <2>3. CommandOK' /\ LocalsReady'
    BY <1>1 DEF RecoverStaleRunning, CommandOK, LocalsReady, locals, InFlight, Running, Answering
  <2> QED BY <1>1, <2>1, <2>2, <2>3 DEF RecoverStaleRunning
<1>2. CASE EngineReady
  <2>1. CASE mode \in {"start", "run"}
    BY <1>2, <2>1, GotoType DEF EngineReady, Locations, InFlight, Running, Answering
  <2>2. CASE mode = "inspect"
    BY <1>2, <2>2, EndCommandType DEF EngineReady, Endings
  <2> QED BY <1>2, <2>1, <2>2 DEF EngineReady
<1>3. CASE SelectNext
  BY <1>3, GraphAssumption
     DEF SelectNext, Candidates, Goto, CommandOK, LocalsReady, Locations, InFlight, Running, Answering
<1>4. CASE LeaveLoop
  BY <1>4, EndCommandType DEF LeaveLoop, Endings
<1>5. CASE SkipBlocked
  BY <1>5, ReturnType DEF SkipBlocked
<1>6. CASE RefuseNode
  BY <1>6, EndCommandType DEF RefuseNode, Endings
<1>7. CASE CreateExecution
  <2>1. execs' \in Seq(Executions) /\ Len(execs') = Len(execs) + 1
    <3> DEFINE fresh == [node |-> cur, attempt |-> attempts[cur] + 1, status |-> "RUNNING"]
    <3>1. fresh \in Executions
      BY DEF CommandOK, RowsOK, Executions, ExecStatuses
    <3> HIDE DEF fresh
    <3>2. execs' = Append(execs, fresh)
      BY <1>7 DEF CreateExecution, fresh
    <3> QED BY <3>1, <3>2
  <2>2. CommandOK' /\ LocalsReady'
    BY <1>7, <2>1 DEF CreateExecution, Goto, CommandOK, LocalsReady, Locations, InFlight, Running, Answering
  <2> QED BY <1>7, <2>1, <2>2 DEF CreateExecution
<1>8. CASE MarkRunning
  <2>1. RowsOK'
    BY <1>8, CurrentExecution, UpsertType
       DEF MarkRunning, CommandOK, NodeStatuses, NoExec, InFlight
  <2>2. CommandOK' /\ LocalsReady'
    BY <1>8 DEF MarkRunning, Goto, CommandOK, LocalsReady, Locations, locals, InFlight, Running, Answering
  <2> QED BY <1>8, <2>1, <2>2 DEF MarkRunning
<1>9. CASE AskForInput
  <2>1. RequestsOK'
    BY <1>9 DEF AskForInput, RequestsOK
  <2>2. CommandOK' /\ LocalsReady'
    BY <1>9 DEF AskForInput, Goto, CommandOK, LocalsReady, Locations, locals, InFlight, Running, Answering
  <2> QED BY <1>9, <2>1, <2>2 DEF AskForInput
<1>10. CASE HandlerEnds
  <2>1. RoutingOK' /\ BudgetsOK'
    <3>1. flag' \in {flag, TRUE}
      BY <1>10 DEF HandlerEnds
    <3>2. flag' \in BOOLEAN
      BY <3>1 DEF RoutingOK
    <3> QED BY <1>10, <3>2 DEF HandlerEnds, RoutingOK, BudgetsOK
  <2>2. outcome' \in OutcomeNames
    BY <1>10, EngineAssumption DEF HandlerEnds, CommandOK
  <2>3. CommandOK' /\ LocalsReady'
    BY <1>10, <2>2
       DEF HandlerEnds, Goto, CommandOK, LocalsReady, Locations, InFlight, Running, Answering
  <2>4. RowsOK' /\ (execs \in Seq(Executions))'
    BY <1>10 DEF HandlerEnds
  <2>5. RequestsOK'
    <3>1. registered' \subseteq registered \cup BatchRegistrars
      BY <1>10 DEF HandlerEnds
    <3> QED BY <1>10, <3>1 DEF HandlerEnds, RequestsOK
  <2> QED BY <2>1, <2>3, <2>4, <2>5
<1>11. CASE FinishExecution
  <2>1. Finished(execs[curExec], PersistedStatus(outcome)) \in Executions
    BY <1>11, CurrentExecution, FinishedType, PersistedStatusType
       DEF FinishExecution, CommandOK, InFlight, Running
  <2>2. execs' \in Seq(Executions) /\ Len(execs') = Len(execs)
    BY <1>11, <2>1, CurrentExecution DEF FinishExecution, InFlight, Running
  <2>3. CommandOK' /\ LocalsReady'
    BY <1>11, <2>2
       DEF FinishExecution, Goto, CommandOK, LocalsReady, Locations, locals, InFlight, Running, Answering
  <2> QED BY <1>11, <2>2, <2>3 DEF FinishExecution
<1>12. CASE SettleNode
  <2>1. AttemptsAfter(outcome, execs[curExec].attempt) \in Nat
    BY <1>12, CurrentExecution DEF SettleNode, AttemptsAfter, InFlight, Running
  <2>2. RowsOK'
    BY <1>12, <2>1, UpsertType, PersistedStatusType DEF SettleNode, CommandOK
  <2>3. CommandOK' /\ LocalsReady'
    BY <1>12, GotoType, ReturnType DEF SettleNode, Locations, InFlight, Running, Answering
  <2> QED BY <1>12, <2>2, <2>3 DEF SettleNode
<1>13. CASE TakeSnapshot
  <2>1. Outgoing[cur] \in Seq(Edges)
    BY GraphAssumption DEF CommandOK
  <2> DEFINE passage(i) == [target |-> Outgoing[cur][i].target,
                            verdict |-> Evaluate(Outgoing[cur][i].condition)]
  <2>2. ASSUME NEW i \in 1..Len(Outgoing[cur]) PROVE passage(i) \in Routes
    <3>1. Outgoing[cur][i] \in Edges
      BY <2>1
    <3> QED BY <3>1 DEF Edges, Routes, Verdicts, Evaluate
  <2>3. todo' \in Seq(Routes)
    <3>1. todo' = [i \in 1..Len(Outgoing[cur]) |-> passage(i)]
      BY <1>13, <2>1 DEF TakeSnapshot
    <3>2. Len(Outgoing[cur]) \in Nat
      BY <2>1
    <3> HIDE DEF passage
    <3> QED BY <2>2, <3>1, <3>2
  <2>4. CommandOK' /\ LocalsReady'
    BY <1>13, <2>3
       DEF TakeSnapshot, Goto, CommandOK, LocalsReady, Locations, InFlight, Running, Answering
  <2> QED BY <1>13, <2>4 DEF TakeSnapshot
<1>14. CASE ActivateTarget
  <2>1. Head(todo).target \in Nodes
    BY <1>14, NextRoute DEF ActivateTarget
  <2>2. RowsOK'
    BY <1>14, <2>1, UpsertType DEF ActivateTarget, RowsOK, NodeStatuses, NoExec
  <2>3. CommandOK' /\ LocalsReady'
    BY <1>14 DEF ActivateTarget, Goto, CommandOK, LocalsReady, Locations, locals, InFlight, Running, Answering
  <2> QED BY <1>14, <2>2, <2>3 DEF ActivateTarget
<1>15. CASE LeaveTargetAlone
  BY <1>15 DEF LeaveTargetAlone, CommandOK, LocalsReady, InFlight, Running, Answering
<1>16. CASE PassEdgeOver
  <2>1. CommandOK' /\ LocalsReady'
    BY <1>16 DEF PassEdgeOver, Goto, CommandOK, LocalsReady, Locations, locals, InFlight, Running, Answering
  <2> QED BY <1>16, <2>1 DEF PassEdgeOver
<1>17. CASE ConditionRaises
  BY <1>17, EndCommandType DEF ConditionRaises, Endings
<1>18. CASE CreateDecision
  <2>1. todo # <<>> /\ Head(todo).target \in Nodes
    BY <1>18, NextRoute DEF CreateDecision, LocalsReady
  <2> DEFINE decision == [source |-> cur, target |-> Head(todo).target,
                          taken |-> Head(todo).verdict = "taken"]
  <2>2. RoutingOK'
    <3>1. (Head(todo).verdict = "taken") \in BOOLEAN
      BY Zenon
    <3>2. decision \in Decisions
      BY <2>1, <3>1 DEF Decisions, CommandOK
    <3>3. decisions' = decisions \cup {decision}
      BY <1>18 DEF CreateDecision
    <3> HIDE DEF decision
    <3> QED BY <1>18, <3>2, <3>3 DEF CreateDecision, RoutingOK
  <2>3. CommandOK' /\ LocalsReady'
    BY <1>18, <2>1
       DEF CreateDecision, Goto, CommandOK, LocalsReady, Locations, InFlight, Running, Answering
  <2> QED BY <1>18, <2>2, <2>3 DEF CreateDecision
<1>19. CASE EndRouting
  BY <1>19, GotoType DEF EndRouting, Locations, InFlight, Running, Answering
<1>20. CASE MaybeAdvancePhase
  <2>1. PhaseAfter(cur) \in PhaseIndexes
    <3>1. PhaseOf[cur] \in PhaseIndexes \cup {OutsidePhases}
      BY GraphAssumption DEF CommandOK
    <3> QED BY <3>1 DEF PhaseAfter, RoutingOK, PhaseIndexes, LastPhase, OutsidePhases
  <2>2. RoutingOK'
    BY <1>20, <2>1 DEF MaybeAdvancePhase, RoutingOK
  <2> QED BY <1>20, <2>2, ReturnType DEF MaybeAdvancePhase
<1>21. CASE RegisterBatch
  <2>1. RequestsOK'
    BY <1>21 DEF RegisterBatch, RequestsOK, LocalsReady, Answering
  <2>2. CommandOK' /\ LocalsReady'
    BY <1>21
       DEF RegisterBatch, Goto, CommandOK, LocalsReady, Locations, locals, InFlight, Running, Answering
  <2> QED BY <1>21, <2>1, <2>2 DEF RegisterBatch
<1>22. CASE RegisterRaises
  BY <1>22, EndCommandType DEF RegisterRaises, Endings, BudgetsOK
<1>23. CASE ReleaseWaitingNode
  <2>1. RowsOK'
    BY <1>23, UpsertType DEF ReleaseWaitingNode, RowsOK, CommandOK, NodeStatuses, NoExec, nodeRow
  <2>2. CommandOK' /\ LocalsReady'
    BY <1>23
       DEF ReleaseWaitingNode, Goto, CommandOK, LocalsReady, Locations, locals, InFlight, Running, Answering
  <2> QED BY <1>23, <2>1, <2>2 DEF ReleaseWaitingNode
<1>24. CASE ActivateResumeNode
  <2>1. RowsOK'
    BY <1>24, UpsertType, EngineAssumption
       DEF ActivateResumeNode, RowsOK, CommandOK, NodeStatuses, NoExec
  <2> QED BY <1>24, <2>1, EndCommandType DEF ActivateResumeNode, Endings
<1> QED
  BY <1>1, <1>2, <1>3, <1>4, <1>5, <1>6, <1>7, <1>8, <1>9, <1>10, <1>11, <1>12,
     <1>13, <1>14, <1>15, <1>16, <1>17, <1>18, <1>19, <1>20, <1>21, <1>22, <1>23, <1>24
     DEF EngineStep

LEMMA TypeStep == TypeInv /\ [Next]_vars => TypeInv'
<1> SUFFICES ASSUME TypeInv, [Next]_vars PROVE TypeInv'
  OBVIOUS
<1> USE Frames DEF TypeInv, TypeOK
<1>1. CASE EngineStep
  BY <1>1, TypeEngineStep
<1>2. ASSUME NEW c \in {"start", "run", "inspect"}, NEW n \in Nodes, OpenEngine(c, n)
      PROVE  TypeInv'
  <2>1. RowsOK'
    BY <1>2, UpsertType, GraphAssumption DEF OpenEngine, RowsOK, NodeStatuses, NoExec, nodeRow
  <2>2. CommandOK' /\ LocalsReady'
    BY <1>2
       DEF OpenEngine, Goto, CommandOK, LocalsReady, Locations, CommandNames,
           InFlight, Running, Answering
  <2> QED BY <1>2, <2>1, <2>2 DEF OpenEngine, Issue, BudgetsOK
<1>3. ASSUME NEW n \in Nodes, ResolveRequest(n) PROVE TypeInv'
  <2>1. RequestsOK'
    BY <1>3 DEF ResolveRequest, RequestsOK
  <2>2. CommandOK' /\ LocalsReady'
    BY <1>3
       DEF ResolveRequest, Goto, CommandOK, LocalsReady, Locations, CommandNames, RequestsOK,
           InFlight, Running, Answering
  <2> QED BY <1>3, <2>1, <2>2 DEF ResolveRequest, Issue, BudgetsOK
<1>4. ASSUME NEW n \in Nodes, Unblock(n) PROVE TypeInv'
  <2>1. RowsOK'
    BY <1>4, UpsertType DEF Unblock, AttemptsOnUnblock, RowsOK, NodeStatuses, NoExec
  <2>2. CommandOK' /\ LocalsReady'
    BY <1>4
       DEF Unblock, Issue, CommandOK, LocalsReady, Endings, locals, InFlight, Running, Answering
  <2> QED BY <1>4, <2>1, <2>2 DEF Unblock, Issue, BudgetsOK
<1>5. CASE Crash
  BY <1>5, EndCommandType DEF Crash, Endings, BudgetsOK
<1>6. CASE UNCHANGED vars
  BY <1>6 DEF vars, locals, CommandOK, LocalsReady
<1> QED BY <1>1, <1>2, <1>3, <1>4, <1>5, <1>6 DEF Next, OperatorStep

(***************************************************************************)
(* The rows of the database and the locals of a command stay well-typed.   *)
(***************************************************************************)
THEOREM TypeCorrect == Spec => []TypeOK
<1>1. Spec => []TypeInv
  BY TypeInit, TypeStep, PTL DEF Spec
<1>2. TypeInv => TypeOK
  BY DEF TypeInv
<1> QED BY <1>1, <1>2, PTL

(***************************************************************************)
(* Attempts.                                                               *)
(***************************************************************************)
AttemptsInv == ExecutionInProgress /\ AttemptsCounted /\ AttemptsHardBounded

\* Writing a row without passing attempts leaves every attempts as it was.
LEMMA UpsertKeepsAttempts ==
  ASSUME TypeInv, NEW n \in Nodes, NEW status, NEW exec,
         Upsert(n, status, attempts[n], exec)
  PROVE  UNCHANGED attempts
  BY DEF TypeInv, TypeOK, RowsOK, Upsert

\* While no execution is in progress and neither counts nor executions
\* change, there is nothing to keep.
LEMMA AttemptsFrame ==
  ASSUME AttemptsInv, UNCHANGED <<execs, attempts>>, pc' \notin InFlight
  PROVE  AttemptsInv'
  BY DEF AttemptsInv, ExecutionInProgress, AttemptsCounted, AttemptsHardBounded, Consumed

LEMMA ReturnLeaves ==
  ASSUME ReturnFromRunNode
  PROVE  pc' \in {"select", "idle"}
  BY DEF ReturnFromRunNode, EndCommand, Goto

LEMMA AttemptsStep ==
  ASSUME TypeInv, AttemptsInv, [Next]_vars
  PROVE  AttemptsInv'
<1> DEFINE Kept == UNCHANGED <<execs, attempts>> /\ pc' \notin InFlight
<1>1. ASSUME NEW n \in Nodes, RecoverStaleRunning(n) PROVE AttemptsInv'
  <2>1. UNCHANGED attempts /\ pc' \notin InFlight
    BY <1>1, UpsertKeepsAttempts DEF RecoverStaleRunning, InFlight, Running
  <2>2. DOMAIN execs' = DOMAIN execs
    BY <1>1 DEF RecoverStaleRunning
  <2>3. \A i \in DOMAIN execs :
          /\ execs'[i].node = execs[i].node
          /\ execs'[i].attempt = execs[i].attempt
          /\ Consumed(i)' => Consumed(i)
    BY <1>1 DEF RecoverStaleRunning, Finished, Consumed, ConsumedStatuses
  <2> QED
    BY <2>1, <2>2, <2>3
       DEF AttemptsInv, ExecutionInProgress, AttemptsCounted, AttemptsHardBounded
<1>2. CASE EngineReady
  <2>1. Kept
    BY <1>2 DEF EngineReady, EndCommand, Goto, nodeRow, InFlight, Running
  <2> QED BY <2>1, AttemptsFrame
<1>3. CASE SelectNext \/ LeaveLoop \/ RefuseNode
  <2>1. Kept
    BY <1>3 DEF SelectNext, LeaveLoop, RefuseNode, EndCommand, Goto, nodeRow, InFlight, Running
  <2> QED BY <2>1, AttemptsFrame
<1>4. CASE SkipBlocked \/ MaybeAdvancePhase
  <2>1. Kept
    BY <1>4, ReturnLeaves DEF SkipBlocked, MaybeAdvancePhase, nodeRow, InFlight, Running
  <2> QED BY <2>1, AttemptsFrame
<1>5. CASE CreateExecution
  <2> DEFINE fresh == [node |-> cur, attempt |-> attempts[cur] + 1, status |-> "RUNNING"]
  <2>1. /\ execs' = Append(execs, fresh)
        /\ curExec' = Len(execs) + 1 /\ UNCHANGED <<attempts, cur>> /\ pc' = "mark"
    BY <1>5 DEF CreateExecution, Goto, nodeRow
  <2>2. /\ DOMAIN execs' = DOMAIN execs \cup {curExec'}
        /\ \A i \in DOMAIN execs : execs'[i] = execs[i] /\ i # curExec'
        /\ execs'[curExec'] = fresh
    BY <2>1 DEF TypeInv, TypeOK
  <2>3. /\ fresh.node = cur /\ fresh.status = "RUNNING"
        /\ fresh.attempt = attempts[cur] + 1
    OBVIOUS
  <2>4. attempts[cur] \in Nat /\ attempts[cur] + 1 \in 1..AttemptLimit(cur)
    <3>1. AttemptLimit(cur) \in Nat
      BY GraphAssumption DEF AttemptLimit, TypeInv, TypeOK, CommandOK
    <3>2. attempts[cur] \in Nat
      BY DEF TypeInv, TypeOK, RowsOK, CommandOK
    <3> QED BY <1>5, <3>1, <3>2 DEF CreateExecution, Exhausted
  <2>5. \A i \in DOMAIN execs : execs[i].attempt \in Nat
    BY ExecutionTypes
  <2>6. \A i \in DOMAIN execs' : Consumed(i)' => i \in DOMAIN execs /\ Consumed(i)
    BY <2>2, <2>3 DEF Consumed, ConsumedStatuses
  <2> HIDE DEF fresh
  <2>7. ExecutionInProgress'
    BY <2>1, <2>2, <2>3, <2>4, <2>5, <2>6
       DEF AttemptsInv, ExecutionInProgress, AttemptsCounted
  <2>8. AttemptsCounted'
    BY <2>1, <2>2, <2>6 DEF AttemptsInv, AttemptsCounted
  <2>9. AttemptsHardBounded'
    BY <2>2, <2>3, <2>4, <2>6 DEF AttemptsInv, AttemptsHardBounded
  <2> QED BY <2>7, <2>8, <2>9 DEF AttemptsInv
<1>6. CASE MarkRunning
  <2>1. /\ UNCHANGED <<execs, cur, curExec>> /\ pc = "mark" /\ pc' = "execute"
        /\ attempts' = [attempts EXCEPT ![cur] = execs[curExec].attempt]
    BY <1>6 DEF MarkRunning, Upsert, Goto, locals
  <2>2. /\ execs[curExec].attempt = attempts[cur] + 1
        /\ attempts[cur] \in Nat /\ cur \in Nodes
        /\ attempts' \in [Nodes -> Nat] /\ attempts'[cur] = attempts[cur] + 1
        /\ \A n \in Nodes : attempts'[n] >= attempts[n]
    BY <2>1 DEF AttemptsInv, ExecutionInProgress, InFlight, TypeInv, TypeOK, RowsOK, CommandOK
  <2>3. ExecutionInProgress'
    BY <2>1, <2>2 DEF AttemptsInv, ExecutionInProgress, InFlight, Consumed
  <2>4. \A i \in DOMAIN execs : execs[i].attempt \in Nat /\ execs[i].node \in Nodes
    BY ExecutionTypes
  <2>5. AttemptsCounted'
    BY <2>1, <2>2, <2>4 DEF AttemptsInv, AttemptsCounted, Consumed, TypeInv, TypeOK, RowsOK
  <2>6. AttemptsHardBounded'
    BY <2>1 DEF AttemptsInv, AttemptsHardBounded, Consumed
  <2> QED BY <2>3, <2>5, <2>6 DEF AttemptsInv
<1>7. CASE AskForInput \/ HandlerEnds
  <2>1. /\ UNCHANGED <<execs, attempts, cur, curExec>>
        /\ pc \in {"execute", "asked"} /\ pc' \in {"asked", "finish"}
    BY <1>7 DEF AskForInput, HandlerEnds, Goto, nodeRow, locals
  <2> QED
    BY <2>1
       DEF AttemptsInv, ExecutionInProgress, AttemptsCounted, AttemptsHardBounded, Consumed,
           InFlight, Running
<1>8. CASE FinishExecution
  <2> DEFINE ended == Finished(execs[curExec], PersistedStatus(outcome))
  <2>1. /\ pc = "finish" /\ pc' = "settle" /\ UNCHANGED <<attempts, cur, curExec, outcome>>
        /\ execs' = [execs EXCEPT ![curExec] = ended]
    BY <1>8 DEF FinishExecution, Goto, nodeRow, locals
  <2>2. /\ curExec \in DOMAIN execs /\ execs[curExec].node = cur
        /\ execs[curExec].attempt = attempts[cur]
        /\ \A i \in DOMAIN execs \ {curExec} :
             Consumed(i) /\ execs[i].node = cur => execs[i].attempt < execs[curExec].attempt
    BY <2>1
       DEF AttemptsInv, ExecutionInProgress, TypeInv, TypeOK, LocalsReady, InFlight, Running
  <2>3. /\ ended.node = cur /\ ended.attempt = execs[curExec].attempt
        /\ ended.status = PersistedStatus(outcome)
    BY <2>2 DEF Finished
  <2> HIDE DEF ended
  <2>4. /\ DOMAIN execs' = DOMAIN execs /\ execs'[curExec] = ended
        /\ \A i \in DOMAIN execs \ {curExec} : execs'[i] = execs[i]
    BY <2>1, <2>2 DEF TypeInv, TypeOK
  <2>5. \A i \in DOMAIN execs : execs'[i].node = execs[i].node /\ execs'[i].attempt = execs[i].attempt
    BY <2>2, <2>3, <2>4
  <2>6. \A i \in DOMAIN execs \ {curExec} : Consumed(i)' => Consumed(i)
    BY <2>4 DEF Consumed
  <2>7. \A i \in DOMAIN execs : execs[i].attempt \in Nat
    BY ExecutionTypes
  <2>8. ExecutionInProgress'
    BY <2>1, <2>2, <2>3, <2>4, <2>5, <2>6 DEF ExecutionInProgress
  <2>9. AttemptsCounted'
    BY <2>1, <2>2, <2>4, <2>5, <2>6, <2>7 DEF AttemptsInv, AttemptsCounted
  <2>10. AttemptsHardBounded'
    BY <2>2, <2>4, <2>5, <2>6, <2>7 DEF AttemptsInv, AttemptsHardBounded
  <2> QED BY <2>8, <2>9, <2>10 DEF AttemptsInv
<1>9. CASE SettleNode
  <2>1. /\ pc = "settle" /\ pc' \notin InFlight /\ UNCHANGED execs
        /\ attempts' = [attempts EXCEPT ![cur] = AttemptsAfter(outcome, execs[curExec].attempt)]
    BY <1>9, ReturnLeaves DEF SettleNode, Upsert, Goto, InFlight, Running
  <2>2. /\ execs[curExec].attempt = attempts[cur] /\ execs[curExec].node = cur
        /\ execs[curExec].status = PersistedStatus(outcome)
        /\ attempts[cur] \in Nat /\ cur \in Nodes
        /\ \A i \in DOMAIN execs \ {curExec} :
             Consumed(i) /\ execs[i].node = cur => execs[i].attempt < attempts[cur]
    BY <2>1
       DEF AttemptsInv, ExecutionInProgress, TypeInv, TypeOK, RowsOK, CommandOK, InFlight, Running
  <2>3. \A i \in DOMAIN execs : execs[i].attempt \in Nat /\ execs[i].node \in Nodes
    BY ExecutionTypes
  <2>4. CASE outcome = "quota"
    <3>1. ~Consumed(curExec)
      BY <2>2, <2>4 DEF Consumed, ConsumedStatuses, PersistedStatus
    <3>2. attempts' = [attempts EXCEPT ![cur] = attempts[cur] - 1]
      BY <2>1, <2>2, <2>4 DEF AttemptsAfter
    <3>3. AttemptsCounted'
      <4> SUFFICES ASSUME NEW i \in DOMAIN execs, Consumed(i)
                   PROVE  execs[i].attempt <= attempts'[execs[i].node]
        BY <2>1 DEF AttemptsCounted, Consumed
      <4>1. CASE execs[i].node = cur
        <5>1. i # curExec
          BY <3>1
        <5>2. execs[i].attempt < attempts[cur] /\ execs[i].attempt \in Nat
          BY <2>2, <2>3, <4>1, <5>1
        <5>3. attempts'[cur] = attempts[cur] - 1
          BY <2>2, <3>2 DEF TypeInv, TypeOK, RowsOK
        <5> QED BY <2>2, <4>1, <5>2, <5>3
      <4>2. CASE execs[i].node # cur
        BY <2>3, <3>2, <4>2 DEF AttemptsInv, AttemptsCounted, TypeInv, TypeOK, RowsOK
      <4> QED BY <4>1, <4>2
    <3> QED
      BY <2>1, <3>3 DEF AttemptsInv, ExecutionInProgress, AttemptsHardBounded, Consumed
  <2>5. CASE outcome # "quota"
    <3>1. UNCHANGED attempts
      BY <2>1, <2>2, <2>5 DEF AttemptsAfter, TypeInv, TypeOK, RowsOK
    <3> QED BY <2>1, <3>1, AttemptsFrame
  <2> QED BY <2>4, <2>5
<1>10. CASE TakeSnapshot \/ LeaveTargetAlone \/ PassEdgeOver \/ ConditionRaises
            \/ CreateDecision \/ EndRouting
  <2>1. Kept
    BY <1>10
       DEF TakeSnapshot, LeaveTargetAlone, PassEdgeOver, ConditionRaises, CreateDecision,
           EndRouting, EndCommand, Goto, nodeRow, InFlight, Running
  <2> QED BY <2>1, AttemptsFrame
<1>11. CASE ActivateTarget
  <2>1. Head(todo).target \in Nodes
    BY <1>11, NextRoute DEF ActivateTarget
  <2>2. Kept
    BY <1>11, <2>1, UpsertKeepsAttempts DEF ActivateTarget, Goto, InFlight, Running
  <2> QED BY <2>2, AttemptsFrame
<1>12. CASE RegisterBatch \/ RegisterRaises
  <2>1. Kept
    BY <1>12 DEF RegisterBatch, RegisterRaises, EndCommand, Goto, nodeRow, InFlight, Running
  <2> QED BY <2>1, AttemptsFrame
<1>13. CASE ReleaseWaitingNode \/ ActivateResumeNode
  <2>1. cur \in Nodes /\ ResumeNode[cur] \in Nodes
    BY EngineAssumption DEF TypeInv, TypeOK, CommandOK
  <2>2. Kept
    BY <1>13, <2>1, UpsertKeepsAttempts
       DEF ReleaseWaitingNode, ActivateResumeNode, EndCommand, Goto, nodeRow, InFlight, Running
  <2> QED BY <2>2, AttemptsFrame
<1>14. ASSUME NEW c \in {"start", "run", "inspect"}, NEW n \in Nodes, OpenEngine(c, n)
       PROVE  AttemptsInv'
  <2>1. Kept
    BY <1>14, UpsertKeepsAttempts, GraphAssumption
       DEF OpenEngine, Goto, nodeRow, InFlight, Running
  <2> QED BY <2>1, AttemptsFrame
<1>15. ASSUME NEW n \in Nodes, ResolveRequest(n) PROVE AttemptsInv'
  <2>1. Kept
    BY <1>15 DEF ResolveRequest, Goto, nodeRow, InFlight, Running
  <2> QED BY <2>1, AttemptsFrame
<1>16. ASSUME NEW n \in Nodes, Unblock(n) PROVE AttemptsInv'
  <2>1. Kept
    BY <1>16, UpsertKeepsAttempts DEF Unblock, AttemptsOnUnblock, Issue, InFlight, Running
  <2> QED BY <2>1, AttemptsFrame
<1>17. CASE Crash
  <2>1. Kept
    BY <1>17 DEF Crash, EndCommand, nodeRow, InFlight, Running
  <2> QED BY <2>1, AttemptsFrame
<1>18. CASE UNCHANGED vars
  BY <1>18
     DEF vars, nodeRow, locals, AttemptsInv, ExecutionInProgress, AttemptsCounted,
         AttemptsHardBounded, Consumed
<1> QED
  BY <1>1, <1>2, <1>3, <1>4, <1>5, <1>6, <1>7, <1>8, <1>9, <1>10, <1>11, <1>12,
     <1>13, <1>14, <1>15, <1>16, <1>17, <1>18 DEF Next, EngineStep, OperatorStep

LEMMA AttemptsInit == Init => AttemptsInv
  BY DEF Init, AttemptsInv, ExecutionInProgress, AttemptsCounted, AttemptsHardBounded,
         InFlight, Running

(***************************************************************************)
(* However often the process dies, is resumed, or the node is released, no *)
(* node uses up more attempts than its limit.                              *)
(***************************************************************************)
THEOREM AttemptsAreBounded == Spec => []AttemptsHardBounded
<1>1. Spec => [](TypeInv /\ AttemptsInv)
  BY TypeInit, TypeStep, AttemptsInit, AttemptsStep, PTL DEF Spec
<1>2. AttemptsInv => AttemptsHardBounded
  BY DEF AttemptsInv
<1> QED BY <1>1, <1>2, PTL

(***************************************************************************)
(* Activation, success and decisions.                                      *)
(***************************************************************************)
Backed == ActivationBacked /\ SuccessBacked /\ DecisionsBacked
JustifiedInv == CommandJustified /\ Backed

\* An upsert writes one status.
LEMMA UpsertStatus ==
  ASSUME TypeInv, NEW n \in Nodes, NEW status, NEW tries, NEW exec,
         Upsert(n, status, tries, exec)
  PROVE  \A m \in Nodes : nodeStatus'[m] = IF m = n THEN status ELSE nodeStatus[m]
  BY DEF TypeInv, TypeOK, RowsOK, Upsert

\* The log of executions forgets no success.
LEMMA SuccessPersists ==
  ASSUME TypeInv, AttemptsInv, [Next]_vars, NEW n \in Nodes, Succeeded(n)
  PROVE  Succeeded(n)'
<1> PICK i \in DOMAIN execs : execs[i].node = n /\ execs[i].status = "SUCCEEDED"
  BY DEF Succeeded
<1> SUFFICES i \in DOMAIN execs' /\ execs'[i] = execs[i]
  BY DEF Succeeded
<1>1. ASSUME NEW m \in Nodes, RecoverStaleRunning(m)
      PROVE  i \in DOMAIN execs' /\ execs'[i] = execs[i]
  BY <1>1 DEF RecoverStaleRunning
<1>2. CASE CreateExecution
  BY <1>2 DEF CreateExecution, TypeInv, TypeOK
<1>3. CASE FinishExecution
  <2>1. execs[curExec].status = "RUNNING"
    BY <1>3 DEF FinishExecution, AttemptsInv, ExecutionInProgress, InFlight, Running
  <2> QED BY <1>3, <2>1 DEF FinishExecution, TypeInv, TypeOK
<1>4. CASE UNCHANGED execs
  BY <1>4
<1> QED
  BY <1>1, <1>2, <1>3, <1>4
     DEF Next, EngineStep, OperatorStep, vars, EngineReady, SelectNext, LeaveLoop, SkipBlocked,
         RefuseNode, MarkRunning, AskForInput, HandlerEnds, SettleNode, TakeSnapshot,
         ActivateTarget, LeaveTargetAlone, PassEdgeOver, ConditionRaises, CreateDecision,
         EndRouting, MaybeAdvancePhase, RegisterBatch, RegisterRaises, ReleaseWaitingNode,
         ActivateResumeNode, OpenEngine, ResolveRequest, Unblock, Crash

\* What was backed stays backed by a step that writes no status but to a
\* node that was activated before, and writes no success and no decision.
LEMMA BackedFrame ==
  ASSUME TypeInv, AttemptsInv, Backed, [Next]_vars,
         \A n \in Nodes : nodeStatus'[n] # nodeStatus[n] =>
           /\ n = Entry \/ nodeStatus[n] # "PENDING"
           /\ nodeStatus'[n] \notin {"SUCCEEDED", "PENDING"},
         resolvedRequests \subseteq resolvedRequests',
         UNCHANGED decisions
  PROVE  Backed'
<1>1. \A n \in Nodes : Succeeded(n) => Succeeded(n)'
  BY SuccessPersists
<1>2. ActivationBacked'
  BY <1>1 DEF Backed, ActivationBacked
<1>3. SuccessBacked'
  BY <1>1 DEF Backed, SuccessBacked
<1>4. DecisionsBacked'
  <2>1. \A d \in decisions : d.source \in Nodes /\ d.target \in Nodes
    BY DEF TypeInv, TypeOK, RoutingOK, Decisions
  <2> QED BY <1>1, <2>1 DEF Backed, DecisionsBacked
<1> QED BY <1>2, <1>3, <1>4 DEF Backed

LEMMA JustifiedStep ==
  ASSUME TypeInv, AttemptsInv, JustifiedInv, [Next]_vars
  PROVE  JustifiedInv'
<1> USE DEF JustifiedInv
<1> DEFINE Frame ==
      /\ \A n \in Nodes : nodeStatus'[n] # nodeStatus[n] =>
           /\ n = Entry \/ nodeStatus[n] # "PENDING"
           /\ nodeStatus'[n] \notin {"SUCCEEDED", "PENDING"}
      /\ resolvedRequests \subseteq resolvedRequests'
      /\ UNCHANGED decisions
<1> DEFINE Quiet == pc' \notin InFlight \cup Routing \cup Answering
<1>a. Frame => Backed'
  BY BackedFrame
<1>b. Quiet => CommandJustified'
  BY DEF CommandJustified, Routing
<1>c. cur \in Nodes
  BY DEF TypeInv, TypeOK, CommandOK
<1>1. ASSUME NEW n \in Nodes, RecoverStaleRunning(n) PROVE JustifiedInv'
  <2>1. Frame
    BY <1>1, UpsertStatus DEF RecoverStaleRunning, StaleRows, requestRows, routing
  <2>2. Quiet
    BY <1>1 DEF RecoverStaleRunning, InFlight, Running, Routing, Answering
  <2> QED BY <2>1, <2>2, <1>a, <1>b
<1>2. CASE EngineReady \/ SelectNext \/ LeaveLoop \/ RefuseNode
  <2>1. Frame /\ Quiet
    BY <1>2
       DEF EngineReady, SelectNext, LeaveLoop, RefuseNode, EndCommand, Goto, nodeRow,
           requestRows, routing, InFlight, Running, Routing, Answering
  <2> QED BY <2>1, <1>a, <1>b
<1>3. CASE SkipBlocked \/ MaybeAdvancePhase
  <2>1. Frame /\ Quiet
    BY <1>3, ReturnLeaves
       DEF SkipBlocked, MaybeAdvancePhase, nodeRow, requestRows, routing,
           InFlight, Running, Routing, Answering
  <2> QED BY <2>1, <1>a, <1>b
<1>4. CASE CreateExecution
  <2>1. Frame /\ UNCHANGED <<nodeStatus, cur>> /\ pc' = "mark"
    BY <1>4 DEF CreateExecution, Goto, nodeRow, requestRows, routing
  <2>2. cur = Entry \/ nodeStatus[cur] # "PENDING"
    BY <1>4 DEF CreateExecution, NotActivated
  <2>3. CommandJustified'
    BY <2>1, <2>2 DEF CommandJustified, Routing, Answering
  <2> QED BY <2>1, <2>3, <1>a
<1>5. CASE MarkRunning
  <2>1. cur = Entry \/ nodeStatus[cur] # "PENDING"
    BY <1>5 DEF MarkRunning, CommandJustified, InFlight
  <2>2. \A n \in Nodes : nodeStatus'[n] = IF n = cur THEN "RUNNING" ELSE nodeStatus[n]
    BY <1>5, <1>c, UpsertStatus DEF MarkRunning
  <2>3. Frame
    BY <1>5, <2>1, <2>2 DEF MarkRunning, requestRows, routing
  <2>4. CommandJustified'
    BY <1>5, <1>c, <2>2 DEF MarkRunning, Goto, locals, CommandJustified, Routing, Answering
  <2> QED BY <2>3, <2>4, <1>a
<1>6. CASE AskForInput \/ HandlerEnds \/ FinishExecution
  <2>1. Frame /\ UNCHANGED <<nodeStatus, cur>>
    BY <1>6 DEF AskForInput, HandlerEnds, FinishExecution, nodeRow, requestRows, routing, locals
  <2>2. pc \in InFlight /\ pc' \in {"asked", "finish", "settle"}
    BY <1>6 DEF AskForInput, HandlerEnds, FinishExecution, Goto, InFlight, Running
  <2>3. CommandJustified'
    BY <2>1, <2>2 DEF CommandJustified, Routing, Answering
  <2> QED BY <2>1, <2>3, <1>a
<1>7. CASE SettleNode
  <2>1. /\ pc = "settle" /\ UNCHANGED <<execs, requestRows, routing>>
        /\ \A n \in Nodes :
             nodeStatus'[n] = IF n = cur THEN PersistedStatus(outcome) ELSE nodeStatus[n]
    BY <1>7, <1>c, UpsertStatus DEF SettleNode
  <2>2. /\ cur = Entry \/ nodeStatus[cur] # "PENDING"
        /\ curExec \in DOMAIN execs /\ execs[curExec].node = cur
        /\ execs[curExec].status = PersistedStatus(outcome)
    BY <2>1, CurrentExecution
       DEF CommandJustified, AttemptsInv, ExecutionInProgress, InFlight, Running, TypeInv, TypeOK
  <2>3. ASSUME PersistedStatus(outcome) = "SUCCEEDED", NEW n \in Nodes, n = cur
        PROVE  Succeeded(n)'
    BY <2>3, <2>1, <2>2 DEF Succeeded
  <2>4. PersistedStatus(outcome) # "PENDING"
    BY DEF PersistedStatus
  <2>5. \A n \in Nodes : Succeeded(n) => Succeeded(n)'
    BY SuccessPersists
  <2>6. Backed'
    <3>1. ActivationBacked'
      BY <2>1, <2>2, <2>4, <2>5 DEF Backed, ActivationBacked, requestRows
    <3>2. SuccessBacked'
      BY <2>1, <2>3, <2>5 DEF Backed, SuccessBacked, requestRows
    <3>3. DecisionsBacked'
      <4>1. \A d \in decisions : d.source \in Nodes /\ d.target \in Nodes
        BY DEF TypeInv, TypeOK, RoutingOK, Decisions
      <4> QED BY <2>1, <2>4, <2>5, <4>1 DEF Backed, DecisionsBacked, routing
    <3> QED BY <3>1, <3>2, <3>3 DEF Backed
  <2>7. CASE RoutesAfter(outcome)
    <3>1. pc' = "snapshot" /\ UNCHANGED cur
      BY <1>7, <2>7 DEF SettleNode, Goto, locals
    <3>2. Succeeded(cur)'
      BY <1>c, <2>3, <2>7, <3>1 DEF RoutesAfter, PersistedStatus
    <3>3. CommandJustified'
      BY <3>1, <3>2 DEF CommandJustified, Routing, Answering, InFlight, Running, Succeeded
    <3> QED BY <2>6, <3>3
  <2>8. CASE ~RoutesAfter(outcome)
    <3>1. Quiet
      BY <1>7, <2>8, ReturnLeaves DEF SettleNode, InFlight, Running, Routing, Answering
    <3> QED BY <2>6, <3>1, <1>b
  <2> QED BY <2>7, <2>8
<1>8. CASE TakeSnapshot
  <2>1. Frame /\ UNCHANGED <<nodeStatus, execs, cur>> /\ pc = "snapshot" /\ pc' = "route"
    BY <1>8 DEF TakeSnapshot, Goto, nodeRow, requestRows, routing
  <2>2. \A i \in DOMAIN todo' : todo'[i].target \in Targets(cur)
    BY <1>8 DEF TakeSnapshot, Targets
  <2>3. CommandJustified'
    BY <2>1, <2>2 DEF CommandJustified, Routing, Answering, InFlight, Running, Succeeded
  <2> QED BY <2>1, <2>3, <1>a
<1>9. CASE ActivateTarget
  <2> DEFINE t == Head(todo).target
  <2>1. /\ pc = "route" /\ pc' = "decide" /\ todo # <<>>
        /\ UNCHANGED <<execs, requestRows, routing, cur, todo>>
        /\ Upsert(t, "READY", attempts[t], NoExec)
    BY <1>9 DEF ActivateTarget, Goto, locals
  <2>2. t \in Nodes
    BY <2>1, NextRoute
  <2>3. \A n \in Nodes : nodeStatus'[n] = IF n = t THEN "READY" ELSE nodeStatus[n]
    BY <2>1, <2>2, UpsertStatus
  <2>4. Succeeded(cur) /\ t \in Targets(cur)
    BY <2>1 DEF CommandJustified, Routing, TypeInv, TypeOK, CommandOK
  <2>5. \A n \in Nodes : Succeeded(n) => Succeeded(n)'
    BY SuccessPersists
  <2>6. ActivationBacked'
    BY <1>c, <2>1, <2>3, <2>4, <2>5 DEF Backed, ActivationBacked, requestRows
  <2>7. SuccessBacked'
    BY <2>1, <2>3, <2>5 DEF Backed, SuccessBacked, requestRows
  <2>8. DecisionsBacked'
    <3>1. \A d \in decisions : d.source \in Nodes /\ d.target \in Nodes
      BY DEF TypeInv, TypeOK, RoutingOK, Decisions
    <3> QED BY <2>1, <2>3, <2>5, <3>1 DEF Backed, DecisionsBacked, routing
  <2>9. CommandJustified'
    BY <1>c, <2>1, <2>2, <2>3, <2>5
       DEF CommandJustified, Routing, Answering, InFlight, Running
  <2> QED BY <2>6, <2>7, <2>8, <2>9 DEF Backed
<1>10. CASE PassEdgeOver \/ LeaveTargetAlone
  <2>1. Frame /\ UNCHANGED <<nodeStatus, execs, cur>>
    BY <1>10 DEF PassEdgeOver, LeaveTargetAlone, nodeRow, requestRows, routing, locals
  <2>2. /\ pc = "route" /\ todo # <<>>
        /\ \/ pc' = "decide" /\ todo' = todo /\ Head(todo).verdict # "taken"
           \/ pc' = "route" /\ todo' = Tail(todo)
    BY <1>10 DEF PassEdgeOver, LeaveTargetAlone, Goto, locals
  <2>3. todo \in Seq(Routes)
    BY DEF TypeInv, TypeOK, CommandOK
  <2>4. Succeeded(cur) /\ \A i \in DOMAIN todo : todo[i].target \in Targets(cur)
    BY <2>2 DEF CommandJustified, Routing
  <2>5. \A i \in DOMAIN todo' : todo'[i].target \in Targets(cur)
    BY <2>2, <2>3, <2>4
  <2>6. CommandJustified'
    BY <2>1, <2>2, <2>4, <2>5
       DEF CommandJustified, Routing, Answering, InFlight, Running, Succeeded
  <2> QED BY <2>1, <2>6, <1>a
<1>11. CASE CreateDecision
  <2> DEFINE d0 == [source |-> cur, target |-> Head(todo).target,
                    taken |-> Head(todo).verdict = "taken"]
  <2>1. /\ pc = "decide" /\ pc' = "route" /\ todo' = Tail(todo)
        /\ decisions' = decisions \cup {d0}
        /\ UNCHANGED <<nodeStatus, execs, resolvedRequests, cur>>
    BY <1>11 DEF CreateDecision, Goto, nodeRow, requestRows
  <2>2. /\ todo # <<>> /\ Succeeded(cur)
        /\ Head(todo).verdict = "taken" => nodeStatus[Head(todo).target] # "PENDING"
        /\ \A i \in DOMAIN todo : todo[i].target \in Targets(cur)
    BY <2>1 DEF CommandJustified, Routing, TypeInv, LocalsReady
  <2>3. ActivationBacked' /\ SuccessBacked'
    BY <2>1 DEF Backed, ActivationBacked, SuccessBacked, Succeeded
  <2>4. DecisionsBacked'
    <3>1. d0.source = cur /\ d0.target = Head(todo).target
          /\ (d0.taken => Head(todo).verdict = "taken")
      OBVIOUS
    <3> HIDE DEF d0
    <3> QED BY <2>1, <2>2, <3>1 DEF Backed, DecisionsBacked, Succeeded
  <2>5. \A i \in DOMAIN todo' : todo'[i].target \in Targets(cur)
    BY <2>1, <2>2 DEF TypeInv, TypeOK, CommandOK
  <2>6. CommandJustified'
    BY <2>1, <2>2, <2>5
       DEF CommandJustified, Routing, Answering, InFlight, Running, Succeeded
  <2> QED BY <2>3, <2>4, <2>6 DEF Backed
<1>12. CASE ConditionRaises \/ EndRouting
  <2>1. Frame /\ Quiet
    BY <1>12
       DEF ConditionRaises, EndRouting, EndCommand, Goto, nodeRow, requestRows, routing,
           InFlight, Running, Routing, Answering
  <2> QED BY <2>1, <1>a, <1>b
<1>13. CASE RegisterBatch \/ RegisterRaises
  <2>1. Frame
    BY <1>13 DEF RegisterBatch, RegisterRaises, nodeRow, requestRows, routing
  <2>2. CASE RegisterBatch
    BY <2>1, <2>2, <1>a
       DEF RegisterBatch, Goto, locals, CommandJustified, Routing, Answering, InFlight, Running
  <2>3. CASE RegisterRaises
    BY <2>1, <2>3, <1>a, <1>b
       DEF RegisterRaises, EndCommand, InFlight, Running, Routing, Answering
  <2> QED BY <1>13, <2>2, <2>3
<1>14. CASE ReleaseWaitingNode
  <2>1. /\ cur \in resolvedRequests /\ pc' = "resume"
        /\ UNCHANGED <<execs, requestRows, routing, cur>>
    BY <1>14 DEF ReleaseWaitingNode, Goto, locals, CommandJustified, Answering
  <2>2. CommandJustified'
    BY <2>1 DEF CommandJustified, Routing, Answering, InFlight, Running, requestRows
  <2>3. CASE nodeStatus[cur] = "PENDING"
    <3>1. Frame
      BY <1>14, <2>1, <2>3 DEF ReleaseWaitingNode, nodeRow, requestRows, routing
    <3> QED BY <3>1, <2>2, <1>a
  <2>4. CASE nodeStatus[cur] # "PENDING"
    <3>1. \A n \in Nodes : nodeStatus'[n] = IF n = cur THEN "SUCCEEDED" ELSE nodeStatus[n]
      BY <1>14, <1>c, <2>4, UpsertStatus DEF ReleaseWaitingNode
    <3>2. ActivationBacked' /\ SuccessBacked'
      BY <2>1, <2>4, <3>1 DEF Backed, ActivationBacked, SuccessBacked, Succeeded, requestRows
    <3>3. DecisionsBacked'
      <4>1. \A d \in decisions : d.source \in Nodes /\ d.target \in Nodes
        BY DEF TypeInv, TypeOK, RoutingOK, Decisions
      <4> QED BY <2>1, <3>1, <4>1 DEF Backed, DecisionsBacked, Succeeded, routing
    <3> QED BY <2>2, <3>2, <3>3 DEF Backed
  <2> QED BY <2>3, <2>4
<1>15. CASE ActivateResumeNode
  <2>1. /\ cur \in resolvedRequests /\ pc' = "idle" /\ ResumeNode[cur] \in Nodes
        /\ UNCHANGED <<execs, requestRows, routing>>
    BY <1>15, <1>c, EngineAssumption
       DEF ActivateResumeNode, EndCommand, CommandJustified, Answering
  <2>2. \A n \in Nodes : nodeStatus'[n] = IF n = ResumeNode[cur] THEN "READY" ELSE nodeStatus[n]
    BY <1>15, <2>1, UpsertStatus DEF ActivateResumeNode
  <2>3. ActivationBacked' /\ SuccessBacked'
    BY <1>c, <2>1, <2>2 DEF Backed, ActivationBacked, SuccessBacked, Succeeded, requestRows
  <2>4. DecisionsBacked'
    <3>1. \A d \in decisions : d.source \in Nodes /\ d.target \in Nodes
      BY DEF TypeInv, TypeOK, RoutingOK, Decisions
    <3> QED BY <2>1, <2>2, <3>1 DEF Backed, DecisionsBacked, Succeeded, routing
  <2>5. Quiet
    BY <2>1 DEF InFlight, Running, Routing, Answering
  <2> QED BY <2>3, <2>4, <2>5, <1>b DEF Backed
<1>16. ASSUME NEW c \in {"start", "run", "inspect"}, NEW n \in Nodes, OpenEngine(c, n)
       PROVE  JustifiedInv'
  <2>1. Frame
    BY <1>16, UpsertStatus, GraphAssumption DEF OpenEngine, nodeRow, requestRows, routing
  <2>2. Quiet
    BY <1>16 DEF OpenEngine, Goto, InFlight, Running, Routing, Answering
  <2> QED BY <2>1, <2>2, <1>a, <1>b
<1>17. ASSUME NEW n \in Nodes, ResolveRequest(n) PROVE JustifiedInv'
  <2>1. Frame
    BY <1>17 DEF ResolveRequest, nodeRow, routing
  <2>2. CommandJustified'
    BY <1>17
       DEF ResolveRequest, Goto, CommandJustified, Routing, Answering, InFlight, Running
  <2> QED BY <2>1, <2>2, <1>a
<1>18. ASSUME NEW n \in Nodes, Unblock(n) PROVE JustifiedInv'
  <2>1. Frame
    BY <1>18, UpsertStatus DEF Unblock, requestRows, routing
  <2>2. Quiet
    BY <1>18 DEF Unblock, Issue, InFlight, Running, Routing, Answering
  <2> QED BY <2>1, <2>2, <1>a, <1>b
<1>19. CASE Crash
  <2>1. Frame /\ Quiet
    BY <1>19
       DEF Crash, EndCommand, nodeRow, requestRows, routing, InFlight, Running, Routing, Answering
  <2> QED BY <2>1, <1>a, <1>b
<1>20. CASE UNCHANGED vars
  <2>1. Frame
    BY <1>20 DEF vars, nodeRow, requestRows, routing
  <2>2. CommandJustified'
    BY <1>20
       DEF vars, nodeRow, requestRows, routing, locals, CommandJustified, Routing, Answering,
           InFlight, Running, Succeeded
  <2> QED BY <2>1, <2>2, <1>a
<1> QED
  BY <1>1, <1>2, <1>3, <1>4, <1>5, <1>6, <1>7, <1>8, <1>9, <1>10, <1>11, <1>12, <1>13,
     <1>14, <1>15, <1>16, <1>17, <1>18, <1>19, <1>20 DEF Next, EngineStep, OperatorStep

LEMMA JustifiedInit == Init => JustifiedInv
  BY DEF Init, JustifiedInv, Backed, ActivationBacked, SuccessBacked, DecisionsBacked,
         CommandJustified, InFlight, Running, Routing, Answering

LEMMA AlwaysJustified == Spec => [](TypeInv /\ AttemptsInv /\ JustifiedInv)
  BY TypeInit, TypeStep, AttemptsInit, AttemptsStep, JustifiedInit, JustifiedStep, PTL DEF Spec

(***************************************************************************)
(* No node is ever activated but by an edge from a node that succeeded or  *)
(* by an answered request, whatever the operator runs or releases.         *)
(***************************************************************************)
THEOREM ActivationIsBacked == Spec => []ActivationBacked
<1>1. JustifiedInv => ActivationBacked
  BY DEF JustifiedInv, Backed
<1> QED BY <1>1, AlwaysJustified, PTL

(***************************************************************************)
(* No crash, hold, failure or release makes a node SUCCEEDED.              *)
(***************************************************************************)
THEOREM SuccessIsBacked == Spec => []SuccessBacked
<1>1. JustifiedInv => SuccessBacked
  BY DEF JustifiedInv, Backed
<1> QED BY <1>1, AlwaysJustified, PTL

(***************************************************************************)
(* The decision log never contradicts the rows it was written for.         *)
(***************************************************************************)
THEOREM DecisionsAreBacked == Spec => []DecisionsBacked
<1>1. JustifiedInv => DecisionsBacked
  BY DEF JustifiedInv, Backed
<1> QED BY <1>1, AlwaysJustified, PTL

(***************************************************************************)
(* At most one node runs.                                                  *)
(***************************************************************************)
LEMMA RunningStep ==
  ASSUME TypeInv, NothingElseRuns, [Next]_vars
  PROVE  NothingElseRuns'
<1> DEFINE Calm == pc' \notin Running \cup Routing \cup {"select", "begin", "mark", "advance"}
           NoneNew == \A n \in Nodes : nodeStatus'[n] = "RUNNING" => nodeStatus[n] = "RUNNING"
           None == \A n \in Nodes : nodeStatus[n] # "RUNNING"
<1>a. Calm /\ NoneNew => NothingElseRuns'
  BY DEF NothingElseRuns
<1>b. None /\ NoneNew /\ pc' \notin Running => NothingElseRuns'
  BY DEF NothingElseRuns
<1>c. cur \in Nodes
  BY DEF TypeInv, TypeOK, CommandOK
<1>1. ASSUME NEW n \in Nodes, RecoverStaleRunning(n) PROVE NothingElseRuns'
  BY <1>1, <1>a, UpsertStatus DEF RecoverStaleRunning, Running, Routing
<1>2. CASE EngineReady
  <2>1. None /\ UNCHANGED nodeStatus /\ pc' \notin Running
    BY <1>2 DEF EngineReady, StaleRows, EndCommand, Goto, nodeRow, Running
  <2> QED BY <2>1, <1>b
<1>3. CASE LeaveLoop \/ RefuseNode \/ ConditionRaises
  BY <1>3, <1>a DEF LeaveLoop, RefuseNode, ConditionRaises, EndCommand, nodeRow, Running, Routing
<1>4. CASE SkipBlocked \/ MaybeAdvancePhase
  <2>1. None /\ UNCHANGED nodeStatus /\ pc' \notin Running
    BY <1>4, ReturnLeaves DEF SkipBlocked, MaybeAdvancePhase, NothingElseRuns, nodeRow, Running
  <2> QED BY <2>1, <1>b
<1>5. CASE SelectNext \/ CreateExecution \/ TakeSnapshot \/ LeaveTargetAlone
           \/ PassEdgeOver \/ CreateDecision \/ EndRouting
  <2>1. None /\ UNCHANGED nodeStatus /\ pc' \notin Running
    BY <1>5
       DEF SelectNext, CreateExecution, TakeSnapshot, LeaveTargetAlone, PassEdgeOver,
           CreateDecision, EndRouting, Goto, NothingElseRuns, nodeRow, Running, Routing
  <2> QED BY <2>1, <1>b
<1>6. CASE MarkRunning
  <2>1. None /\ UNCHANGED cur /\ pc' = "execute"
    BY <1>6 DEF MarkRunning, Goto, NothingElseRuns, locals
  <2>2. \A n \in Nodes : nodeStatus'[n] = IF n = cur THEN "RUNNING" ELSE nodeStatus[n]
    BY <1>6, <1>c, UpsertStatus DEF MarkRunning
  <2> QED BY <1>c, <2>1, <2>2 DEF NothingElseRuns, Routing
<1>7. CASE AskForInput \/ HandlerEnds \/ FinishExecution
  <2>1. UNCHANGED <<nodeStatus, cur>> /\ pc \in Running /\ pc' \in Running
    BY <1>7 DEF AskForInput, HandlerEnds, FinishExecution, Goto, nodeRow, locals, Running
  <2> QED BY <2>1 DEF NothingElseRuns, Running, Routing
<1>8. CASE SettleNode
  <2>1. nodeStatus[cur] = "RUNNING" /\ pc' \notin Running
    BY <1>8, ReturnLeaves DEF SettleNode, Goto, NothingElseRuns, Running
  <2>2. /\ \A n \in Nodes :
             nodeStatus'[n] = IF n = cur THEN PersistedStatus(outcome) ELSE nodeStatus[n]
        /\ PersistedStatus(outcome) # "RUNNING"
    BY <1>8, <1>c, UpsertStatus DEF SettleNode, PersistedStatus
  <2>3. \A n \in Nodes : nodeStatus'[n] # "RUNNING"
    BY <1>c, <2>1, <2>2 DEF NothingElseRuns
  <2> QED BY <2>1, <2>3 DEF NothingElseRuns
<1>9. CASE ActivateTarget
  <2>1. None /\ pc' \notin Running /\ Head(todo).target \in Nodes
    BY <1>9, NextRoute DEF ActivateTarget, Goto, NothingElseRuns, Running, Routing
  <2>2. NoneNew
    BY <1>9, <2>1, UpsertStatus DEF ActivateTarget
  <2> QED BY <2>1, <2>2, <1>b
<1>10. CASE RegisterBatch \/ RegisterRaises
  BY <1>10, <1>a
     DEF RegisterBatch, RegisterRaises, EndCommand, Goto, nodeRow, Running, Routing
<1>11. CASE ReleaseWaitingNode \/ ActivateResumeNode
  <2>1. ResumeNode[cur] \in Nodes
    BY <1>c, EngineAssumption
  <2>2. Calm
    BY <1>11 DEF ReleaseWaitingNode, ActivateResumeNode, EndCommand, Goto, Running, Routing
  <2>3. NoneNew
    BY <1>c, <1>11, <2>1, UpsertStatus DEF ReleaseWaitingNode, ActivateResumeNode, nodeRow
  <2> QED BY <2>2, <2>3, <1>a
<1>12. ASSUME NEW c \in {"start", "run", "inspect"}, NEW n \in Nodes, OpenEngine(c, n)
       PROVE  NothingElseRuns'
  <2>1. Calm
    BY <1>12 DEF OpenEngine, Goto, Running, Routing
  <2>2. NoneNew
    BY <1>12, UpsertStatus, GraphAssumption DEF OpenEngine, nodeRow
  <2> QED BY <2>1, <2>2, <1>a
<1>13. ASSUME NEW n \in Nodes, ResolveRequest(n) PROVE NothingElseRuns'
  BY <1>13, <1>a DEF ResolveRequest, Goto, nodeRow, Running, Routing
<1>14. ASSUME NEW n \in Nodes, Unblock(n) PROVE NothingElseRuns'
  BY <1>14, <1>a, UpsertStatus DEF Unblock, Issue, Running, Routing
<1>15. CASE Crash
  BY <1>15, <1>a DEF Crash, EndCommand, nodeRow, Running, Routing
<1>16. CASE UNCHANGED vars
  BY <1>16 DEF vars, nodeRow, locals, NothingElseRuns
<1> QED
  BY <1>1, <1>2, <1>3, <1>4, <1>5, <1>6, <1>7, <1>8, <1>9, <1>10, <1>11, <1>12, <1>13,
     <1>14, <1>15, <1>16 DEF Next, EngineStep, OperatorStep

(***************************************************************************)
(* Recovery on engine start and one command at a time keep every node but  *)
(* the one in execution from being RUNNING.                                *)
(***************************************************************************)
THEOREM OneNodeRuns == Spec => []OneNodeRunning
<1>1. Init => NothingElseRuns
  BY DEF Init, NothingElseRuns, Running, Routing
<1>2. Spec => [](TypeInv /\ NothingElseRuns)
  BY TypeInit, TypeStep, <1>1, RunningStep, PTL DEF Spec
<1>3. NothingElseRuns => OneNodeRunning
  BY DEF NothingElseRuns, OneNodeRunning, Running
<1> QED BY <1>2, <1>3, PTL

(***************************************************************************)
(* All the parts together, for every graph and every sequence of commands: *)
(* the invariant that the properties rest on.                              *)
(***************************************************************************)
THEOREM EngineInvariant == Spec => []EngineInv
<1>1. Init => NothingElseRuns
  BY DEF Init, NothingElseRuns, Running, Routing
<1>2. Spec => []NothingElseRuns
  BY TypeInit, TypeStep, <1>1, RunningStep, PTL DEF Spec
<1>3. TypeInv /\ AttemptsInv /\ JustifiedInv /\ NothingElseRuns => EngineInv
  BY DEF TypeInv, AttemptsInv, JustifiedInv, Backed, EngineInv
<1> QED BY <1>2, <1>3, AlwaysJustified, PTL

(***************************************************************************)
(* Driven in order, the engine implements the plan.  What a change of rows *)
(* is to the plan.                                                         *)
(***************************************************************************)
\* A step after which every node is activated and satisfied as it was.
Quiet ==
  \A n \in Nodes :
    /\ nodeStatus'[n] = "PENDING" <=> nodeStatus[n] = "PENDING"
    /\ nodeStatus'[n] \in SatisfiedStatuses <=> nodeStatus[n] \in SatisfiedStatuses

\* A step that changes one row.
Becomes(n, status) ==
  \A m \in Nodes : nodeStatus'[m] = IF m = n THEN status ELSE nodeStatus[m]

LEMMA QuietIsStutter ==
  ASSUME Quiet
  PROVE  Activated' = Activated /\ Satisfied' = Satisfied
  BY DEF Quiet, Activated, Satisfied

\* The prerequisites of a node, as the engine and as the plan see them.
LEMMA PreparedAgrees ==
  ASSUME NEW n \in Nodes
  PROVE  PrerequisitesMet(n, nodeStatus) <=> Plan!Prepared(n)
  BY GraphAssumption DEF PrerequisitesMet, Plan!Prepared, Satisfied

\* While nothing satisfied is taken back, what was prepared stays prepared.
LEMMA PreparedLasts ==
  ASSUME NEW n \in Nodes, PrerequisitesMet(n, nodeStatus), Satisfied \subseteq Satisfied'
  PROVE  PrerequisitesMet(n, nodeStatus)'
<1>1. \A r \in Nodes :
        nodeStatus[r] \in SatisfiedStatuses => nodeStatus'[r] \in SatisfiedStatuses
  BY DEF Satisfied
<1>2. Requires[n] \subseteq Nodes
  BY GraphAssumption
<1> QED BY <1>1, <1>2 DEF PrerequisitesMet

LEMMA ActivationIsPlanned ==
  ASSUME NEW n \in Nodes, nodeStatus[n] = "PENDING", Becomes(n, "READY"),
         n = Entry \/ \E m \in Satisfied : n \in Plan!Follows(m)
  PROVE  Plan!Activate(n)
<1>1. Activated' = Activated \cup {n} /\ n \notin Activated
  BY DEF Activated, Becomes
<1>2. Satisfied' = Satisfied
  BY DEF Satisfied, Becomes, SatisfiedStatuses
<1> QED BY <1>1, <1>2 DEF Plan!Activate

LEMMA SatisfactionIsPlanned ==
  ASSUME NEW n \in Nodes, nodeStatus[n] \notin SatisfiedStatuses \cup {"PENDING"},
         NEW status \in SatisfiedStatuses, Becomes(n, status),
         PrerequisitesMet(n, nodeStatus)
  PROVE  Plan!Finish(n)
<1>1. Satisfied' = Satisfied \cup {n} /\ n \in Activated \ Satisfied
  BY DEF Satisfied, Activated, Becomes
<1>2. Activated' = Activated
  BY DEF Activated, Becomes, SatisfiedStatuses
<1> QED BY <1>1, <1>2, PreparedAgrees DEF Plan!Finish

LEMMA EngineParts ==
  ASSUME EngineInv
  PROVE  TypeInv /\ AttemptsInv /\ JustifiedInv /\ NothingElseRuns /\ cur \in Nodes
  BY DEF EngineInv, TypeInv, AttemptsInv, JustifiedInv, Backed, TypeOK, CommandOK

\* Upsert, as far as the plan looks.
LEMMA UpsertBecomes ==
  ASSUME TypeInv, NEW n \in Nodes, NEW status, NEW tries, NEW exec,
         Upsert(n, status, tries, exec)
  PROVE  Becomes(n, status)
  BY UpsertStatus DEF Becomes

(***************************************************************************)
(* Every step of the engine is one of the plan or none.                    *)
(***************************************************************************)
LEMMA PlanStep ==
  ASSUME EngineInv, PlanInv, Orderly, [Next]_vars
  PROVE  Quiet \/ Plan!Next
<1> USE EngineParts
<1> DEFINE Unwritten == UNCHANGED nodeStatus
<1>a. Unwritten => Quiet
  BY DEF Quiet
<1>b. ASSUME NEW n \in Nodes, NEW status,
             nodeStatus[n] \notin SatisfiedStatuses \cup {"PENDING"},
             status \notin SatisfiedStatuses \cup {"PENDING"}, Becomes(n, status)
      PROVE  Quiet
  BY <1>b DEF Quiet, Becomes
<1> USE DEF SatisfiedStatuses
<1>1. ASSUME NEW n \in Nodes, RecoverStaleRunning(n) PROVE Quiet
  BY <1>1, <1>b, UpsertBecomes DEF RecoverStaleRunning, StaleRows
<1>2. CASE EngineReady \/ SelectNext \/ LeaveLoop \/ SkipBlocked \/ RefuseNode
           \/ CreateExecution \/ AskForInput \/ HandlerEnds \/ FinishExecution
  BY <1>2, <1>a
     DEF EngineReady, SelectNext, LeaveLoop, SkipBlocked, RefuseNode, CreateExecution,
         AskForInput, HandlerEnds, FinishExecution, nodeRow
<1>3. CASE TakeSnapshot \/ LeaveTargetAlone \/ PassEdgeOver \/ ConditionRaises
           \/ CreateDecision \/ EndRouting \/ MaybeAdvancePhase \/ RegisterBatch
           \/ RegisterRaises
  BY <1>3, <1>a
     DEF TakeSnapshot, LeaveTargetAlone, PassEdgeOver, ConditionRaises, CreateDecision,
         EndRouting, MaybeAdvancePhase, RegisterBatch, RegisterRaises, nodeRow
<1>4. CASE MarkRunning
  <2>1. nodeStatus[cur] \in {"READY", "RUNNING"}
    BY <1>4 DEF MarkRunning, PlanInv, CommandInOrder, InFlight
  <2>2. Becomes(cur, "RUNNING")
    BY <1>4, UpsertBecomes DEF MarkRunning
  <2> QED BY <2>1, <2>2, <1>b
<1>5. CASE SettleNode
  <2>1. nodeStatus[cur] \in {"READY", "RUNNING"} /\ PrerequisitesMet(cur, nodeStatus)
    BY <1>5 DEF SettleNode, PlanInv, CommandInOrder, InFlight, Running
  <2>2. Becomes(cur, PersistedStatus(outcome))
    BY <1>5, UpsertBecomes DEF SettleNode
  <2>3. CASE PersistedStatus(outcome) \in SatisfiedStatuses
    <3>1. Plan!Finish(cur)
      BY <2>1, <2>2, <2>3, SatisfactionIsPlanned
    <3> QED BY <3>1 DEF Plan!Next
  <2>4. CASE PersistedStatus(outcome) \notin SatisfiedStatuses
    <3>1. PersistedStatus(outcome) # "PENDING"
      BY DEF PersistedStatus
    <3> QED BY <2>1, <2>2, <2>4, <3>1, <1>b
  <2> QED BY <2>3, <2>4
<1>6. CASE ActivateTarget
  <2> DEFINE t == Head(todo).target
  <2>1. t \in Nodes /\ t \in Targets(cur)
    BY <1>6, NextRoute DEF ActivateTarget, EngineInv, CommandJustified, TypeInv, TypeOK, CommandOK
  <2>2. Becomes(t, "READY") /\ nodeStatus[t] \notin SatisfiedStatuses
    BY <1>6, <2>1, UpsertBecomes
       DEF ActivateTarget, Untouchable, Blocked, BlockedStatuses
  <2>3. cur \in Satisfied /\ t \in Plan!Follows(cur)
    BY <1>6, <2>1
       DEF ActivateTarget, PlanInv, CommandInOrder, Routing, Satisfied, Plan!Follows,
           Plan!Targets, Targets
  <2>4. CASE nodeStatus[t] = "PENDING"
    <3>1. Plan!Activate(t)
      BY <2>1, <2>2, <2>3, <2>4, ActivationIsPlanned
    <3> QED BY <2>1, <3>1 DEF Plan!Next
  <2>5. CASE nodeStatus[t] # "PENDING"
    BY <2>1, <2>2, <2>5, <1>b
  <2> QED BY <2>4, <2>5
<1>7. CASE ReleaseWaitingNode
  <2>1. cur \in Asked
    BY <1>7 DEF ReleaseWaitingNode, EngineInv, CommandJustified, Answering, Asked
  <2>2. nodeStatus[cur] # "PENDING" /\ PrerequisitesMet(cur, nodeStatus)
    BY <2>1 DEF PlanInv, PreparedInOrder, Activated
  <2>3. Becomes(cur, "SUCCEEDED")
    BY <1>7, <2>2, UpsertBecomes DEF ReleaseWaitingNode
  <2>4. CASE nodeStatus[cur] \in SatisfiedStatuses
    BY <2>3, <2>4 DEF Quiet, Becomes
  <2>5. CASE nodeStatus[cur] \notin SatisfiedStatuses
    <3>1. Plan!Finish(cur)
      BY <2>2, <2>3, <2>5, SatisfactionIsPlanned
    <3> QED BY <3>1 DEF Plan!Next
  <2> QED BY <2>4, <2>5
<1>8. CASE ActivateResumeNode
  <2> DEFINE r == ResumeNode[cur]
  <2>1. r \in Nodes /\ cur \in Askers
    BY <1>8, EngineAssumption
       DEF ActivateResumeNode, TypeInv, LocalsReady, Answering
  <2>2. nodeStatus[r] = "PENDING"
    BY <1>8, <2>1
       DEF ActivateResumeNode, PlanInv, AnswersInOrder, Answering, Activated
  <2>3. Becomes(r, "READY")
    BY <1>8, <2>1, UpsertBecomes DEF ActivateResumeNode
  <2>4. cur \in Satisfied /\ r \in Plan!Follows(cur)
    BY <1>8, <2>1
       DEF ActivateResumeNode, PlanInv, CommandInOrder, Satisfied, Plan!Follows
  <2>5. Plan!Activate(r)
    BY <2>1, <2>2, <2>3, <2>4, ActivationIsPlanned
  <2> QED BY <2>1, <2>5 DEF Plan!Next
<1>9. ASSUME NEW c \in {"start", "run", "inspect"}, NEW n \in Nodes, OpenEngine(c, n)
      PROVE  Quiet \/ Plan!Next
  <2>1. Entry \in Nodes
    BY GraphAssumption
  <2>2. CASE nodeStatus[Entry] = "PENDING"
    <3>1. Becomes(Entry, "READY")
      BY <1>9, <2>1, <2>2, UpsertBecomes DEF OpenEngine
    <3>2. Plan!Activate(Entry)
      BY <2>1, <2>2, <3>1, ActivationIsPlanned
    <3> QED BY <2>1, <3>2 DEF Plan!Next
  <2>3. CASE nodeStatus[Entry] # "PENDING"
    BY <1>9, <2>3, <1>a DEF OpenEngine, nodeRow
  <2> QED BY <2>2, <2>3
<1>10. ASSUME NEW n \in Nodes, ResolveRequest(n) \/ Unblock(n) PROVE Quiet
  <2>1. CASE ResolveRequest(n)
    BY <2>1, <1>a DEF ResolveRequest, nodeRow
  <2>2. CASE Unblock(n)
    BY <2>2, <1>b, UpsertBecomes DEF Unblock
  <2> QED BY <1>10, <2>1, <2>2
<1>11. CASE Crash \/ UNCHANGED vars
  BY <1>11, <1>a DEF Crash, vars, nodeRow
<1> QED
  BY <1>1, <1>2, <1>3, <1>4, <1>5, <1>6, <1>7, <1>8, <1>9, <1>10, <1>11
     DEF Next, EngineStep, OperatorStep

(***************************************************************************)
(* What is activated or satisfied stays so, and in order.                  *)
(***************************************************************************)
LEMMA PlanGrows ==
  ASSUME Quiet \/ Plan!Next
  PROVE  Satisfied \subseteq Satisfied' /\ Activated \subseteq Activated'
  BY QuietIsStutter DEF Plan!Next, Plan!Activate, Plan!Finish

LEMMA ActivatedStep ==
  ASSUME ActivatedInOrder, Quiet \/ Plan!Next
  PROVE  ActivatedInOrder'
<1>1. \A n \in Activated' \ Activated :
        n = Entry \/ \E m \in Satisfied : n \in Plan!Follows(m)
  BY QuietIsStutter DEF Plan!Next, Plan!Activate, Plan!Finish
<1>2. \A n \in Activated' : n = Entry \/ \E m \in Satisfied : n \in Plan!Follows(m)
  BY <1>1 DEF ActivatedInOrder
<1> QED BY <1>2, PlanGrows DEF ActivatedInOrder

\* Who is newly satisfied was prepared.
LEMMA SatisfiedStep ==
  ASSUME \A n \in Satisfied : PrerequisitesMet(n, nodeStatus), Quiet \/ Plan!Next
  PROVE  \A n \in Satisfied' : PrerequisitesMet(n, nodeStatus')
<1> TAKE n \in Satisfied'
<1>1. n \in Nodes
  BY DEF Satisfied
<1>2. n \in Satisfied \/ Plan!Prepared(n)
  BY QuietIsStutter DEF Plan!Next, Plan!Activate, Plan!Finish
<1>3. PrerequisitesMet(n, nodeStatus)
  BY <1>1, <1>2, PreparedAgrees
<1> QED BY <1>1, <1>3, PreparedLasts, PlanGrows

\* Who asks is running, and what it requires is satisfied.
LEMMA AskedStep ==
  ASSUME EngineInv, PlanInv, [Next]_vars, NEW n \in Asked', n \notin Asked
  PROVE  n \in Nodes /\ n \in Activated /\ PrerequisitesMet(n, nodeStatus)
<1> USE EngineParts
<1>1. AskForInput /\ n = cur
  BY DEF Asked, Next, EngineStep, OperatorStep, vars, requestRows, RecoverStaleRunning,
         EngineReady, SelectNext, LeaveLoop, SkipBlocked, RefuseNode, CreateExecution,
         MarkRunning, AskForInput, HandlerEnds, FinishExecution, SettleNode, TakeSnapshot,
         ActivateTarget, LeaveTargetAlone, PassEdgeOver, ConditionRaises, CreateDecision,
         EndRouting, MaybeAdvancePhase, RegisterBatch, RegisterRaises, ReleaseWaitingNode,
         ActivateResumeNode, OpenEngine, ResolveRequest, Unblock, Crash
<1> QED
  BY <1>1 DEF AskForInput, PlanInv, CommandInOrder, InFlight, Running, Activated

\* Who succeeds by an execution is running.
LEMMA SuccessStep ==
  ASSUME EngineInv, [Next]_vars, NEW n \in Nodes, Succeeded(n)', ~Succeeded(n)
  PROVE  n = cur /\ pc = "finish" /\ outcome = "success"
<1> USE EngineParts
<1> PICK i \in DOMAIN execs' : execs'[i].node = n /\ execs'[i].status = "SUCCEEDED"
  BY DEF Succeeded
<1>1. ASSUME NEW m \in Nodes, RecoverStaleRunning(m) PROVE FALSE
  BY <1>1 DEF RecoverStaleRunning, Finished, Succeeded
<1>2. CASE CreateExecution
  <2> DEFINE fresh == [node |-> cur, attempt |-> attempts[cur] + 1, status |-> "RUNNING"]
  <2>1. execs' = Append(execs, fresh) /\ fresh.status = "RUNNING"
    BY <1>2 DEF CreateExecution
  <2>2. execs \in Seq(Executions)
    BY DEF TypeInv, TypeOK
  <2> HIDE DEF fresh
  <2>3. execs'[i] = fresh \/ (i \in DOMAIN execs /\ execs'[i] = execs[i])
    BY <2>1, <2>2
  <2> QED BY <2>1, <2>3 DEF Succeeded
<1>3. CASE FinishExecution
  <2>1. /\ execs' = [execs EXCEPT ![curExec] = Finished(@, PersistedStatus(outcome))]
        /\ pc = "finish"
    BY <1>3 DEF FinishExecution
  <2>2. i = curExec
    BY <2>1 DEF Succeeded
  <2>3. execs[curExec].node = cur
    BY <2>1 DEF AttemptsInv, ExecutionInProgress, InFlight, Running
  <2>4. execs'[i].node = cur /\ execs'[i].status = PersistedStatus(outcome)
    BY <2>1, <2>2, <2>3 DEF Finished
  <2>5. outcome = "success"
    BY <2>4 DEF PersistedStatus
  <2> QED BY <2>1, <2>4, <2>5
<1>4. CASE UNCHANGED execs
  BY <1>4 DEF Succeeded
<1> QED
  BY <1>1, <1>2, <1>3, <1>4
     DEF Next, EngineStep, OperatorStep, vars, EngineReady, SelectNext, LeaveLoop, SkipBlocked,
         RefuseNode, MarkRunning, AskForInput, HandlerEnds, SettleNode, TakeSnapshot,
         ActivateTarget, LeaveTargetAlone, PassEdgeOver, ConditionRaises, CreateDecision,
         EndRouting, MaybeAdvancePhase, RegisterBatch, RegisterRaises, ReleaseWaitingNode,
         ActivateResumeNode, OpenEngine, ResolveRequest, Unblock, Crash

LEMMA PreparedStep ==
  ASSUME EngineInv, PlanInv, [Next]_vars, Quiet \/ Plan!Next
  PROVE  PreparedInOrder'
<1> USE EngineParts DEF PlanInv
<1>1. Satisfied \subseteq Satisfied' /\ Activated \subseteq Activated'
  BY PlanGrows
<1>2. (Asked \subseteq Activated)'
  BY <1>1, AskedStep DEF PreparedInOrder
<1>3. \A n \in Satisfied' : PrerequisitesMet(n, nodeStatus')
  BY SatisfiedStep DEF PreparedInOrder
<1>4. ASSUME NEW n \in Asked' PROVE PrerequisitesMet(n, nodeStatus')
  <2>1. n \in Nodes /\ PrerequisitesMet(n, nodeStatus)
    BY AskedStep DEF PreparedInOrder, Activated
  <2> QED BY <1>1, <2>1, PreparedLasts
<1>5. ASSUME NEW n \in Nodes, Succeeded(n)' PROVE PrerequisitesMet(n, nodeStatus')
  <2>1. CASE Succeeded(n)
    BY <1>1, <2>1, PreparedLasts DEF PreparedInOrder, PrerequisitesOutlive
  <2>2. CASE ~Succeeded(n)
    <3>1. n = cur /\ pc = "finish"
      BY <1>5, <2>2, SuccessStep
    <3>2. PrerequisitesMet(n, nodeStatus)
      BY <3>1 DEF CommandInOrder, InFlight, Running
    <3> QED BY <1>1, <3>2, PreparedLasts
  <2> QED BY <2>1, <2>2
<1>6. PrerequisitesOutlive'
  BY <1>5 DEF PrerequisitesOutlive
<1> QED BY <1>2, <1>3, <1>4, <1>6 DEF PreparedInOrder

(***************************************************************************)
(* What the command in progress may rely on.                               *)
(***************************************************************************)
\* A node is activated by the engine that opens, by an edge of the node that
\* is routed, or by an answer that ends.
LEMMA ActivationStep ==
  ASSUME EngineInv, PlanInv, [Next]_vars, NEW r \in Activated', r \notin Activated
  PROVE  \/ r = Entry
         \/ Succeeded(cur) /\ r \in Targets(cur)
         \/ /\ pc = "resume" /\ pc' = "idle" /\ cur \in Askers
            /\ r = ResumeNode[cur] /\ UNCHANGED openRequests
<1> USE EngineParts
<1>1. r \in Nodes /\ nodeStatus[r] = "PENDING" /\ nodeStatus'[r] # "PENDING"
  BY DEF Activated
<1>2. ASSUME NEW n \in Nodes, NEW s, NEW a, NEW e, Upsert(n, s, a, e), n # r PROVE FALSE
  BY <1>1, <1>2, UpsertBecomes DEF Becomes
<1>3. ~UNCHANGED nodeStatus
  BY <1>1
<1>4. ASSUME NEW n \in Nodes, RecoverStaleRunning(n) PROVE FALSE
  BY <1>1, <1>2, <1>4 DEF RecoverStaleRunning, StaleRows
<1>5. CASE MarkRunning \/ SettleNode
  <2>1. cur # r
    BY <1>1, <1>5
       DEF MarkRunning, SettleNode, PlanInv, CommandInOrder, InFlight, Running
  <2> QED BY <1>2, <1>5, <2>1 DEF MarkRunning, SettleNode
<1>6. CASE ActivateTarget
  <2>1. Head(todo).target \in Nodes /\ Head(todo).target \in Targets(cur) /\ Succeeded(cur)
    BY <1>6, NextRoute
       DEF ActivateTarget, EngineInv, CommandJustified, Routing, TypeInv, TypeOK, CommandOK
  <2> QED BY <1>2, <1>6, <2>1 DEF ActivateTarget
<1>7. CASE ReleaseWaitingNode
  BY <1>1, <1>2, <1>3, <1>7 DEF ReleaseWaitingNode, nodeRow
<1>8. CASE ActivateResumeNode
  <2>1. cur \in Askers /\ ResumeNode[cur] \in Nodes
    BY <1>8, EngineAssumption DEF ActivateResumeNode, TypeInv, LocalsReady, Answering
  <2>2. r = ResumeNode[cur]
    BY <1>2, <1>8, <2>1 DEF ActivateResumeNode
  <2> QED BY <1>8, <2>1, <2>2 DEF ActivateResumeNode, EndCommand, requestRows
<1>9. ASSUME NEW c \in {"start", "run", "inspect"}, NEW n \in Nodes, OpenEngine(c, n)
      PROVE  r = Entry
  BY <1>2, <1>3, <1>9, GraphAssumption DEF OpenEngine, nodeRow
<1>10. ASSUME NEW n \in Nodes, Unblock(n) PROVE FALSE
  BY <1>1, <1>2, <1>10 DEF Unblock
<1> QED
  BY <1>3, <1>4, <1>5, <1>6, <1>7, <1>8, <1>9, <1>10
     DEF Next, EngineStep, OperatorStep, vars, nodeRow, EngineReady, SelectNext, LeaveLoop,
         SkipBlocked, RefuseNode, CreateExecution, AskForInput, HandlerEnds, FinishExecution,
         TakeSnapshot, LeaveTargetAlone, PassEdgeOver, ConditionRaises, CreateDecision,
         EndRouting, MaybeAdvancePhase, RegisterBatch, RegisterRaises, ResolveRequest, Crash

\* How a request is opened and how an answer is begun and goes on.
LEMMA RequestStep ==
  ASSUME EngineInv, PlanInv, [Next]_vars
  PROVE  /\ \A n \in openRequests' \ openRequests : n = cur /\ pc = "execute"
         /\ pc' \in Answering =>
              \/ cur' \in openRequests /\ cur' \notin openRequests'
              \/ pc \in Answering /\ cur' = cur /\ UNCHANGED openRequests
<1> USE DEF Answering
<1>1. CASE SkipBlocked \/ SettleNode \/ MaybeAdvancePhase
  BY <1>1, ReturnLeaves DEF SkipBlocked, SettleNode, MaybeAdvancePhase, requestRows, Goto
<1> QED
  BY <1>1
     DEF Next, EngineStep, OperatorStep, vars, requestRows, locals, Goto, EndCommand,
         RecoverStaleRunning, EngineReady, SelectNext, LeaveLoop, RefuseNode,
         CreateExecution, MarkRunning, AskForInput, HandlerEnds, FinishExecution,
         TakeSnapshot, ActivateTarget, LeaveTargetAlone, PassEdgeOver, ConditionRaises,
         CreateDecision, EndRouting, RegisterBatch, RegisterRaises, ReleaseWaitingNode,
         ActivateResumeNode, OpenEngine, ResolveRequest, Unblock, Issue, Crash

\* What a handler reports is decided when it ends.
LEMMA OutcomeStep ==
  ASSUME EngineInv, PlanInv, [Next]_vars, pc' \in {"finish", "settle"}
  PROVE  /\ cur' = cur
         /\ \/ pc \in {"finish", "settle"} /\ outcome' = outcome
            \/ outcome' \in Outcomes[cur] \cup AskedOutcomes[cur]
<1>1. CASE SkipBlocked \/ SettleNode \/ MaybeAdvancePhase
  BY <1>1, ReturnLeaves DEF SkipBlocked, SettleNode, MaybeAdvancePhase, Goto
<1> QED
  BY <1>1
     DEF Next, EngineStep, OperatorStep, vars, locals, Goto, EndCommand,
         RecoverStaleRunning, EngineReady, SelectNext, LeaveLoop, RefuseNode,
         CreateExecution, MarkRunning, AskForInput, HandlerEnds, FinishExecution,
         TakeSnapshot, ActivateTarget, LeaveTargetAlone, PassEdgeOver, ConditionRaises,
         CreateDecision, EndRouting, RegisterBatch, RegisterRaises, ReleaseWaitingNode,
         ActivateResumeNode, OpenEngine, ResolveRequest, Unblock, Issue, Crash

LEMMA AnswersStep ==
  ASSUME EngineInv, PlanInv, Orderly, [Next]_vars, Quiet \/ Plan!Next
  PROVE  AnswersInOrder'
<1> USE EngineParts DEF PlanInv
<1>1. ASSUME NEW n \in Askers
      PROVE  /\ ~Succeeded(n)'
             /\ pc' \in {"finish", "settle"} /\ cur' = n => outcome' # "success"
             /\ pc' \in Answering /\ cur' = n => n \notin openRequests'
             /\ ResumeNode[n] \in Activated' =>
                  /\ n \in Satisfied'
                  /\ n \notin openRequests'
                  /\ ~(pc' \in Answering /\ cur' = n)
  <2>1. n \in Nodes
    BY EngineAssumption
  <2>2. ~Succeeded(n)'
    BY <2>1, SuccessStep DEF AnswersInOrder
  <2>3. pc' \in {"finish", "settle"} /\ cur' = n => outcome' # "success"
    BY OutcomeStep DEF AnswersInOrder, Orderly
  <2>4. pc' \in Answering /\ cur' = n => n \notin openRequests'
    BY RequestStep DEF AnswersInOrder
  <2>5. CASE ResumeNode[n] \in Activated
    <3>1. n \in Satisfied /\ n \notin openRequests /\ ~(pc \in Answering /\ cur = n)
      BY <2>5 DEF AnswersInOrder
    <3>2. n \in Satisfied'
      BY <3>1, PlanGrows
    <3>3. n \notin openRequests'
      <4>1. pc = "execute" => n # cur
        BY <3>1
           DEF CommandInOrder, InFlight, Running, Satisfied, SatisfiedStatuses
      <4> QED BY <3>1, <4>1, RequestStep
    <3>4. ~(pc' \in Answering /\ cur' = n)
      BY <3>1, RequestStep
    <3> QED BY <2>2, <2>3, <2>4, <3>2, <3>3, <3>4
  <2>6. CASE ResumeNode[n] \in Activated' /\ ResumeNode[n] \notin Activated
    <3>1. \/ Succeeded(cur) /\ ResumeNode[n] \in Targets(cur)
          \/ /\ pc = "resume" /\ pc' = "idle" /\ cur \in Askers
             /\ ResumeNode[n] = ResumeNode[cur] /\ UNCHANGED openRequests
      BY <2>6, ActivationStep DEF Orderly
    <3>2. cur = n
      BY <3>1 DEF Orderly
    <3>3. pc = "resume" /\ pc' = "idle" /\ UNCHANGED openRequests
      BY <3>1, <3>2 DEF AnswersInOrder
    <3>4. n \in Satisfied'
      BY <2>1, <3>2, <3>3, PlanGrows
         DEF CommandInOrder, Satisfied, SatisfiedStatuses
    <3>5. n \notin openRequests'
      BY <3>2, <3>3 DEF AnswersInOrder, Answering
    <3> QED BY <2>2, <2>3, <2>4, <3>3, <3>4, <3>5 DEF Answering
  <2> QED BY <2>2, <2>3, <2>4, <2>5, <2>6
<1> QED BY <1>1 DEF AnswersInOrder

LEMMA CommandStep ==
  ASSUME EngineInv, PlanInv, Orderly, [Next]_vars, Quiet \/ Plan!Next
  PROVE  CommandInOrder'
<1> USE EngineParts DEF PlanInv
<1> DEFINE Begun == pc' \in InFlight \cup {"begin"}
           Settled == pc' \in Routing \cup {"advance", "resume"}
           Ready(n) == nodeStatus[n] \in {"READY", "RUNNING"} /\ PrerequisitesMet(n, nodeStatus)
<1>a. \A n \in Nodes : PrerequisitesMet(n, nodeStatus) => PrerequisitesMet(n, nodeStatus')
  BY PreparedLasts, PlanGrows
<1>b. Activated \subseteq Activated'
  BY PlanGrows
<1>c. mode' \in {mode, "inspect"} /\ (pc' = "select" => mode' = "start")
      /\ ~Begun /\ ~Settled => CommandInOrder'
  BY <1>b DEF CommandInOrder
<1>d. mode' = mode /\ pc' # "select" /\ ~Settled
      /\ (mode = "start" /\ cur' \in Nodes /\ Ready(cur')
          /\ nodeStatus'[cur'] \in {"READY", "RUNNING"}) => CommandInOrder'
  BY <1>a, <1>b DEF CommandInOrder
<1>e. mode' = mode /\ pc' # "select" /\ ~Begun /\ nodeStatus'[cur'] = "SUCCEEDED"
      => CommandInOrder'
  BY <1>b DEF CommandInOrder
<1>f. ReturnFromRunNode => CommandInOrder'
  <2>1. ASSUME ReturnFromRunNode
        PROVE  mode' \in {mode, "inspect"} /\ (pc' = "select" => mode' = "start")
               /\ ~Begun /\ ~Settled
    BY <2>1 DEF ReturnFromRunNode, EndCommand, Goto, InFlight, Running, Routing
  <2> QED BY <2>1, <1>c
<1>g. ASSUME NEW how, EndCommand(how) PROVE CommandInOrder'
  <2>1. mode' \in {mode, "inspect"} /\ pc' = "idle" /\ ~Begun /\ ~Settled
    BY <1>g DEF EndCommand, InFlight, Running, Routing
  <2> QED BY <2>1, <1>c
<1> USE DEF InFlight, Running, Routing
<1>1. ASSUME NEW n \in Nodes, RecoverStaleRunning(n) PROVE CommandInOrder'
  BY <1>1, <1>c DEF RecoverStaleRunning, locals
<1>2. CASE EngineReady
  <2>1. CASE mode = "start"
    BY <1>2, <2>1, <1>c DEF EngineReady, Goto, locals
  <2>2. CASE mode # "start"
    BY <1>2, <2>2, <1>g DEF EngineReady, CommandInOrder
  <2> QED BY <2>1, <2>2
<1>3. CASE SelectNext
  <2>1. mode = "start" /\ nodeStatus[Entry] # "PENDING" /\ Entry \in Nodes
    BY <1>3, GraphAssumption DEF SelectNext, CommandInOrder, Activated
  <2>2. cur' \in Nodes /\ Ready(cur') /\ UNCHANGED <<nodeStatus, mode>> /\ pc' = "begin"
    BY <1>3, <2>1 DEF SelectNext, Candidates, NoRows, Goto, nodeRow
  <2> QED BY <2>1, <2>2, <1>d
<1>4. CASE LeaveLoop \/ RefuseNode \/ ConditionRaises \/ RegisterRaises
           \/ ActivateResumeNode \/ Crash
  BY <1>4, <1>g
     DEF LeaveLoop, RefuseNode, ConditionRaises, RegisterRaises, ActivateResumeNode, Crash
<1>5. CASE SkipBlocked \/ MaybeAdvancePhase
  BY <1>5, <1>f DEF SkipBlocked, MaybeAdvancePhase
<1>6. CASE CreateExecution \/ AskForInput \/ HandlerEnds \/ FinishExecution
  <2>1. UNCHANGED <<nodeStatus, mode, cur>> /\ pc \in InFlight \cup {"begin"}
        /\ pc' \in InFlight
    BY <1>6
       DEF CreateExecution, AskForInput, HandlerEnds, FinishExecution, Goto, nodeRow, locals
  <2> QED BY <2>1, <1>d DEF CommandInOrder
<1>7. CASE MarkRunning
  <2>1. Becomes(cur, "RUNNING") /\ UNCHANGED <<mode, cur>> /\ pc = "mark" /\ pc' = "execute"
    BY <1>7, UpsertBecomes DEF MarkRunning, Goto, locals
  <2> QED BY <2>1, <1>d DEF CommandInOrder, Becomes
<1>8. CASE SettleNode
  <2>1. CASE RoutesAfter(outcome)
    <3>1. Becomes(cur, "SUCCEEDED")
      BY <1>8, <2>1, UpsertBecomes DEF SettleNode, RoutesAfter, PersistedStatus
    <3>2. UNCHANGED <<mode, cur>> /\ pc' = "snapshot"
      BY <1>8, <2>1 DEF SettleNode, Goto, locals
    <3> QED BY <3>1, <3>2, <1>e DEF Becomes
  <2>2. CASE ~RoutesAfter(outcome)
    BY <1>8, <2>2, <1>f DEF SettleNode
  <2> QED BY <2>1, <2>2
<1>9. CASE TakeSnapshot \/ LeaveTargetAlone \/ PassEdgeOver \/ CreateDecision \/ EndRouting
  <2>1. UNCHANGED <<nodeStatus, mode, cur>> /\ pc \in Routing
        /\ pc' \in Routing \cup {"advance"}
    BY <1>9
       DEF TakeSnapshot, LeaveTargetAlone, PassEdgeOver, CreateDecision, EndRouting, Goto,
           nodeRow, locals
  <2> QED BY <2>1, <1>e DEF CommandInOrder
<1>10. CASE ActivateTarget
  <2> DEFINE t == Head(todo).target
  <2>1. t \in Nodes /\ nodeStatus[t] # "SUCCEEDED" /\ nodeStatus[cur] = "SUCCEEDED"
    BY <1>10, NextRoute DEF ActivateTarget, Untouchable, CommandInOrder
  <2>2. Becomes(t, "READY") /\ UNCHANGED <<mode, cur>> /\ pc' = "decide"
    BY <1>10, <2>1, UpsertBecomes DEF ActivateTarget, Goto, locals
  <2> HIDE DEF t
  <2> QED BY <2>1, <2>2, <1>e DEF Becomes
<1>11. CASE RegisterBatch
  BY <1>11, <1>c DEF RegisterBatch, Goto, locals
<1>12. CASE ReleaseWaitingNode
  <2>1. nodeStatus[cur] # "PENDING"
    BY <1>12
       DEF ReleaseWaitingNode, EngineInv, CommandJustified, Answering, Asked,
           PreparedInOrder, Activated
  <2>2. Becomes(cur, "SUCCEEDED") /\ UNCHANGED <<mode, cur>> /\ pc' = "resume"
    BY <1>12, <2>1, UpsertBecomes DEF ReleaseWaitingNode, Goto, locals
  <2> QED BY <2>2, <1>e DEF Becomes
<1>13. ASSUME NEW c \in {"start", "run", "inspect"}, NEW n \in Nodes, OpenEngine(c, n)
       PROVE  CommandInOrder'
  <2>1. mode' # "run" /\ pc' = "recover"
    BY <1>13 DEF OpenEngine, Issue, Goto, Orderly
  <2>2. nodeStatus'[Entry] # "PENDING" /\ Entry \in Nodes
    <3>1. CASE nodeStatus[Entry] = "PENDING"
      BY <1>13, <3>1, GraphAssumption, UpsertBecomes DEF OpenEngine, Becomes
    <3>2. CASE nodeStatus[Entry] # "PENDING"
      BY <1>13, <3>2, GraphAssumption DEF OpenEngine, nodeRow
    <3> QED BY <3>1, <3>2
  <2> QED BY <2>1, <2>2 DEF CommandInOrder, Activated
<1>14. ASSUME NEW n \in Nodes, ResolveRequest(n) PROVE CommandInOrder'
  BY <1>14 DEF ResolveRequest, Goto, CommandInOrder
<1>15. ASSUME NEW n \in Nodes, Unblock(n) PROVE CommandInOrder'
  BY <1>15, <1>c DEF Unblock, Issue, locals
<1>16. CASE UNCHANGED vars
  BY <1>16, <1>a, <1>b DEF vars, nodeRow, locals, CommandInOrder
<1> QED
  BY <1>1, <1>2, <1>3, <1>4, <1>5, <1>6, <1>7, <1>8, <1>9, <1>10, <1>11, <1>12, <1>13,
     <1>14, <1>15, <1>16 DEF Next, EngineStep, OperatorStep

(***************************************************************************)
(* The engine implements the plan.                                         *)
(***************************************************************************)
LEMMA PlanInit == Init => PlanInv /\ Plan!Init
<1> SUFFICES ASSUME Init PROVE PlanInv /\ Plan!Init
  OBVIOUS
<1>1. Satisfied = {} /\ Activated = {} /\ Asked = {}
  BY DEF Init, Satisfied, SatisfiedStatuses, Activated, Asked
<1>2. \A n \in Nodes : ~Succeeded(n)
  BY DEF Init, Succeeded
<1>3. pc = "idle" /\ mode = "inspect" /\ phase = 0 /\ openRequests = {}
  BY DEF Init, IdleLocals
<1>4. \A n \in Askers : n \in Nodes /\ ResumeNode[n] \in Nodes
  BY EngineAssumption
<1> QED
  BY <1>1, <1>2, <1>3, <1>4
     DEF PlanInv, ActivatedInOrder, PreparedInOrder, PrerequisitesOutlive, AnswersInOrder,
         CommandInOrder, Plan!Init, InFlight, Running, Routing, Answering

LEMMA PlanInvStep ==
  ASSUME EngineInv, PlanInv, Orderly, [Next]_vars
  PROVE  PlanInv' /\ [Plan!Next]_(Plan!plan)
<1>1. Quiet \/ Plan!Next
  BY PlanStep
<1>2. PlanInv'
  BY <1>1, ActivatedStep, PreparedStep, AnswersStep, CommandStep DEF PlanInv
<1>3. Quiet => UNCHANGED Plan!plan
  BY QuietIsStutter DEF Plan!plan
<1> QED BY <1>1, <1>2, <1>3

LEMMA PlanAlways == Orderly => (Spec => []PlanInv)
<1> SUFFICES ASSUME Orderly PROVE Spec => []PlanInv
  OBVIOUS
<1>1. Init => PlanInv
  BY PlanInit
<1>2. EngineInv /\ PlanInv /\ [Next]_vars => PlanInv'
  BY PlanInvStep
<1> QED BY <1>1, <1>2, EngineInvariant, PTL DEF Spec

(***************************************************************************)
(* Driven in order, the engine implements the plan on every graph: nothing *)
(* is activated but along an edge of a node that is done or by an answer,  *)
(* nothing is done before what it requires, and neither is taken back by   *)
(* any crash, hold, failure, release or answer.                            *)
(***************************************************************************)
THEOREM EngineImplementsPlan == Orderly => (Spec => ImplementsPlan)
<1> SUFFICES ASSUME Orderly PROVE Spec => ImplementsPlan
  OBVIOUS
<1>1. Init => Plan!Init
  BY PlanInit
<1>2. EngineInv /\ PlanInv /\ [Next]_vars => [Plan!Next]_(Plan!plan)
  BY PlanInvStep
<1> QED BY <1>1, <1>2, EngineInvariant, PlanAlways, PTL DEF Spec, ImplementsPlan, Plan!Spec

(***************************************************************************)
(* "A node never runs before its requires are SUCCEEDED", for what `start` *)
(* runs: what a node that succeeded requires is satisfied, and stays so.   *)
(***************************************************************************)
THEOREM PrerequisitesLast == Orderly => (Spec => []PrerequisitesOutlive)
<1>1. PlanInv => PrerequisitesOutlive
  BY DEF PlanInv, PreparedInOrder
<1> QED BY <1>1, PlanAlways, PTL

(***************************************************************************)
(* Phases.                                                                 *)
(***************************************************************************)
\* The log of executions keeps who was executed and who succeeded; it grows by
\* the execution that is created.
LEMMA LogStep ==
  ASSUME EngineInv, [Next]_vars
  PROVE  \/ /\ CreateExecution
            /\ Len(execs') = Len(execs) + 1 /\ DOMAIN execs' = 1..(Len(execs) + 1)
            /\ \A i \in DOMAIN execs : execs'[i] = execs[i]
            /\ execs'[Len(execs) + 1].node = cur
            /\ execs'[Len(execs) + 1].status = "RUNNING"
         \/ /\ ~CreateExecution
            /\ Len(execs') = Len(execs) /\ DOMAIN execs' = DOMAIN execs
            /\ \A i \in DOMAIN execs :
                 /\ execs'[i].node = execs[i].node
                 /\ execs[i].status = "SUCCEEDED" => execs'[i].status = "SUCCEEDED"
<1> USE EngineParts
<1>0. execs \in Seq(Executions) BY DEF TypeInv, TypeOK
<1>1. CASE CreateExecution
  <2> DEFINE fresh == [node |-> cur, attempt |-> attempts[cur] + 1, status |-> "RUNNING"]
  <2>1. execs' = Append(execs, fresh) /\ fresh.status = "RUNNING" /\ fresh.node = cur
    BY <1>1 DEF CreateExecution
  <2> HIDE DEF fresh
  <2> QED BY <1>0, <1>1, <2>1
<1>2. ASSUME NEW m \in Nodes, RecoverStaleRunning(m), ~CreateExecution
      PROVE  /\ Len(execs') = Len(execs) /\ DOMAIN execs' = DOMAIN execs
             /\ \A i \in DOMAIN execs :
                  /\ execs'[i].node = execs[i].node
                  /\ execs[i].status = "SUCCEEDED" => execs'[i].status = "SUCCEEDED"
  <2>1. /\ execs' = [i \in DOMAIN execs |-> execs'[i]]
        /\ \A i \in DOMAIN execs :
             execs'[i] = execs[i]
             \/ (execs[i].status = "RUNNING" /\ execs'[i] = Finished(execs[i], "CANCELLED"))
    BY <1>2 DEF RecoverStaleRunning
  <2>2. \A i \in DOMAIN execs : Finished(execs[i], "CANCELLED") \in Executions
    BY <1>0, FinishedType DEF ExecStatuses
  <2>3. \A i \in DOMAIN execs : execs'[i] \in Executions BY <1>0, <2>1, <2>2
  <2>4. Len(execs') = Len(execs) /\ DOMAIN execs' = DOMAIN execs
    BY <1>0, <2>1, <2>3, RewriteInPlace
  <2> QED BY <2>1, <2>4 DEF Finished
<1>3. CASE FinishExecution
  <2>1. execs' = [execs EXCEPT ![curExec] = Finished(@, PersistedStatus(outcome))]
    BY <1>3 DEF FinishExecution
  <2>2. pc = "finish" BY <1>3 DEF FinishExecution
  <2>3. execs[curExec].status = "RUNNING"
    BY <2>2 DEF AttemptsInv, ExecutionInProgress, InFlight, Running
  <2>4. ~CreateExecution BY <2>2 DEF CreateExecution
  <2> QED BY <1>0, <2>1, <2>3, <2>4 DEF Finished
<1>4. CASE UNCHANGED execs /\ ~CreateExecution
  BY <1>4
<1> QED
  BY <1>1, <1>2, <1>3, <1>4
     DEF Next, EngineStep, OperatorStep, vars, EngineReady, SelectNext, LeaveLoop, SkipBlocked,
         RefuseNode, MarkRunning, AskForInput, HandlerEnds, SettleNode, TakeSnapshot,
         ActivateTarget, LeaveTargetAlone, PassEdgeOver, ConditionRaises, CreateDecision,
         EndRouting, MaybeAdvancePhase, RegisterBatch, RegisterRaises, ReleaseWaitingNode,
         ActivateResumeNode, OpenEngine, ResolveRequest, Unblock, Crash

\* From its creation to the advance of the phase a command keeps its execution.
LEMMA SameExecution ==
  ASSUME [Next]_vars, pc' \in InFlight \cup Routing \cup {"advance"}
  PROVE  \/ CreateExecution
         \/ pc \in InFlight \cup Routing \cup {"advance"} /\ UNCHANGED <<cur, curExec>>
<1> USE DEF InFlight, Running, Routing
<1>1. CASE SkipBlocked \/ SettleNode \/ MaybeAdvancePhase
  BY <1>1, ReturnLeaves DEF SkipBlocked, SettleNode, MaybeAdvancePhase, Goto, locals
<1> QED
  BY <1>1
     DEF Next, EngineStep, OperatorStep, vars, locals, Goto, EndCommand,
         RecoverStaleRunning, EngineReady, SelectNext, LeaveLoop, RefuseNode,
         MarkRunning, AskForInput, HandlerEnds, FinishExecution,
         TakeSnapshot, ActivateTarget, LeaveTargetAlone, PassEdgeOver, ConditionRaises,
         CreateDecision, EndRouting, RegisterBatch, RegisterRaises, ReleaseWaitingNode,
         ActivateResumeNode, OpenEngine, ResolveRequest, Unblock, Issue, Crash

\* Who asks is in execution; a phase is set by the gate that was routed.
LEMMA AskAndAdvance ==
  ASSUME [Next]_vars
  PROVE  /\ \A n \in Asked' \ Asked : n = cur /\ pc = "execute"
         /\ phase' # phase => pc = "advance" /\ phase' = PhaseAfter(cur)
  BY DEF Asked, Next, EngineStep, OperatorStep, vars, requestRows, routing, RecoverStaleRunning,
         EngineReady, SelectNext, LeaveLoop, SkipBlocked, RefuseNode, CreateExecution,
         MarkRunning, AskForInput, HandlerEnds, FinishExecution, SettleNode, TakeSnapshot,
         ActivateTarget, LeaveTargetAlone, PassEdgeOver, ConditionRaises, CreateDecision,
         EndRouting, MaybeAdvancePhase, RegisterBatch, RegisterRaises, ReleaseWaitingNode,
         ActivateResumeNode, OpenEngine, ResolveRequest, Unblock, Crash

\* A node that is created an execution and is reached through g alone finds a
\* success of g in the log.
LEMMA ReachedAfter ==
  ASSUME EngineInv, PhasesInOrder, CreateExecution, NEW g \in PhaseGates,
         NEW U \in SUBSET Nodes, OnlyThrough(g, U), cur \in U
  PROVE  Succeeded(g)
<1> USE EngineParts
<1>1. nodeStatus[cur] # "PENDING" /\ cur \in Nodes \ {Entry}
  BY DEF CreateExecution, NotActivated, OnlyThrough
<1>2. \/ \E m \in Nodes : cur \in Targets(m) /\ Succeeded(m)
      \/ \E m \in resolvedRequests : ResumeNode[m] = cur
  BY <1>1 DEF JustifiedInv, Backed, ActivationBacked
<1>3. \A m \in U : Executed(m) => Succeeded(g)
  BY DEF PhasesInOrder, Executed, SucceededBefore, Succeeded
<1>4. ASSUME NEW m \in Nodes, cur \in Targets(m), Succeeded(m) PROVE Succeeded(g)
  <2>1. m \in U \cup {g} BY <1>4 DEF OnlyThrough
  <2>2. Executed(m) BY <1>4 DEF Succeeded, Executed
  <2> QED BY <1>3, <1>4, <2>1, <2>2
<1>5. ASSUME NEW m \in resolvedRequests, ResumeNode[m] = cur PROVE Succeeded(g)
  <2>1. m \in Nodes BY EngineAssumption DEF TypeInv, TypeOK, RequestsOK
  <2>2. m \in U BY <1>5, <2>1 DEF OnlyThrough
  <2>3. Executed(m) BY <1>5 DEF PhasesInOrder, Asked
  <2> QED BY <1>3, <2>2, <2>3
<1> QED BY <1>2, <1>4, <1>5

LEMMA PhasesStep ==
  ASSUME EngineInv, PhasesInOrder, [Next]_vars
  PROVE  PhasesInOrder'
<1> USE EngineParts, LogStep
<1>0. execs \in Seq(Executions) /\ Len(execs) \in Nat /\ DOMAIN execs = 1..Len(execs)
  BY DEF TypeInv, TypeOK
<1>1. \A n : Executed(n) => Executed(n)'
  BY <1>0 DEF Executed
<1>2. \A n \in Asked' : Executed(n)'
  <2>1. pc = "execute" => Executed(cur)
    BY DEF PhasesInOrder, InFlight, Running, Executed
  <2> QED BY <1>1, <2>1, AskAndAdvance DEF PhasesInOrder
<1>3. pc' \in InFlight \cup Routing \cup {"advance"} =>
        curExec' \in DOMAIN execs' /\ curExec' = Len(execs') /\ execs'[curExec'].node = cur'
  <2>1. CASE CreateExecution
    <3>1. curExec' = Len(execs) + 1 /\ cur' = cur BY <2>1 DEF CreateExecution
    <3> QED BY <1>0, <2>1, <3>1
  <2>2. CASE ~CreateExecution
    BY <1>0, <2>2, SameExecution DEF PhasesInOrder
  <2> QED BY <2>1, <2>2
<1>4. phase' # 0 => \E h \in PhaseGates : Executed(h)' /\ phase' = PhaseOf[h] + 1
  <2>1. CASE phase' = phase BY <1>1, <2>1 DEF PhasesInOrder
  <2>2. CASE phase' # phase
    <3>1. pc = "advance" /\ phase' = PhaseAfter(cur) BY <2>2, AskAndAdvance
    <3>2. cur \in PhaseGates /\ phase' = PhaseOf[cur] + 1 BY <2>2, <3>1 DEF PhaseAfter
    <3>3. Executed(cur) BY <3>1 DEF PhasesInOrder, Executed
    <3> QED BY <1>1, <3>2, <3>3
  <2> QED BY <2>1, <2>2
<1>5. ASSUME NEW g \in PhaseGates, NEW U \in SUBSET Nodes, OnlyThrough(g, U),
             NEW j \in DOMAIN execs', execs'[j].node \in U
      PROVE  SucceededBefore(g, j)'
  <2>1. CASE j \in DOMAIN execs
    <3>1. execs[j].node \in U BY <1>0, <1>5, <2>1
    <3>2. SucceededBefore(g, j) BY <1>5, <2>1, <3>1 DEF PhasesInOrder
    <3> QED BY <1>0, <3>2 DEF SucceededBefore
  <2>2. CASE j \notin DOMAIN execs
    <3>1. CreateExecution /\ j = Len(execs) + 1 /\ cur \in U BY <1>0, <1>5, <2>2
    <3>2. Succeeded(g) BY <1>5, <3>1, ReachedAfter
    <3> QED BY <1>0, <3>1, <3>2 DEF Succeeded, SucceededBefore
  <2> QED BY <2>1, <2>2
<1> QED BY <1>2, <1>3, <1>4, <1>5 DEF PhasesInOrder, OnlyThrough, Targets

LEMMA PhasesAlways == Spec => []PhasesInOrder
<1>1. Init => PhasesInOrder
  BY DEF Init, IdleLocals, PhasesInOrder, Asked, InFlight, Running, Routing
<1>2. EngineInv /\ PhasesInOrder /\ [Next]_vars => PhasesInOrder'
  BY PhasesStep
<1> QED BY <1>1, <1>2, EngineInvariant, PTL DEF Spec

\* A gate that takes the phase back has succeeded before.
LEMMA RecessionStep ==
  ASSUME GatesInOrder, EngineInv, PhasesInOrder, [Next]_vars, phase' < phase
  PROVE  \E i \in DOMAIN execs \ {curExec} :
           execs[i].node = cur /\ execs[i].status = "SUCCEEDED"
<1> USE EngineParts
<1>1. phase \in Nat /\ \A g \in PhaseGates : g \in Nodes /\ PhaseOf[g] \in Nat
  <2>1. phase \in 0..8
    BY DEF TypeInv, TypeOK, RoutingOK, PhaseIndexes, LastPhase
  <2>2. \A n \in Nodes : PhaseOf[n] \in 0..8 \cup {99}
    BY GraphAssumption DEF PhaseIndexes, LastPhase, OutsidePhases
  <2>3. PhaseGates \subseteq Nodes
    BY GraphAssumption
  <2> QED BY <2>1, <2>2, <2>3
<1>2. pc = "advance" /\ phase' = PhaseAfter(cur)
  BY <1>1, AskAndAdvance
<1>3. cur \in PhaseGates /\ phase' = PhaseOf[cur] + 1
  BY <1>1, <1>2 DEF PhaseAfter
<1>4. phase # 0
  BY <1>1, <1>3
<1>5. PICK h \in PhaseGates : Executed(h) /\ phase = PhaseOf[h] + 1
  BY <1>4 DEF PhasesInOrder
<1>6. PhaseOf[cur] < PhaseOf[h]
  BY <1>1, <1>3, <1>5
<1>7. PICK U \in SUBSET Nodes : h \in U /\ OnlyThrough(cur, U)
  BY <1>3, <1>6 DEF GatesInOrder
<1>8. PICK j \in DOMAIN execs : execs[j].node = h
  BY <1>5 DEF Executed
<1>9. SucceededBefore(cur, j)
  BY <1>3, <1>7, <1>8 DEF PhasesInOrder
<1>10. curExec = Len(execs) /\ execs \in Seq(Executions)
  BY <1>2 DEF PhasesInOrder, TypeInv, TypeOK
<1> QED BY <1>8, <1>9, <1>10 DEF SucceededBefore

(***************************************************************************)
(* However nodes are run by name, answered, held, released or killed, and  *)
(* whichever of them ask: on a graph whose gates are reached in the order  *)
(* of their phases, the phase of an assessment goes back only when a gate  *)
(* that had succeeded runs again.                                          *)
(***************************************************************************)
THEOREM PhasesRecedeByRerun == GatesInOrder => (Spec => PhaseRecedesByRerunOnly)
<1> SUFFICES ASSUME GatesInOrder PROVE Spec => PhaseRecedesByRerunOnly
  OBVIOUS
<1>1. EngineInv /\ PhasesInOrder /\ [Next]_vars =>
        [phase' < phase =>
           \E i \in DOMAIN execs \ {curExec} :
             execs[i].node = cur /\ execs[i].status = "SUCCEEDED"]_vars
  BY RecessionStep
<1> QED BY <1>1, EngineInvariant, PhasesAlways, PTL DEF Spec, PhaseRecedesByRerunOnly

(***************************************************************************)
(* Without kills.  Which writers a row has.                                *)
(***************************************************************************)
Undisturbed == [EngineStep \/ OperatorStep]_vars

LEMMA UndisturbedIsNext == Undisturbed => [Next]_vars
  BY DEF Undisturbed, Next

\* A row that changes is released or activated, marked, settled, or answered.
LEMMA StatusStep ==
  ASSUME EngineInv, [Next]_vars, NEW n \in Nodes, nodeStatus'[n] # nodeStatus[n]
  PROVE  \/ nodeStatus'[n] = "READY"
         \/ nodeStatus'[n] = "RUNNING" /\ n = cur /\ pc = "mark"
         \/ nodeStatus'[n] = PersistedStatus(outcome) /\ n = cur /\ pc = "settle"
         \/ /\ nodeStatus'[n] = "SUCCEEDED" /\ nodeStatus[n] # "PENDING"
            /\ n = cur /\ pc = "release" /\ pc' = "resume" /\ cur' = cur
<1> USE EngineParts
<1> DEFINE Known ==
      \/ nodeStatus'[n] = "READY"
      \/ nodeStatus'[n] = "RUNNING" /\ n = cur /\ pc = "mark"
      \/ nodeStatus'[n] = PersistedStatus(outcome) /\ n = cur /\ pc = "settle"
      \/ /\ nodeStatus'[n] = "SUCCEEDED" /\ nodeStatus[n] # "PENDING"
         /\ n = cur /\ pc = "release" /\ pc' = "resume" /\ cur' = cur
<1>1. ASSUME NEW m \in Nodes, RecoverStaleRunning(m) PROVE Known
  BY <1>1, UpsertStatus DEF RecoverStaleRunning
<1>2. CASE MarkRunning
  BY <1>2, UpsertStatus DEF MarkRunning
<1>3. CASE SettleNode
  BY <1>3, UpsertStatus DEF SettleNode
<1>4. CASE ActivateTarget
  <2>1. Head(todo).target \in Nodes
    BY <1>4, NextRoute DEF ActivateTarget
  <2> QED BY <1>4, <2>1, UpsertStatus DEF ActivateTarget
<1>5. CASE ReleaseWaitingNode
  BY <1>5, UpsertStatus DEF ReleaseWaitingNode, nodeRow, locals, Goto
<1>6. CASE ActivateResumeNode
  <2>1. ResumeNode[cur] \in Nodes
    BY EngineAssumption
  <2> QED BY <1>6, <2>1, UpsertStatus DEF ActivateResumeNode
<1>7. ASSUME NEW c \in {"start", "run", "inspect"}, NEW m \in Nodes, OpenEngine(c, m)
      PROVE  Known
  BY <1>7, UpsertStatus, GraphAssumption DEF OpenEngine, nodeRow
<1>8. ASSUME NEW m \in Nodes, Unblock(m) PROVE Known
  BY <1>8, UpsertStatus DEF Unblock
<1>9. CASE UNCHANGED nodeStatus
  BY <1>9
<1> QED
  BY <1>1, <1>2, <1>3, <1>4, <1>5, <1>6, <1>7, <1>8, <1>9
     DEF Next, EngineStep, OperatorStep, vars, nodeRow, EngineReady, SelectNext, LeaveLoop,
         SkipBlocked, RefuseNode, CreateExecution, AskForInput, HandlerEnds, FinishExecution,
         TakeSnapshot, LeaveTargetAlone, PassEdgeOver, ConditionRaises, CreateDecision,
         EndRouting, MaybeAdvancePhase, RegisterBatch, RegisterRaises, ResolveRequest, Crash

\* No step takes an activation back.
LEMMA ActivatedGrows ==
  ASSUME EngineInv, [Next]_vars
  PROVE  Activated \subseteq Activated'
<1>1. PersistedStatus(outcome) # "PENDING"
  BY DEF PersistedStatus
<1>2. \A n \in Nodes : nodeStatus[n] # "PENDING" => nodeStatus'[n] # "PENDING"
  BY <1>1, StatusStep
<1> QED BY <1>2 DEF Activated

(***************************************************************************)
(* The parts of the invariant, one by one.                                 *)
(***************************************************************************)
\* What a handler returned stays at hand until the row is settled.
LEMMA OutcomeKept ==
  ASSUME [Next]_vars, pc' \in {"finish", "settle"}
  PROVE  \/ pc \in {"execute", "asked"} /\ HandlerEnds
         \/ /\ UNCHANGED <<outcome, cur>> /\ pc \in {"finish", "settle"}
            /\ FinishExecution \/ pc' = pc
  BY DEF Next, EngineStep, OperatorStep, Issue, Goto, EndCommand, ReturnFromRunNode, vars,
         locals, RecoverStaleRunning, EngineReady, SelectNext, LeaveLoop, SkipBlocked,
         RefuseNode, CreateExecution, MarkRunning, AskForInput, HandlerEnds, FinishExecution,
         SettleNode, TakeSnapshot, ActivateTarget, LeaveTargetAlone, PassEdgeOver,
         ConditionRaises, CreateDecision, EndRouting, MaybeAdvancePhase, RegisterBatch,
         RegisterRaises, ReleaseWaitingNode, ActivateResumeNode, OpenEngine, ResolveRequest,
         Unblock, Crash

LEMMA ReturnedStep ==
  ASSUME EngineInv, StatusesReturned, [Next]_vars
  PROVE  StatusesReturned'
<1> USE EngineParts
<1>1. ASSUME NEW n \in Nodes
      PROVE  /\ nodeStatus'[n] \notin {"CANCELLED", "SUPERSEDED"}
             /\ nodeStatus'[n] = "SKIPPED" => MaySkip(n)
  <2>1. PersistedStatus(outcome) \notin {"CANCELLED", "SUPERSEDED"}
    BY DEF PersistedStatus
  <2>2. PersistedStatus(outcome) = "SKIPPED" => outcome = "skipped"
    BY DEF PersistedStatus
  <2>3. pc = "settle" => outcome \in Outcomes[cur] \cup AskedOutcomes[cur]
    BY DEF StatusesReturned
  <2> QED BY <2>1, <2>2, <2>3, StatusStep DEF StatusesReturned, MaySkip
<1>2. ASSUME pc' \in {"finish", "settle"}
      PROVE  outcome' \in Outcomes[cur'] \cup AskedOutcomes[cur']
  <2>1. CASE HandlerEnds
    BY <2>1 DEF HandlerEnds
  <2> QED BY <1>2, <2>1, OutcomeKept DEF StatusesReturned
<1> QED BY <1>1, <1>2 DEF StatusesReturned, MaySkip

LEMMA EntryStep ==
  ASSUME EngineInv, EntryFirst, [Next]_vars
  PROVE  EntryFirst'
<1> USE EngineParts, GraphAssumption
<1> SUFFICES ASSUME nodeStatus'[Entry] = "PENDING" PROVE (pc = "idle" /\ NoRows /\ openRequests = {})'
  BY DEF EntryFirst
<1>1. nodeStatus[Entry] = "PENDING"
  BY ActivatedGrows DEF Activated
<1>2. pc = "idle" /\ NoRows /\ openRequests = {}
  BY <1>1 DEF EntryFirst
<1>3. ASSUME NEW c \in {"start", "run", "inspect"}, NEW m \in Nodes, OpenEngine(c, m)
      PROVE  FALSE
  BY <1>3, <1>1, UpsertStatus DEF OpenEngine
<1>4. ASSUME NEW m \in Nodes, ResolveRequest(m) \/ Unblock(m) PROVE FALSE
  BY <1>4, <1>2 DEF ResolveRequest, Unblock, NoRows
<1>5. UNCHANGED vars
  BY <1>2, <1>3, <1>4
     DEF Next, EngineStep, OperatorStep, RecoverStaleRunning, EngineReady, SelectNext,
         LeaveLoop, SkipBlocked, RefuseNode, CreateExecution, MarkRunning, AskForInput,
         HandlerEnds, FinishExecution, SettleNode, TakeSnapshot, ActivateTarget,
         LeaveTargetAlone, PassEdgeOver, ConditionRaises, CreateDecision, EndRouting,
         MaybeAdvancePhase, RegisterBatch, RegisterRaises, ReleaseWaitingNode,
         ActivateResumeNode, Crash
<1> QED BY <1>2, <1>5 DEF vars, nodeRow, requestRows, NoRows

\* An execution that has succeeded by this step was finished by it.
LEMMA NewSuccess ==
  ASSUME EngineInv, [Next]_vars, NEW n \in Nodes, Succeeded(n)', ~Succeeded(n)
  PROVE  n = cur /\ pc = "finish" /\ outcome = "success" /\ FinishExecution
<1>1. n = cur /\ pc = "finish" /\ outcome = "success"
  BY SuccessStep
<1>2. FinishExecution \/ UNCHANGED execs
  BY <1>1
     DEF Next, EngineStep, OperatorStep, Issue, vars, RecoverStaleRunning, EngineReady,
         SelectNext, LeaveLoop, SkipBlocked, RefuseNode, CreateExecution, MarkRunning,
         AskForInput, HandlerEnds, SettleNode, TakeSnapshot, ActivateTarget,
         LeaveTargetAlone, PassEdgeOver, ConditionRaises, CreateDecision, EndRouting,
         MaybeAdvancePhase, RegisterBatch, RegisterRaises, ReleaseWaitingNode,
         ActivateResumeNode, OpenEngine, ResolveRequest, Unblock, Crash
<1> QED BY <1>1, <1>2 DEF Succeeded

\* An edge still to be routed.
StillToFire(t) == \E i \in DOMAIN todo : todo[i].target = t /\ todo[i].verdict = "taken"
NoneRaises == \A i \in DOMAIN todo : todo[i].verdict # "raises"

\* What routing drops from its list is the head.
LEMMA DropHead ==
  ASSUME TypeInv, todo # <<>>, todo' = Tail(todo)
  PROVE  /\ NoneRaises => NoneRaises'
         /\ \A t : StillToFire(t) =>
              StillToFire(t)' \/ (Head(todo).target = t /\ Head(todo).verdict = "taken")
<1>1. todo \in Seq(Routes)
  BY DEF TypeInv, TypeOK, CommandOK
<1>2. \A i \in DOMAIN todo : i = 1 \/ (i - 1 \in DOMAIN todo' /\ todo'[i - 1] = todo[i])
  BY <1>1
<1>3. \A i \in DOMAIN todo' : i + 1 \in DOMAIN todo /\ todo'[i] = todo[i + 1]
  BY <1>1
<1>4. Head(todo) = todo[1]
  BY <1>1
<1> QED BY <1>2, <1>3, <1>4 DEF NoneRaises, StillToFire

\* The snapshot holds every edge, the ones that always fire as taken.
LEMMA SnapshotTakesAll ==
  ASSUME TypeInv, Registered, TakeSnapshot
  PROVE  NoneRaises' /\ \A t \in SureTargets(cur) : StillToFire(t)'
<1>1. cur \in Nodes
  BY DEF TypeInv, TypeOK, CommandOK
<1>2. /\ DOMAIN todo' = DOMAIN Outgoing[cur]
      /\ \A i \in DOMAIN Outgoing[cur] :
           /\ todo'[i].target = Outgoing[cur][i].target
           /\ todo'[i].verdict = Evaluate(Outgoing[cur][i].condition)
  BY DEF TakeSnapshot
<1>3. ASSUME NEW i \in DOMAIN Outgoing[cur] PROVE todo'[i].verdict # "raises"
  BY <1>1, <1>2 DEF Registered, Evaluate
<1>4. ASSUME NEW i \in DOMAIN Outgoing[cur], Outgoing[cur][i].condition.name = "always"
      PROVE  todo'[i].verdict = "taken"
  <2>1. Holds(Outgoing[cur][i].condition)
    BY <1>4 DEF Holds
  <2> QED BY <1>2, <1>4, <2>1 DEF Evaluate
<1> QED BY <1>2, <1>3, <1>4 DEF NoneRaises, StillToFire, SureTargets

\* What of a node that succeeded is still to be done by the command.
Followed(n) == SureTargets(n) \subseteq Activated
BeingFollowed(n) ==
  /\ cur = n
  /\ \/ pc = "settle" /\ outcome = "success"
     \/ pc = "snapshot"
     \/ /\ pc \in {"route", "decide"}
        /\ \A t \in SureTargets(n) \ Activated : StillToFire(t)

\* The lists of edges are only looked at while routing.
LEMMA RoutingKept ==
  ASSUME [Next]_vars, pc' \in {"route", "decide"}
  PROVE  \/ TakeSnapshot
         \/ LeaveTargetAlone \/ CreateDecision
         \/ /\ UNCHANGED <<todo, cur>> /\ pc \in {"route", "decide"}
  BY DEF Next, EngineStep, OperatorStep, Issue, Goto, EndCommand, ReturnFromRunNode, vars,
         locals, RecoverStaleRunning, EngineReady, SelectNext, LeaveLoop, SkipBlocked,
         RefuseNode, CreateExecution, MarkRunning, AskForInput, HandlerEnds, FinishExecution,
         SettleNode, TakeSnapshot, ActivateTarget, LeaveTargetAlone, PassEdgeOver,
         ConditionRaises, CreateDecision, EndRouting, MaybeAdvancePhase, RegisterBatch,
         RegisterRaises, ReleaseWaitingNode, ActivateResumeNode, OpenEngine, ResolveRequest,
         Unblock, Crash

\* Nothing interrupts what follows a success but a condition that raises.
LEMMA FollowingGoesOn ==
  ASSUME EngineInv, Undisturbed, pc \in {"settle", "snapshot", "route", "decide"},
         pc = "settle" => outcome = "success",
         pc = "route" /\ todo # <<>> => Head(todo).verdict # "raises"
  PROVE  \/ pc = "settle" /\ pc' = "snapshot" /\ cur' = cur
         \/ TakeSnapshot
         \/ pc \in {"route", "decide"} /\ pc' \in {"route", "decide"} /\ cur' = cur
            /\ (todo' = todo \/ (todo # <<>> /\ todo' = Tail(todo)
                 /\ (Head(todo).verdict = "taken" => Head(todo).target \in Activated)))
         \/ EndRouting /\ todo = <<>>
         \/ UNCHANGED vars
<1> USE EngineParts
<1>1. CASE SettleNode
  BY <1>1 DEF SettleNode, RoutesAfter, Goto, locals
<1>2. CASE LeaveTargetAlone
  <2>1. Head(todo).target \in Nodes
    BY <1>2, NextRoute DEF LeaveTargetAlone
  <2>2. Untouchable(Head(todo).target) => Head(todo).target \in Activated
    BY <2>1 DEF Untouchable, Blocked, BlockedStatuses, Activated
  <2> QED BY <1>2, <2>2 DEF LeaveTargetAlone
<1>3. CASE CreateDecision
  <2>1. todo # <<>> /\ Head(todo).target \in Nodes
    BY <1>3, NextRoute DEF CreateDecision, TypeInv, LocalsReady
  <2>2. Head(todo).verdict = "taken" => Head(todo).target \in Activated
    BY <1>3, <2>1 DEF CreateDecision, JustifiedInv, CommandJustified, Activated
  <2> QED BY <1>3, <2>1, <2>2 DEF CreateDecision, Goto
<1>4. CASE ActivateTarget \/ PassEdgeOver
  BY <1>4 DEF ActivateTarget, PassEdgeOver, Goto, locals
<1>5. CASE TakeSnapshot \/ EndRouting \/ UNCHANGED vars
  BY <1>5 DEF EndRouting
<1>6. ~ConditionRaises
  BY DEF ConditionRaises
<1> QED
  BY <1>1, <1>2, <1>3, <1>4, <1>5, <1>6
     DEF Undisturbed, EngineStep, OperatorStep, Issue, RecoverStaleRunning, EngineReady,
         SelectNext, LeaveLoop, SkipBlocked, RefuseNode, CreateExecution, MarkRunning,
         AskForInput, HandlerEnds, FinishExecution, MaybeAdvancePhase, RegisterBatch,
         RegisterRaises, ReleaseWaitingNode, ActivateResumeNode, OpenEngine, ResolveRequest,
         Unblock

LEMMA EdgesStep ==
  ASSUME EngineInv, EdgesFollowed, Registered, Undisturbed
  PROVE  EdgesFollowed'
<1> USE EngineParts, UndisturbedIsNext
<1>1. Activated \subseteq Activated'
  BY ActivatedGrows
<1>2. ASSUME pc' \in {"route", "decide"} PROVE NoneRaises'
  <2>1. CASE TakeSnapshot
    BY <2>1, SnapshotTakesAll
  <2>2. CASE LeaveTargetAlone \/ CreateDecision
    <3>1. pc \in {"route", "decide"} /\ todo # <<>> /\ todo' = Tail(todo)
      BY <2>2 DEF LeaveTargetAlone, CreateDecision, TypeInv, LocalsReady
    <3> QED BY <3>1, DropHead DEF EdgesFollowed, NoneRaises
  <2>3. CASE UNCHANGED <<todo, cur>> /\ pc \in {"route", "decide"}
    BY <2>3 DEF EdgesFollowed, NoneRaises
  <2> QED BY <1>2, <2>1, <2>2, <2>3, RoutingKept
<1>3. ASSUME NEW n \in Nodes, Succeeded(n)' PROVE Followed(n)' \/ BeingFollowed(n)'
  <2>1. CASE Followed(n)
    BY <2>1, <1>1 DEF Followed
  <2>2. CASE ~Succeeded(n)
    <3>1. n = cur /\ outcome = "success" /\ FinishExecution
      BY <1>3, <2>2, NewSuccess
    <3> QED BY <3>1 DEF FinishExecution, Goto, locals, BeingFollowed
  <2>3. CASE Succeeded(n) /\ ~Followed(n)
    <3>1. BeingFollowed(n)
      BY <2>3 DEF EdgesFollowed, Followed, BeingFollowed, StillToFire
    <3>2. pc = "route" /\ todo # <<>> => Head(todo).verdict # "raises"
      BY DEF EdgesFollowed, TypeInv, TypeOK, CommandOK
    <3>3. CASE pc = "settle" /\ pc' = "snapshot" /\ cur' = cur
      BY <3>1, <3>3 DEF BeingFollowed
    <3>4. CASE TakeSnapshot
      BY <3>1, <3>4, SnapshotTakesAll DEF TakeSnapshot, Goto, BeingFollowed
    <3>5. CASE /\ pc \in {"route", "decide"} /\ pc' \in {"route", "decide"} /\ cur' = cur
               /\ (todo' = todo \/ (todo # <<>> /\ todo' = Tail(todo)
                    /\ (Head(todo).verdict = "taken" => Head(todo).target \in Activated)))
      <4>1. ASSUME NEW t \in SureTargets(n) \ Activated' PROVE StillToFire(t)'
        <5>1. StillToFire(t)
          BY <1>1, <3>1, <3>5, <4>1 DEF BeingFollowed
        <5>2. CASE todo' = todo
          BY <5>1, <5>2 DEF StillToFire
        <5>3. CASE todo' # todo
          BY <5>1, <5>3, <3>5, <4>1, <1>1, DropHead
        <5> QED BY <5>2, <5>3
      <4> QED BY <3>1, <3>5, <4>1 DEF BeingFollowed
    <3>6. CASE EndRouting /\ todo = <<>>
      <4>1. pc = "route" /\ SureTargets(n) \subseteq Activated
        BY <3>1, <3>6 DEF EndRouting, BeingFollowed, StillToFire
      <4> QED BY <4>1, <2>3 DEF Followed
    <3>7. CASE UNCHANGED vars
      BY <3>1, <3>7 DEF vars, nodeRow, locals, BeingFollowed, Activated, StillToFire
    <3> QED
      BY <3>1, <3>2, <3>3, <3>4, <3>5, <3>6, <3>7, FollowingGoesOn DEF BeingFollowed
  <2> QED BY <2>1, <2>2, <2>3
<1> QED
  BY <1>2, <1>3 DEF EdgesFollowed, NoneRaises, Followed, BeingFollowed, StillToFire

\* Who newly asks or is answered: requests are opened by handlers alone.
LEMMA RequestsGrow ==
  ASSUME [Next]_vars, NEW n, n \in (openRequests \cup resolvedRequests)',
         n \notin openRequests \cup resolvedRequests
  PROVE  AskForInput /\ n = cur
  BY DEF Next, EngineStep, OperatorStep, vars, requestRows, RecoverStaleRunning, EngineReady,
         SelectNext, LeaveLoop, SkipBlocked, RefuseNode, CreateExecution, MarkRunning,
         AskForInput, HandlerEnds, FinishExecution, SettleNode, TakeSnapshot, ActivateTarget,
         LeaveTargetAlone, PassEdgeOver, ConditionRaises, CreateDecision, EndRouting,
         MaybeAdvancePhase, RegisterBatch, RegisterRaises, ReleaseWaitingNode,
         ActivateResumeNode, OpenEngine, ResolveRequest, Unblock, Crash

\* A handler that has asked ends, and its execution is finished.
LEMMA AskedGoesOn ==
  ASSUME Undisturbed, pc = "asked"
  PROVE  HandlerEnds \/ UNCHANGED vars
  BY DEF Undisturbed, EngineStep, OperatorStep, Issue, RecoverStaleRunning, EngineReady,
         SelectNext, LeaveLoop, SkipBlocked, RefuseNode, CreateExecution, MarkRunning,
         AskForInput, FinishExecution, SettleNode, TakeSnapshot, ActivateTarget,
         LeaveTargetAlone, PassEdgeOver, ConditionRaises, CreateDecision, EndRouting,
         MaybeAdvancePhase, RegisterBatch, RegisterRaises, ReleaseWaitingNode,
         ActivateResumeNode, OpenEngine, ResolveRequest, Unblock

LEMMA EndedGoesOn ==
  ASSUME Undisturbed, pc = "finish"
  PROVE  FinishExecution \/ UNCHANGED vars
  BY DEF Undisturbed, EngineStep, OperatorStep, Issue, RecoverStaleRunning, EngineReady,
         SelectNext, LeaveLoop, SkipBlocked, RefuseNode, CreateExecution, MarkRunning,
         AskForInput, HandlerEnds, SettleNode, TakeSnapshot, ActivateTarget,
         LeaveTargetAlone, PassEdgeOver, ConditionRaises, CreateDecision, EndRouting,
         MaybeAdvancePhase, RegisterBatch, RegisterRaises, ReleaseWaitingNode,
         ActivateResumeNode, OpenEngine, ResolveRequest, Unblock

LEMMA PassingStep ==
  ASSUME EngineInv, PassingAskersSucceed, Undisturbed
  PROVE  PassingAskersSucceed'
<1> USE EngineParts, UndisturbedIsNext
<1> SUFFICES ASSUME NEW n \in Askers, n \in (openRequests \cup resolvedRequests)',
                    AsksInPassing(n)
             PROVE  \/ Succeeded(n)'
                    \/ cur' = n /\ (pc' = "asked" \/ (pc' = "finish" /\ outcome' = "success"))
  BY DEF PassingAskersSucceed, AsksInPassing
<1> n \in Nodes
  BY EngineAssumption
<1>1. CASE n \notin openRequests \cup resolvedRequests
  <2>1. AskForInput /\ n = cur
    BY <1>1, RequestsGrow
  <2> QED BY <2>1 DEF AskForInput, Goto, locals
<1>2. CASE Succeeded(n)
  BY <1>2, SuccessPersists
<1>3. CASE n \in openRequests \cup resolvedRequests /\ ~Succeeded(n)
  <2>1. cur = n /\ (pc = "asked" \/ (pc = "finish" /\ outcome = "success"))
    BY <1>3 DEF PassingAskersSucceed
  <2>2. CASE HandlerEnds /\ pc = "asked"
    BY <2>1, <2>2 DEF HandlerEnds, Goto, AsksInPassing
  <2>3. CASE FinishExecution /\ pc = "finish" /\ outcome = "success"
    <3>1. /\ curExec \in DOMAIN execs /\ execs[curExec].node = cur
      BY <2>3, CurrentExecution
         DEF AttemptsInv, ExecutionInProgress, InFlight, Running, TypeInv, TypeOK
    <3>2. curExec \in DOMAIN execs' /\ execs'[curExec].node = cur
          /\ execs'[curExec].status = "SUCCEEDED"
      BY <2>3, <3>1 DEF FinishExecution, Finished, PersistedStatus
    <3> QED BY <2>1, <3>2 DEF Succeeded
  <2>4. CASE UNCHANGED vars
    BY <2>1, <2>4 DEF vars, locals
  <2> QED BY <2>1, <2>2, <2>3, <2>4, AskedGoesOn, EndedGoesOn
<1> QED BY <1>1, <1>2, <1>3

\* Nothing interrupts an answer that has released its node.
LEMMA ResumeGoesOn ==
  ASSUME Undisturbed, pc = "resume"
  PROVE  ActivateResumeNode \/ UNCHANGED vars
  BY DEF Undisturbed, EngineStep, OperatorStep, Issue, RecoverStaleRunning, EngineReady,
         SelectNext, LeaveLoop, SkipBlocked, RefuseNode, CreateExecution, MarkRunning,
         AskForInput, HandlerEnds, FinishExecution, SettleNode, TakeSnapshot,
         ActivateTarget, LeaveTargetAlone, PassEdgeOver, ConditionRaises, CreateDecision,
         EndRouting, MaybeAdvancePhase, RegisterBatch, RegisterRaises, ReleaseWaitingNode,
         OpenEngine, ResolveRequest, Unblock

LEMMA ResumeStep ==
  ASSUME EngineInv, AnswersResume, Undisturbed
  PROVE  AnswersResume'
<1> USE EngineParts, UndisturbedIsNext
<1> SUFFICES ASSUME NEW n \in Nodes, nodeStatus'[n] = "SUCCEEDED"
             PROVE  \/ Succeeded(n)'
                    \/ n \in Askers
                       /\ (ResumeNode[n] \in Activated' \/ (pc' = "resume" /\ cur' = n))
  BY DEF AnswersResume
<1>1. CASE Succeeded(n)
  BY <1>1, SuccessPersists
<1>2. CASE nodeStatus[n] = "SUCCEEDED" /\ ~Succeeded(n)
  <2>1. n \in Askers /\ (ResumeNode[n] \in Activated \/ (pc = "resume" /\ cur = n))
    BY <1>2 DEF AnswersResume
  <2>2. CASE ResumeNode[n] \in Activated
    BY <2>1, <2>2, ActivatedGrows
  <2>3. CASE pc = "resume" /\ cur = n /\ ActivateResumeNode
    <3>1. ResumeNode[n] \in Nodes
      BY EngineAssumption
    <3>2. nodeStatus'[ResumeNode[n]] = "READY"
      BY <2>3, <3>1, UpsertStatus DEF ActivateResumeNode
    <3> QED BY <2>1, <3>1, <3>2 DEF Activated
  <2>4. CASE pc = "resume" /\ cur = n /\ UNCHANGED vars
    BY <2>1, <2>4 DEF vars, locals
  <2> QED BY <2>1, <2>2, <2>3, <2>4, ResumeGoesOn
<1>3. CASE nodeStatus[n] # "SUCCEEDED" /\ ~Succeeded(n)
  <2>1. CASE nodeStatus'[n] = PersistedStatus(outcome) /\ n = cur /\ pc = "settle"
    <3>1. execs[curExec].node = cur /\ execs[curExec].status = "SUCCEEDED"
          /\ curExec \in DOMAIN execs
      BY <2>1, CurrentExecution
         DEF AttemptsInv, ExecutionInProgress, InFlight, Running, TypeInv, TypeOK
    <3> QED BY <1>3, <2>1, <3>1 DEF Succeeded
  <2>2. CASE n = cur /\ pc = "release" /\ pc' = "resume" /\ cur' = cur
    BY <2>2 DEF TypeInv, LocalsReady, Answering
  <2> QED BY <1>3, <2>1, <2>2, StatusStep
<1> QED BY <1>1, <1>2, <1>3

\* Who has an execution in progress goes on with it.
LEMMA ExecutionKept ==
  ASSUME Undisturbed, UNCHANGED execs, pc \in InFlight \ {"settle"}
  PROVE  UNCHANGED curExec /\ (pc' \in InFlight \ {"settle"} \/ pc = "finish")
  BY DEF Undisturbed, EngineStep, OperatorStep, Issue, Goto, vars, locals, InFlight, Running,
         RecoverStaleRunning, EngineReady, SelectNext, LeaveLoop, SkipBlocked, RefuseNode,
         CreateExecution, MarkRunning, AskForInput, HandlerEnds, FinishExecution, SettleNode,
         TakeSnapshot, ActivateTarget, LeaveTargetAlone, PassEdgeOver, ConditionRaises,
         CreateDecision, EndRouting, MaybeAdvancePhase, RegisterBatch, RegisterRaises,
         ReleaseWaitingNode, ActivateResumeNode, OpenEngine, ResolveRequest, Unblock

LEMMA OrphansStep ==
  ASSUME EngineInv, NoneLeftRunning, Undisturbed
  PROVE  NoneLeftRunning'
<1> USE EngineParts, UndisturbedIsNext
<1> SUFFICES ASSUME NEW i \in DOMAIN execs', execs'[i].status = "RUNNING"
             PROVE  i = curExec' /\ pc' \in InFlight \ {"settle"}
  BY DEF NoneLeftRunning
<1>1. CASE CreateExecution
  <2>1. /\ execs \in Seq(Executions) /\ pc = "begin" /\ pc' = "mark"
        /\ curExec' = Len(execs) + 1
    BY <1>1 DEF CreateExecution, Goto, TypeInv, TypeOK
  <2>2. i = curExec' \/ (i \in DOMAIN execs /\ execs'[i] = execs[i])
    BY <1>1, <2>1 DEF CreateExecution
  <2> QED BY <2>1, <2>2 DEF NoneLeftRunning, InFlight, Running
<1>2. CASE FinishExecution
  <2>1. pc = "finish" /\ execs' = [execs EXCEPT ![curExec] = Finished(@, PersistedStatus(outcome))]
    BY <1>2 DEF FinishExecution
  <2>2. i = curExec
    BY <2>1 DEF NoneLeftRunning
  <2>3. execs'[i].status = PersistedStatus(outcome)
    BY <2>1, <2>2 DEF Finished
  <2> QED BY <2>3 DEF PersistedStatus
<1>3. ASSUME NEW m \in Nodes, RecoverStaleRunning(m)
      PROVE  i = curExec' /\ pc' \in InFlight \ {"settle"}
  <2>1. i \in DOMAIN execs /\ execs[i].status = "RUNNING" /\ pc = "recover"
    BY <1>3 DEF RecoverStaleRunning, Finished
  <2> QED BY <2>1 DEF NoneLeftRunning, InFlight, Running
<1>4. CASE UNCHANGED execs
  <2>1. i = curExec /\ pc \in InFlight \ {"settle"}
    BY <1>4 DEF NoneLeftRunning
  <2>2. CASE pc = "finish"
    BY <2>1, <2>2, <1>2, EndedGoesOn DEF vars, locals
  <2> QED BY <1>4, <2>1, <2>2, ExecutionKept
<1> QED
  BY <1>1, <1>2, <1>3, <1>4
     DEF Undisturbed, EngineStep, OperatorStep, vars, EngineReady, SelectNext, LeaveLoop,
         SkipBlocked, RefuseNode, MarkRunning, AskForInput, HandlerEnds, SettleNode,
         TakeSnapshot, ActivateTarget, LeaveTargetAlone, PassEdgeOver, ConditionRaises,
         CreateDecision, EndRouting, MaybeAdvancePhase, RegisterBatch, RegisterRaises,
         ReleaseWaitingNode, ActivateResumeNode, OpenEngine, ResolveRequest, Unblock

LEMMA UninterruptedInit == Init => UninterruptedInv
<1> SUFFICES ASSUME Init PROVE UninterruptedInv
  OBVIOUS
<1>1. \A n \in Nodes : nodeStatus[n] = "PENDING" /\ ~Succeeded(n)
  BY DEF Init, Succeeded
<1>2. pc = "idle" /\ openRequests = {} /\ resolvedRequests = {} /\ DOMAIN execs = {}
  BY DEF Init
<1> QED
  BY <1>1, <1>2
     DEF UninterruptedInv, StatusesReturned, EntryFirst, NoRows, EdgesFollowed,
         PassingAskersSucceed, AnswersResume, NoneLeftRunning

LEMMA UninterruptedStep ==
  ASSUME EngineInv, UninterruptedInv, Registered, Undisturbed
  PROVE  UninterruptedInv'
  BY UndisturbedIsNext, ReturnedStep, EntryStep, EdgesStep, PassingStep, ResumeStep, OrphansStep
     DEF UninterruptedInv

\* A command that is never killed is one of the engine's.
LEMMA UninterruptedIsSpec == UninterruptedSpec => Spec
  BY UndisturbedIsNext, PTL DEF UninterruptedSpec, Spec, Undisturbed

LEMMA AlwaysUninterrupted ==
  Registered => (UninterruptedSpec => [](EngineInv /\ UninterruptedInv))
<1> SUFFICES ASSUME Registered PROVE UninterruptedSpec => [](EngineInv /\ UninterruptedInv)
  OBVIOUS
<1>1. EngineInv /\ UninterruptedInv /\ Undisturbed => UninterruptedInv'
  BY UninterruptedStep
<1> QED
  BY UninterruptedInit, <1>1, UninterruptedIsSpec, EngineInvariant, PTL
     DEF UninterruptedSpec, Undisturbed

(***************************************************************************)
(* operator-guide.md, "The graph is resumable at any point", for a command *)
(* nobody kills: if every condition names a predicate that is registered,  *)
(* no edge that always fires is left unfollowed.  A kill is what breaks it *)
(* (NoLostActivation is refuted where the process may die).                *)
(***************************************************************************)
THEOREM NoneIsLostWithoutKills == Registered => (UninterruptedSpec => []NoLostActivation)
<1> SUFFICES ASSUME Registered PROVE UninterruptedSpec => []NoLostActivation
  OBVIOUS
<1>1. ASSUME EngineInv, UninterruptedInv PROVE NoLostActivation
  <2> SUFFICES ASSUME pc = "idle", NEW m \in Nodes, Succeeded(m),
                      NEW i \in DOMAIN Outgoing[m], Outgoing[m][i].condition.name = "always"
               PROVE  nodeStatus[Outgoing[m][i].target] # "PENDING"
    BY DEF NoLostActivation
  <2>1. SureTargets(m) \subseteq Activated
    BY <1>1 DEF UninterruptedInv, EdgesFollowed
  <2>2. Outgoing[m][i].target \in SureTargets(m)
    BY DEF SureTargets
  <2> QED BY <2>1, <2>2 DEF Activated
<1> QED BY <1>1, AlwaysUninterrupted, PTL

(***************************************************************************)
(* recover_stale_running, "their executions are marked CANCELLED": it      *)
(* cancels none, but without kills there is none to cancel.                *)
(***************************************************************************)
THEOREM NoOrphansWithoutKills == UninterruptedSpec => []NoOrphanExecution
<1>1. NoneLeftRunning => NoOrphanExecution
  BY DEF NoneLeftRunning, NoOrphanExecution, InFlight, Running
<1>2. Init => NoneLeftRunning
  BY DEF Init, NoneLeftRunning
<1>3. EngineInv /\ NoneLeftRunning /\ Undisturbed => NoneLeftRunning'
  BY OrphansStep
<1> QED
  BY <1>1, <1>2, <1>3, UninterruptedIsSpec, EngineInvariant, PTL
     DEF UninterruptedSpec, Undisturbed

(***************************************************************************)
(* A stopped assessment.  What assessment_completion has looked at.        *)
(***************************************************************************)
\* The nodes nothing has been decided about.
Left == {n \in Nodes : nodeStatus[n] \in {"PENDING", "READY"}}

LEMMA StoppedRows ==
  ASSUME EngineInv, UninterruptedInv, AssessmentCompletion = "BLOCKED",
         \A n \in Nodes : nodeStatus[n] # "FAILED"
  PROVE  /\ Candidates = {} /\ ~NoRows
         /\ \A n \in Nodes \ (Optional \cup Left) : nodeStatus[n] \in SatisfiedStatuses
         /\ \E n \in Left : n \notin Optional
<1>1. \A n \in Nodes : nodeStatus[n] # "RUNNING" /\ (n \notin Optional => ~Waiting(n))
  BY DEF AssessmentCompletion, Mandatory
<1>2. Candidates = {} /\ \E n \in Nodes \ Optional : nodeStatus[n] \notin SatisfiedStatuses
  BY <1>1 DEF AssessmentCompletion, Mandatory
<1>3. ~NoRows
  BY <1>2 DEF Candidates
<1>4. ASSUME NEW n \in Nodes, n \notin Optional, n \notin Left
      PROVE  nodeStatus[n] \in SatisfiedStatuses
  <2>1. nodeStatus[n] \in NodeStatuses \ {"CANCELLED", "SUPERSEDED"}
    BY DEF EngineInv, TypeOK, RowsOK, UninterruptedInv, StatusesReturned
  <2> QED BY <1>1, <1>4, <2>1 DEF NodeStatuses, SatisfiedStatuses, Left, Waiting
<1> QED BY <1>2, <1>3, <1>4

\* What is left of the assured nodes could not have been left.
LEMMA AssuredAreDone ==
  ASSUME EngineInv, UninterruptedInv, Connected, pc = "idle", Candidates = {}, ~NoRows,
         \A n \in Nodes \ (Optional \cup Left) : nodeStatus[n] \in SatisfiedStatuses
  PROVE  Assured \cap Left = {}
<1> DEFINE U == (Assured \cap Left) \ {Entry}
<1>1. ASSUME NEW m \in Assured, Requires[m] \cap Left = {} PROVE nodeStatus[m] # "READY"
  <2>1. m \in Nodes /\ Requires[m] \subseteq Nodes
    BY GraphAssumption DEF Assured
  <2>2. \A r \in Requires[m] : nodeStatus[r] \in SatisfiedStatuses
    BY <1>1, <2>1 DEF Connected
  <2>3. Join[m] = "any" => Requires[m] # {}
    BY <2>1, <1>1 DEF Connected
  <2>4. PrerequisitesMet(m, nodeStatus)
    BY <2>2, <2>3 DEF PrerequisitesMet
  <2> QED BY <2>1, <2>4 DEF Candidates
<1>2. Entry \in Assured /\ Requires[Entry] = {}
  BY GraphAssumption DEF Assured, Connected
<1>3. Entry \notin Left
  <2>1. nodeStatus[Entry] # "PENDING"
    BY DEF UninterruptedInv, EntryFirst
  <2>2. nodeStatus[Entry] # "READY"
    BY <1>1, <1>2
  <2> QED BY <2>1, <2>2 DEF Left
<1>4. ASSUME U # {} PROVE FALSE
  <2>1. PICK m \in U : /\ Requires[m] \cap U = {}
                       /\ \E n \in Assured \ U : Leads(n, m) /\ ~MaySkip(n)
    <3>1. U \in SUBSET (Assured \ {Entry})
      OBVIOUS
    <3> QED BY <1>4, <3>1 DEF Connected
  <2>2. PICK n \in Assured \ U : Leads(n, m) /\ ~MaySkip(n)
    BY <2>1
  <2>3. n \in Nodes /\ n \notin Left /\ n \notin Optional /\ m \in SureTargets(n)
    BY <1>3, <2>2 DEF Assured, Leads
  <2>4. nodeStatus[n] = "SUCCEEDED"
    BY <2>2, <2>3 DEF SatisfiedStatuses, UninterruptedInv, StatusesReturned
  <2>5. m \in Activated
    <3>1. Succeeded(n) => m \in Activated
      BY <2>3 DEF UninterruptedInv, EdgesFollowed
    <3>2. ~Succeeded(n) => n \in Askers /\ ResumeNode[n] \in Activated
      BY <2>3, <2>4 DEF UninterruptedInv, AnswersResume
    <3>3. ~Succeeded(n) => ~AsksInPassing(n)
      <4>1. n \in Askers /\ ~Succeeded(n) => n \in resolvedRequests
        BY <2>3, <2>4 DEF EngineInv, SuccessBacked
      <4> QED BY <3>2, <4>1 DEF UninterruptedInv, PassingAskersSucceed
    <3> QED BY <2>2, <3>1, <3>2, <3>3 DEF Leads
  <2>6. Requires[m] \cap Left = {}
    <3>1. m \in Nodes /\ Requires[m] \subseteq Assured
      BY <2>1 DEF Assured, Connected
    <3> QED BY <1>3, <2>1, <3>1
  <2>7. nodeStatus[m] = "READY"
    BY <2>5 DEF Left, Activated
  <2> QED BY <1>1, <2>6, <2>7
<1> QED BY <1>3, <1>4

\* And one that is left was led to by a node that was skipped.
LEMMA LeftBySkipped ==
  ASSUME EngineInv, UninterruptedInv, Connected, pc = "idle", Assured \cap Left = {},
         \A n \in Nodes \ (Optional \cup Left) : nodeStatus[n] \in SatisfiedStatuses,
         NEW m \in Nodes \ Optional, nodeStatus[m] = "PENDING"
  PROVE  \E n \in Nodes : nodeStatus[n] = "SKIPPED" /\ m \in Targets(n)
<1>1. m \notin Assured
  BY DEF Left
<1>2. PICK n \in Assured : Leads(n, m)
  BY <1>1 DEF Connected
<1>3. n \in Nodes /\ n \notin Optional /\ m \in SureTargets(n)
  BY <1>2 DEF Assured, Leads
<1>4. nodeStatus[n] \in SatisfiedStatuses
  BY <1>2, <1>3
<1>5. ~Succeeded(n)
  BY <1>3 DEF UninterruptedInv, EdgesFollowed, Activated
<1>6. nodeStatus[n] # "SUCCEEDED"
  <2> SUFFICES ASSUME nodeStatus[n] = "SUCCEEDED" PROVE FALSE
    OBVIOUS
  <2>1. n \in Askers /\ ResumeNode[n] \in Activated /\ n \in resolvedRequests
    BY <1>3, <1>5 DEF UninterruptedInv, AnswersResume, EngineInv, SuccessBacked
  <2>2. ~AsksInPassing(n)
    BY <1>5, <2>1 DEF UninterruptedInv, PassingAskersSucceed
  <2> QED BY <1>2, <2>1, <2>2 DEF Leads, Activated
<1>7. m \in Targets(n)
  BY <1>3 DEF SureTargets, Targets
<1> QED BY <1>3, <1>4, <1>6, <1>7 DEF SatisfiedStatuses

LEMMA StopExplained ==
  ASSUME EngineInv, UninterruptedInv, Connected
  PROVE  StopIsExplained
<1> SUFFICES ASSUME pc = "idle", AssessmentCompletion = "BLOCKED",
                    \A n \in Nodes : nodeStatus[n] # "FAILED"
             PROVE  /\ LeftOut # {}
                    /\ \A m \in LeftOut :
                         \E n \in Nodes : nodeStatus[n] = "SKIPPED" /\ m \in Targets(n)
  BY DEF StopIsExplained
<1>1. /\ Candidates = {} /\ ~NoRows
      /\ \A n \in Nodes \ (Optional \cup Left) : nodeStatus[n] \in SatisfiedStatuses
      /\ \E n \in Left : n \notin Optional
  BY StoppedRows
<1>2. Assured \cap Left = {}
  BY <1>1, AssuredAreDone
<1>3. \A m \in LeftOut : \E n \in Nodes : nodeStatus[n] = "SKIPPED" /\ m \in Targets(n)
  BY <1>1, <1>2, LeftBySkipped DEF LeftOut
<1>4. LeftOut # {}
  <2>1. PICK m \in Nodes \ Optional : m \in Left
    BY <1>1 DEF Left
  <2>2. \A r \in Requires[m] : nodeStatus[r] \in SatisfiedStatuses
    <3>1. Requires[m] \subseteq Assured \ Optional /\ Requires[m] \subseteq Nodes
      BY <2>1, GraphAssumption DEF Connected
    <3> QED BY <1>1, <1>2, <3>1
  <2>3. PrerequisitesMet(m, nodeStatus)
    BY <2>1, <2>2 DEF PrerequisitesMet, Connected
  <2>4. nodeStatus[m] # "READY"
    BY <1>1, <2>1, <2>3 DEF Candidates
  <2> QED BY <2>1, <2>3, <2>4 DEF LeftOut, Left
<1> QED BY <1>3, <1>4

(***************************************************************************)
(* "status shows node states, blockers, open requests" (BACKLOG.md): on a  *)
(* graph whose mandatory part hangs together, an assessment that is BLOCKED *)
(* without a failed node has left mandatory nodes over, and every one of   *)
(* them is the target of a node it skipped, however commands were mixed,   *)
(* answers failed to register and nodes were released, if none was killed. *)
(***************************************************************************)
THEOREM StopsAreExplained == Connected => (UninterruptedSpec => []StopIsExplained)
<1> SUFFICES ASSUME Connected PROVE UninterruptedSpec => []StopIsExplained
  OBVIOUS
<1>1. Registered
  BY DEF Connected
<1>2. EngineInv /\ UninterruptedInv => StopIsExplained
  BY StopExplained
<1> QED BY <1>1, <1>2, AlwaysUninterrupted, PTL

\* The diligent operator kills no command.
LEMMA LiveIsUninterrupted == LiveSpec => UninterruptedSpec
<1>1. [LiveNext]_vars => Undisturbed
  BY DEF LiveNext, Diligent, Undisturbed, OperatorStep
<1> QED BY <1>1, PTL DEF LiveSpec, UninterruptedSpec, Undisturbed

(***************************************************************************)
(* The same under the fairness that the liveness properties assume, which  *)
(* is the specification the runs check it under.                           *)
(***************************************************************************)
THEOREM LiveStopsAreExplained == Connected => (LiveSpec => []StopIsExplained)
  BY StopsAreExplained, LiveIsUninterrupted, PTL

(***************************************************************************)
(* "A node never runs before its requires are SUCCEEDED" (graph/engine.py) *)
(* holds of every execution, not only of the successful ones, as long as   *)
(* nobody runs a node by name, whatever is killed, held or released.       *)
(***************************************************************************)
THEOREM OrderlyRunsArePrepared == Orderly => (Spec => []NeverRunsUnprepared)
<1>1. PlanInv => NeverRunsUnprepared
  BY DEF PlanInv, CommandInOrder, NeverRunsUnprepared, InFlight, Running
<1> QED BY <1>1, PlanAlways, PTL

(***************************************************************************)
(* "SUCCEEDED nodes are never re-run" (operator-guide.md), where an answer *)
(* resumes another node than the one that asked.                           *)
(***************************************************************************)
THEOREM OrderlySuccessIsFinal == Orderly => (Spec => SucceededIsFinal)
<1> SUFFICES ASSUME Orderly PROVE Spec => SucceededIsFinal
  OBVIOUS
<1>1. ASSUME EngineInv, PlanInv, [Next]_vars, NEW n \in Nodes, nodeStatus[n] = "SUCCEEDED"
      PROVE  nodeStatus'[n] = "SUCCEEDED"
  <2> USE <1>1
  <2>1. n \in Satisfied
    BY DEF Satisfied, SatisfiedStatuses
  <2>2. n \in Satisfied'
    BY <2>1, PlanStep, PlanGrows
  <2>3. nodeStatus'[n] \in SatisfiedStatuses
    BY <2>2 DEF Satisfied
  <2>4. pc = "settle" => n # cur
    BY DEF PlanInv, CommandInOrder, InFlight, Running
  <2> QED BY <2>3, <2>4, StatusStep DEF SatisfiedStatuses
<1>2. EngineInv /\ PlanInv /\ [Next]_vars =>
        [\A n \in Nodes : nodeStatus[n] = "SUCCEEDED" => nodeStatus'[n] = "SUCCEEDED"]_vars
  BY <1>1
<1> QED BY <1>2, EngineInvariant, PlanAlways, PTL DEF Spec, SucceededIsFinal

(***************************************************************************)
(* Waiting for input.                                                      *)
(***************************************************************************)
CompleteAnswers == UninterruptedSpec /\ [][~RegisterRaises]_vars

LEMMA AskingKept ==
  ASSUME [Next]_vars, pc' = "asked"
  PROVE  AskForInput \/ (pc = "asked" /\ cur' = cur)
  BY DEF Next, EngineStep, OperatorStep, Issue, Goto, EndCommand, ReturnFromRunNode, vars,
         locals, RecoverStaleRunning, EngineReady, SelectNext, LeaveLoop, SkipBlocked,
         RefuseNode, CreateExecution, MarkRunning, AskForInput, HandlerEnds, FinishExecution,
         SettleNode, TakeSnapshot, ActivateTarget, LeaveTargetAlone, PassEdgeOver,
         ConditionRaises, CreateDecision, EndRouting, MaybeAdvancePhase, RegisterBatch,
         RegisterRaises, ReleaseWaitingNode, ActivateResumeNode, OpenEngine, ResolveRequest,
         Unblock, Crash

\* A request is closed only by the answer that goes on to release its node.
LEMMA OpenKept ==
  ASSUME [Next]_vars, NEW n, n \in openRequests, n \notin openRequests'
  PROVE  pc = "idle" /\ pc' = "register" /\ cur' = n
  BY DEF Next, EngineStep, OperatorStep, Issue, Goto, vars, requestRows, RecoverStaleRunning,
         EngineReady, SelectNext, LeaveLoop, SkipBlocked, RefuseNode, CreateExecution,
         MarkRunning, AskForInput, HandlerEnds, FinishExecution, SettleNode, TakeSnapshot,
         ActivateTarget, LeaveTargetAlone, PassEdgeOver, ConditionRaises, CreateDecision,
         EndRouting, MaybeAdvancePhase, RegisterBatch, RegisterRaises, ReleaseWaitingNode,
         ActivateResumeNode, OpenEngine, ResolveRequest, Unblock, Crash

\* An answer whose registration does not raise gets to the release.
LEMMA AnswerGoesOn ==
  ASSUME Undisturbed, pc \in {"register", "release"}
  PROVE  \/ RegisterBatch \/ RegisterRaises \/ ReleaseWaitingNode \/ UNCHANGED vars
  BY DEF Undisturbed, EngineStep, OperatorStep, Issue, RecoverStaleRunning, EngineReady,
         SelectNext, LeaveLoop, SkipBlocked, RefuseNode, CreateExecution, MarkRunning,
         AskForInput, HandlerEnds, FinishExecution, SettleNode, TakeSnapshot,
         ActivateTarget, LeaveTargetAlone, PassEdgeOver, ConditionRaises, CreateDecision,
         EndRouting, MaybeAdvancePhase, ActivateResumeNode, OpenEngine, ResolveRequest,
         Unblock

LEMMA WaitingStep ==
  ASSUME EngineInv, WaitingIsAsked, WaitsOnlyAsked, Undisturbed, [~RegisterRaises]_vars
  PROVE  WaitingIsAsked'
<1> USE EngineParts, UndisturbedIsNext
<1>1. ASSUME pc' = "asked" PROVE cur' \in openRequests'
  <2>1. CASE AskForInput
    BY <2>1 DEF AskForInput, locals
  <2> QED BY <1>1, <2>1, AskingKept, OpenKept DEF WaitingIsAsked
<1>2. ASSUME pc' \in {"finish", "settle"}, outcome' = "waiting_for_input"
      PROVE  cur' \in openRequests'
  <2>1. CASE HandlerEnds
    <3>1. pc = "asked" /\ cur' = cur /\ openRequests' = openRequests
      BY <1>2, <2>1 DEF HandlerEnds, WaitsOnlyAsked, requestRows
    <3> QED BY <3>1 DEF WaitingIsAsked
  <2>2. CASE UNCHANGED <<outcome, cur>> /\ pc \in {"finish", "settle"}
    BY <1>2, <2>2, OpenKept DEF WaitingIsAsked
  <2> QED BY <1>2, <2>1, <2>2, OutcomeKept
<1>3. ASSUME NEW n \in Nodes, nodeStatus'[n] = "WAITING_FOR_INPUT"
      PROVE  n \in openRequests' \/ (cur' = n /\ pc' \in {"register", "release"})
  <2>1. n \in openRequests \/ (cur = n /\ pc \in {"register", "release"})
    <3>1. CASE nodeStatus[n] = "WAITING_FOR_INPUT"
      BY <3>1 DEF WaitingIsAsked
    <3>2. CASE nodeStatus[n] # "WAITING_FOR_INPUT"
      <4>1. n = cur /\ pc = "settle" /\ PersistedStatus(outcome) = "WAITING_FOR_INPUT"
        BY <1>3, <3>2, StatusStep
      <4>2. outcome = "waiting_for_input"
        BY <4>1 DEF PersistedStatus
      <4> QED BY <4>1, <4>2 DEF WaitingIsAsked
    <3> QED BY <3>1, <3>2
  <2>2. CASE n \in openRequests
    BY <2>2, OpenKept
  <2>3. CASE n \notin openRequests
    <3>1. cur = n /\ pc \in {"register", "release"}
      BY <2>1, <2>3
    <3>2. CASE RegisterBatch
      BY <3>1, <3>2 DEF RegisterBatch, Goto, locals
    <3>3. CASE ReleaseWaitingNode
      BY <1>3, <3>1, <3>3, UpsertStatus DEF ReleaseWaitingNode, nodeRow
    <3>4. CASE UNCHANGED vars
      BY <3>1, <3>4 DEF vars, locals
    <3> QED BY <3>1, <3>2, <3>3, <3>4, AnswerGoesOn
  <2> QED BY <2>2, <2>3
<1> QED BY <1>1, <1>2, <1>3 DEF WaitingIsAsked

(***************************************************************************)
(* state-and-persistence.md, WAITING_FOR_INPUT is "blocked on human        *)
(* request": between commands there is an open request behind every node   *)
(* that waits, if no command is killed, no registration of an answer       *)
(* raises, and no handler waits without asking.  Each of the three is      *)
(* needed: without it TLC finds a node that waits for ever.                *)
(***************************************************************************)
THEOREM WaitingNodesAsked == WaitsOnlyAsked => (CompleteAnswers => []WaitingHasRequest)
<1> SUFFICES ASSUME WaitsOnlyAsked PROVE CompleteAnswers => []WaitingHasRequest
  OBVIOUS
<1>1. Init => WaitingIsAsked
  BY DEF Init, WaitingIsAsked
<1>2. EngineInv /\ WaitingIsAsked /\ Undisturbed /\ [~RegisterRaises]_vars => WaitingIsAsked'
  BY WaitingStep
<1>3. WaitingIsAsked => WaitingHasRequest
  BY DEF WaitingIsAsked, WaitingHasRequest
<1> QED
  BY <1>1, <1>2, <1>3, UninterruptedIsSpec, EngineInvariant, PTL
     DEF CompleteAnswers, UninterruptedSpec, Undisturbed

(***************************************************************************)
(* What an attempt is used up by.                                          *)
(***************************************************************************)
LEMMA IndexesAreFinite ==
  ASSUME NEW s \in Seq(Executions), NEW E, E \subseteq DOMAIN s
  PROVE  IsFiniteSet(E) /\ Cardinality(E) \in Nat
<1>1. Len(s) \in Nat /\ DOMAIN s = 1..Len(s)
  OBVIOUS
<1>2. IsFiniteSet(1..Len(s))
  BY <1>1, FS_Interval
<1> QED BY <1>1, <1>2, FS_Subset, FS_CardinalityType

\* No step reopens an execution that ended.
LEMMA EndedGrows ==
  ASSUME EngineInv, [Next]_vars, NEW n
  PROVE  Ended(n) \subseteq Ended(n)'
<1> USE EngineParts
<1>1. ASSUME NEW m \in Nodes, RecoverStaleRunning(m) PROVE Ended(n) \subseteq Ended(n)'
  BY <1>1 DEF RecoverStaleRunning, Ended
<1>2. CASE CreateExecution
  <2>1. execs \in Seq(Executions)
    BY DEF TypeInv, TypeOK
  <2> QED BY <1>2, <2>1 DEF CreateExecution, Ended
<1>3. CASE FinishExecution
  <2>1. execs[curExec].status = "RUNNING"
    BY <1>3 DEF FinishExecution, AttemptsInv, ExecutionInProgress, InFlight, Running
  <2> QED BY <1>3, <2>1 DEF FinishExecution, Ended
<1>4. CASE UNCHANGED execs
  BY <1>4 DEF Ended
<1> QED
  BY <1>1, <1>2, <1>3, <1>4
     DEF Next, EngineStep, OperatorStep, vars, EngineReady, SelectNext, LeaveLoop, SkipBlocked,
         RefuseNode, MarkRunning, AskForInput, HandlerEnds, SettleNode, TakeSnapshot,
         ActivateTarget, LeaveTargetAlone, PassEdgeOver, ConditionRaises, CreateDecision,
         EndRouting, MaybeAdvancePhase, RegisterBatch, RegisterRaises, ReleaseWaitingNode,
         ActivateResumeNode, OpenEngine, ResolveRequest, Unblock, Crash

\* Which steps write the count of a row.
LEMMA CountsStep ==
  ASSUME EngineInv, [Next]_vars, NEW n \in Nodes, attempts'[n] # attempts[n]
  PROVE  /\ n = cur
         /\ \/ MarkRunning /\ attempts'[n] = attempts[n] + 1
            \/ SettleNode /\ attempts'[n] = AttemptsAfter(outcome, attempts[n])
<1> USE EngineParts
<1> DEFINE Known ==
      /\ n = cur
      /\ \/ MarkRunning /\ attempts'[n] = attempts[n] + 1
         \/ SettleNode /\ attempts'[n] = AttemptsAfter(outcome, attempts[n])
<1>1. CASE MarkRunning
  <2>1. execs[curExec].attempt = attempts[cur] + 1
    BY <1>1 DEF MarkRunning, AttemptsInv, ExecutionInProgress, InFlight
  <2> QED BY <1>1, <2>1 DEF MarkRunning, Upsert, TypeInv, TypeOK, RowsOK
<1>2. CASE SettleNode
  <2>1. execs[curExec].attempt = attempts[cur]
    BY <1>2 DEF SettleNode, AttemptsInv, ExecutionInProgress, InFlight, Running
  <2> QED BY <1>2, <2>1 DEF SettleNode, Upsert, TypeInv, TypeOK, RowsOK
<1>3. ASSUME NEW m \in Nodes, RecoverStaleRunning(m) \/ Unblock(m) PROVE Known
  BY <1>3, UpsertKeepsAttempts DEF RecoverStaleRunning, Unblock, AttemptsOnUnblock
<1>4. CASE ActivateTarget
  BY <1>4, NextRoute, UpsertKeepsAttempts DEF ActivateTarget
<1>5. CASE ReleaseWaitingNode
  BY <1>5, UpsertKeepsAttempts DEF ReleaseWaitingNode, nodeRow
<1>6. CASE ActivateResumeNode
  <2>1. ResumeNode[cur] \in Nodes
    BY EngineAssumption
  <2> QED BY <1>6, <2>1, UpsertKeepsAttempts DEF ActivateResumeNode
<1>7. ASSUME NEW c \in {"start", "run", "inspect"}, NEW m \in Nodes, OpenEngine(c, m)
      PROVE  Known
  BY <1>7, UpsertKeepsAttempts, GraphAssumption DEF OpenEngine, nodeRow
<1>8. CASE UNCHANGED attempts
  BY <1>8
<1> QED
  BY <1>1, <1>2, <1>3, <1>4, <1>5, <1>6, <1>7, <1>8
     DEF Next, EngineStep, OperatorStep, vars, nodeRow, EngineReady, SelectNext, LeaveLoop,
         SkipBlocked, RefuseNode, CreateExecution, AskForInput, HandlerEnds, FinishExecution,
         TakeSnapshot, LeaveTargetAlone, PassEdgeOver, ConditionRaises, CreateDecision,
         EndRouting, MaybeAdvancePhase, RegisterBatch, RegisterRaises, ResolveRequest, Crash

\* Nothing but its end takes an execution out of the handler.
LEMMA HandlerGoesOn ==
  ASSUME Undisturbed, pc \in {"execute", "asked", "finish"}
  PROVE  /\ cur' = cur
         /\ \/ pc' \in {"execute", "asked", "finish"}
            \/ FinishExecution
  BY DEF Undisturbed, EngineStep, OperatorStep, Issue, Goto, vars, locals,
         RecoverStaleRunning, EngineReady, SelectNext, LeaveLoop, SkipBlocked, RefuseNode,
         CreateExecution, MarkRunning, AskForInput, HandlerEnds, FinishExecution, SettleNode,
         TakeSnapshot, ActivateTarget, LeaveTargetAlone, PassEdgeOver, ConditionRaises,
         CreateDecision, EndRouting, MaybeAdvancePhase, RegisterBatch, RegisterRaises,
         ReleaseWaitingNode, ActivateResumeNode, OpenEngine, ResolveRequest, Unblock

LEMMA EndedStep ==
  ASSUME EngineInv, AttemptsWereEnded, Undisturbed
  PROVE  AttemptsWereEnded'
<1> USE EngineParts, UndisturbedIsNext
<1> DEFINE Working(n) == cur = n /\ pc \in {"execute", "asked", "finish"}
<1> SUFFICES ASSUME NEW n \in Nodes
             PROVE  attempts'[n] <= Cardinality(Ended(n)') + (IF Working(n)' THEN 1 ELSE 0)
  BY DEF AttemptsWereEnded
<1>1. TypeInv'
  BY TypeStep
<1>2. /\ IsFiniteSet(Ended(n)) /\ Cardinality(Ended(n)) \in Nat
      /\ IsFiniteSet(Ended(n)') /\ Cardinality(Ended(n)') \in Nat
      /\ attempts[n] \in Nat /\ attempts'[n] \in Nat
  <2>1. execs \in Seq(Executions) /\ Ended(n) \subseteq DOMAIN execs
    BY DEF TypeInv, TypeOK, Ended
  <2>2. execs' \in Seq(Executions) /\ Ended(n)' \subseteq DOMAIN execs'
    BY <1>1 DEF TypeInv, TypeOK, Ended
  <2>3. attempts[n] \in Nat /\ attempts'[n] \in Nat
    BY <1>1 DEF TypeInv, TypeOK, RowsOK
  <2> QED BY <2>1, <2>2, <2>3, IndexesAreFinite
<1>3. Cardinality(Ended(n)) <= Cardinality(Ended(n)')
  BY <1>2, EndedGrows, FS_Subset
<1>4. attempts[n] <= Cardinality(Ended(n)) + (IF Working(n) THEN 1 ELSE 0)
  BY DEF AttemptsWereEnded
<1>5. CASE attempts'[n] # attempts[n]
  <2>1. CASE n = cur /\ MarkRunning /\ attempts'[n] = attempts[n] + 1
    <3>1. Working(n)' /\ ~Working(n)
      BY <2>1 DEF MarkRunning, Goto, locals
    <3> QED BY <1>2, <1>3, <1>4, <2>1, <3>1
  <2>2. CASE n = cur /\ SettleNode /\ attempts'[n] = AttemptsAfter(outcome, attempts[n])
    <3>1. ~Working(n)
      BY <2>2 DEF SettleNode
    <3>2. attempts'[n] <= attempts[n]
      BY <1>2, <2>2 DEF AttemptsAfter
    <3> QED BY <1>2, <1>3, <1>4, <3>1, <3>2
  <2> QED BY <1>5, <2>1, <2>2, CountsStep
<1>6. CASE attempts'[n] = attempts[n] /\ (~Working(n) \/ Working(n)')
  BY <1>2, <1>3, <1>4, <1>6
<1>7. CASE attempts'[n] = attempts[n] /\ Working(n) /\ ~Working(n)'
  <2>1. FinishExecution /\ cur = n
    BY <1>7, HandlerGoesOn
  <2>2. /\ curExec \in DOMAIN execs /\ execs[curExec].node = cur
        /\ execs[curExec].status = "RUNNING"
    BY <2>1, CurrentExecution
       DEF FinishExecution, AttemptsInv, ExecutionInProgress, InFlight, Running, TypeInv, TypeOK
  <2>3. PersistedStatus(outcome) \notin {"RUNNING", "CANCELLED"}
    BY DEF PersistedStatus
  <2>4. Ended(n)' = Ended(n) \cup {curExec} /\ curExec \notin Ended(n)
    BY <2>1, <2>2, <2>3 DEF FinishExecution, Finished, Ended
  <2>5. Cardinality(Ended(n)') = Cardinality(Ended(n)) + 1
    BY <1>2, <2>4, FS_AddElement
  <2> QED BY <1>2, <1>4, <1>7, <2>5
<1> QED BY <1>5, <1>6, <1>7

(***************************************************************************)
(* recover_stale_running, "attempt not consumed": between nodes, a row     *)
(* counts no more attempts than executions of its node that ended, if no   *)
(* command is killed.  It is the kill that uses one up.                    *)
(***************************************************************************)
THEOREM OnlyEndedCountWithoutKills == UninterruptedSpec => []CrashConsumesNoAttempt
<1>1. Init => AttemptsWereEnded
  <2> SUFFICES ASSUME Init, NEW n \in Nodes
               PROVE  attempts[n] = 0 /\ Cardinality(Ended(n)) = 0 /\ pc = "idle"
    BY DEF AttemptsWereEnded
  <2>1. Ended(n) = {}
    BY DEF Init, Ended
  <2> QED BY <2>1, FS_EmptySet DEF Init
<1>2. EngineInv /\ AttemptsWereEnded /\ Undisturbed => AttemptsWereEnded'
  BY EndedStep
<1>3. ASSUME EngineInv, AttemptsWereEnded PROVE CrashConsumesNoAttempt
  <2> SUFFICES ASSUME pc = "select", NEW n \in Nodes
               PROVE  attempts[n] <= Cardinality(Ended(n))
    BY DEF CrashConsumesNoAttempt, Ended
  <2>1. attempts[n] \in Nat /\ Cardinality(Ended(n)) \in Nat
    BY <1>3, EngineParts, IndexesAreFinite DEF TypeInv, TypeOK, RowsOK, Ended
  <2> QED BY <1>3, <2>1 DEF AttemptsWereEnded
<1> QED
  BY <1>1, <1>2, <1>3, UninterruptedIsSpec, EngineInvariant, PTL
     DEF UninterruptedSpec, Undisturbed

(***************************************************************************)
(* Transitions.                                                            *)
(***************************************************************************)
LEMMA LoopStep ==
  ASSUME TypeInv, TransitionsCounted, CyclesHardBounded, CycleBound \in Nat, [Next]_vars
  PROVE  TransitionsCounted' /\ CyclesHardBounded'
<1> DEFINE Fresh == pc' = "idle" /\ mode' = "inspect" /\ steps' = 0
<1>a. /\ steps \in Nat /\ MaxSteps \in Nat
      /\ CycleBound' = CycleBound /\ CycleBound \in Nat
  BY EngineAssumption DEF TypeInv, TypeOK, CommandOK, CycleBound
<1> HIDE DEF CycleBound
<1>b. ASSUME steps' = 0, mode' = "start" => pc' \in {"recover", "select"},
             pc' = "idle" => mode' = "inspect"
      PROVE  TransitionsCounted' /\ CyclesHardBounded'
  BY <1>a, <1>b DEF TransitionsCounted, CyclesHardBounded
<1>c. \A how : EndCommand(how) => TransitionsCounted' /\ CyclesHardBounded'
  BY <1>b DEF EndCommand
<1>d. ASSUME UNCHANGED <<mode, steps>>, pc' # "idle", pc' # "recover",
             mode = "start" => pc \notin {"idle", "recover", "select"}
      PROVE  TransitionsCounted' /\ CyclesHardBounded'
  BY <1>a, <1>d DEF TransitionsCounted, CyclesHardBounded, LoopMayContinue
<1>e. ASSUME ReturnFromRunNode, pc \notin {"idle", "recover", "select"}
      PROVE  TransitionsCounted' /\ CyclesHardBounded'
  <2>1. CASE mode = "start"
    <3>1. steps' = steps + 1 /\ mode' = mode /\ pc' = "select" /\ LoopMayContinue
      BY <1>e, <2>1 DEF ReturnFromRunNode, Goto, TransitionsCounted
    <3> QED
      BY <1>a, <2>1, <3>1 DEF TransitionsCounted, CyclesHardBounded, LoopMayContinue
  <2> QED BY <1>c, <1>e, <2>1 DEF ReturnFromRunNode
<1>1. ASSUME NEW n \in Nodes, RecoverStaleRunning(n)
      PROVE  TransitionsCounted' /\ CyclesHardBounded'
  BY <1>1, <1>a
     DEF RecoverStaleRunning, locals, TransitionsCounted, CyclesHardBounded, LoopMayContinue
<1>2. CASE EngineReady
  BY <1>2, <1>b, <1>c DEF EngineReady, Goto, locals, TransitionsCounted
<1>3. CASE SelectNext
  BY <1>3, <1>a
     DEF SelectNext, Goto, TransitionsCounted, CyclesHardBounded, LoopMayContinue
<1>4. CASE LeaveLoop \/ RefuseNode \/ ConditionRaises \/ RegisterRaises
           \/ ActivateResumeNode \/ Crash
  BY <1>4, <1>c
     DEF LeaveLoop, RefuseNode, ConditionRaises, RegisterRaises, ActivateResumeNode, Crash
<1>5. CASE SkipBlocked \/ MaybeAdvancePhase
  BY <1>5, <1>e DEF SkipBlocked, MaybeAdvancePhase
<1>6. CASE SettleNode
  BY <1>6, <1>d, <1>e DEF SettleNode, Goto, locals
<1>7. CASE CreateExecution \/ MarkRunning \/ AskForInput \/ HandlerEnds \/ FinishExecution
           \/ TakeSnapshot \/ ActivateTarget \/ LeaveTargetAlone \/ PassEdgeOver
           \/ CreateDecision \/ EndRouting \/ RegisterBatch \/ ReleaseWaitingNode
  BY <1>7, <1>d
     DEF CreateExecution, MarkRunning, AskForInput, HandlerEnds, FinishExecution,
         TakeSnapshot, ActivateTarget, LeaveTargetAlone, PassEdgeOver, CreateDecision,
         EndRouting, RegisterBatch, ReleaseWaitingNode, Goto, locals
<1>8. ASSUME NEW c \in {"start", "run", "inspect"}, NEW n \in Nodes, OpenEngine(c, n)
      PROVE  TransitionsCounted' /\ CyclesHardBounded'
  BY <1>8, <1>b DEF OpenEngine, Issue, Goto, TransitionsCounted
<1>9. ASSUME NEW n \in Nodes, ResolveRequest(n)
      PROVE  TransitionsCounted' /\ CyclesHardBounded'
  BY <1>9, <1>b DEF ResolveRequest, Issue, Goto, TransitionsCounted
<1>10. ASSUME NEW n \in Nodes, Unblock(n)
       PROVE  TransitionsCounted' /\ CyclesHardBounded'
  BY <1>10, <1>b DEF Unblock, Issue, locals, TransitionsCounted
<1>11. CASE UNCHANGED vars
  BY <1>11, <1>a
     DEF vars, locals, TransitionsCounted, CyclesHardBounded, LoopMayContinue
<1> QED
  BY <1>1, <1>2, <1>3, <1>4, <1>5, <1>6, <1>7, <1>8, <1>9, <1>10, <1>11
     DEF Next, EngineStep, OperatorStep

(***************************************************************************)
(* "... and cycles are hard-bounded" (graph/engine.py): no command takes   *)
(* more transitions than either bound of a finite graph allows, the one    *)
(* it takes before it looks at the cycle bound excepted.                   *)
(***************************************************************************)
THEOREM CyclesAreBounded == IsFiniteSet(Nodes) => (Spec => []CyclesHardBounded)
<1> SUFFICES ASSUME IsFiniteSet(Nodes) PROVE Spec => []CyclesHardBounded
  OBVIOUS
<1>1. CycleBound \in Nat
  BY FS_CardinalityType, EngineAssumption DEF CycleBound
<1>2. Init => TransitionsCounted /\ CyclesHardBounded
  BY EngineAssumption DEF Init, IdleLocals, TransitionsCounted, CyclesHardBounded
<1>3. TypeInv /\ TransitionsCounted /\ CyclesHardBounded /\ [Next]_vars =>
        TransitionsCounted' /\ CyclesHardBounded'
  BY <1>1, LoopStep
<1> QED BY <1>2, <1>3, TypeInit, TypeStep, PTL DEF Spec

==============================================================================
