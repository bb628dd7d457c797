----------------------- MODULE GraphEngineInvariants -----------------------
(***************************************************************************)
(* What is true of the engine at every point of a command.  The properties *)
(* follow from it and it is inductive, which they are not: they say        *)
(* nothing of the locals a step between two writes relies on.              *)
(***************************************************************************)
EXTENDS GraphEngineProperties

Running == {"execute", "asked", "finish", "settle"}
Routing == {"snapshot", "route", "decide"}
Answering == {"register", "release", "resume"}
InFlight == Running \cup {"mark"}

\* The locals a step reads are there.
LocalsReady ==
  /\ pc \in InFlight => curExec \in DOMAIN execs
  /\ pc = "decide" => todo # <<>>
  /\ pc \in Answering => cur \in Askers

\* The execution in progress belongs to the current node and is the only one
\* that may still use up the attempt it carries.
ExecutionInProgress ==
  pc \in InFlight =>
    /\ execs[curExec].node = cur
    /\ execs[curExec].attempt = IF pc = "mark" THEN attempts[cur] + 1 ELSE attempts[cur]
    /\ execs[curExec].status =
         IF pc = "settle" THEN PersistedStatus(outcome) ELSE "RUNNING"
    /\ \A i \in DOMAIN execs \ {curExec} :
         Consumed(i) /\ execs[i].node = cur => execs[i].attempt < execs[curExec].attempt

\* No execution has used up an attempt its row does not count.
AttemptsCounted ==
  \A i \in DOMAIN execs : Consumed(i) => execs[i].attempt <= attempts[execs[i].node]

\* Nothing but the current node of a command in its run_node is RUNNING.
NothingElseRuns ==
  /\ \A m, n \in Nodes :
       nodeStatus[m] = "RUNNING" /\ nodeStatus[n] = "RUNNING" => m = n
  /\ pc \in Running => nodeStatus[cur] = "RUNNING"
  /\ pc \in Routing \cup {"select", "begin", "mark", "advance"} =>
       \A n \in Nodes : nodeStatus[n] # "RUNNING"

\* The command knows why it writes what it writes.
CommandJustified ==
  /\ pc \in InFlight => cur = Entry \/ nodeStatus[cur] # "PENDING"
  /\ pc \in Routing => Succeeded(cur)
  /\ pc \in {"route", "decide"} =>
       \A i \in DOMAIN todo : todo[i].target \in Targets(cur)
  /\ pc = "decide" =>
       (Head(todo).verdict = "taken" => nodeStatus[Head(todo).target] # "PENDING")
  /\ pc \in Answering => cur \in resolvedRequests

\* The loop of run() counts its transitions; a command that is about to run a
\* node has looked at the bounds.
TransitionsCounted ==
  /\ pc = "idle" => mode = "inspect"
  /\ pc = "recover" \/ mode # "start" => steps = 0
  /\ mode = "start" /\ pc \notin {"recover", "select"} => LoopMayContinue

EngineInv ==
  /\ TypeOK /\ LocalsReady
  /\ ExecutionInProgress /\ AttemptsCounted /\ AttemptsHardBounded
  /\ NothingElseRuns
  /\ CommandJustified /\ ActivationBacked /\ SuccessBacked /\ DecisionsBacked

(***************************************************************************)
(* Why a phase goes back by a rerun only: the phase is the one after a     *)
(* gate that was executed, and what is reached through a gate alone was    *)
(* never executed before that gate had succeeded.                          *)
(***************************************************************************)
Asked == openRequests \cup resolvedRequests
Executed(n) == \E i \in DOMAIN execs : execs[i].node = n

SucceededBefore(g, j) ==
  \E i \in DOMAIN execs : i < j /\ execs[i].node = g /\ execs[i].status = "SUCCEEDED"

PhasesInOrder ==
  /\ \A n \in Asked : Executed(n)
  /\ pc \in InFlight \cup Routing \cup {"advance"} =>
       curExec \in DOMAIN execs /\ curExec = Len(execs) /\ execs[curExec].node = cur
  /\ phase # 0 => \E h \in PhaseGates : Executed(h) /\ phase = PhaseOf[h] + 1
  /\ \A g \in PhaseGates, U \in SUBSET Nodes : OnlyThrough(g, U) =>
       \A j \in DOMAIN execs : execs[j].node \in U => SucceededBefore(g, j)

=============================================================================
