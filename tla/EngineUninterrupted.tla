------------------------- MODULE EngineUninterrupted -------------------------
(***************************************************************************)
(* The engine while the machine stays up.  Several statements of the       *)
(* documents fail only because a process can be killed between two writes  *)
(* of one command: without kills they hold, on the graphs described here.  *)
(***************************************************************************)
EXTENDS GraphEngineRefinement, EngineReports

\* Every command runs to its end.
UninterruptedSpec == Init /\ [][EngineStep \/ OperatorStep]_vars

(***************************************************************************)
(* The graphs.                                                             *)
(***************************************************************************)
\* No edge names a predicate the registry does not hold.
Registered ==
  \A n \in Nodes : \A i \in DOMAIN Outgoing[n] :
    Outgoing[n][i].condition.name # "unregistered"

SureTargets(n) ==
  {Outgoing[n][i].target : i \in {j \in DOMAIN Outgoing[n] :
                                    Outgoing[n][j].condition.name = "always"}}

\* An asker whose handler always succeeds routes before it is answered; any
\* other may only be released, which activates its resume node alone.
AsksInPassing(n) == AskedOutcomes[n] \subseteq {"success"}

\* Once n is satisfied without having been skipped, m has been activated; and
\* the assessment is not done before n is.
Leads(n, m) ==
  /\ n \notin Optional
  /\ m \in SureTargets(n)
  /\ n \in Askers => AsksInPassing(n) \/ ResumeNode[n] = m

MaySkip(n) == "skipped" \in Outcomes[n] \cup AskedOutcomes[n]

\* Some node that is never skipped leads to it.
Assured == {m \in Nodes : m = Entry \/ \E n \in Nodes : Leads(n, m) /\ ~MaySkip(n)}

(***************************************************************************)
(* A graph whose mandatory part hangs together: the entry leads, through   *)
(* nodes that are never skipped and in an order that respects what they    *)
(* require (no set of nodes away from the entry is closed), to every       *)
(* assured node; nothing but assured mandatory nodes is required; and the  *)
(* other mandatory nodes are one edge away.                                *)
(***************************************************************************)
Connected ==
  /\ Registered
  /\ Requires[Entry] = {}
  /\ \A m \in Nodes :
       m \in Assured \/ m \notin Optional =>
         /\ Requires[m] \subseteq Assured \ Optional
         /\ Join[m] = "any" => Requires[m] # {}
  /\ \A m \in Nodes \ (Assured \cup Optional) : \E n \in Assured : Leads(n, m)
  /\ \A U \in SUBSET (Assured \ {Entry}) :
       U # {} => \E m \in U :
         /\ Requires[m] \cap U = {}
         /\ \E n \in Assured \ U : Leads(n, m) /\ ~MaySkip(n)

(***************************************************************************)
(* What is true at every point of a command that is not killed.            *)
(***************************************************************************)
\* The row of a node that ran says what a handler of it may return.
StatusesReturned ==
  /\ \A n \in Nodes :
       /\ nodeStatus[n] \notin {"CANCELLED", "SUPERSEDED"}
       /\ nodeStatus[n] = "SKIPPED" => MaySkip(n)
  /\ pc \in {"finish", "settle"} => outcome \in Outcomes[cur] \cup AskedOutcomes[cur]

EntryFirst ==
  nodeStatus[Entry] = "PENDING" =>
    pc = "idle" /\ NoRows /\ openRequests = {}

\* No condition raises, and an edge that always fires is followed: its target
\* has been activated or the command in progress is going to.
EdgesFollowed ==
  /\ pc \in {"route", "decide"} => \A i \in DOMAIN todo : todo[i].verdict # "raises"
  /\ \A n \in Nodes : Succeeded(n) =>
       \/ SureTargets(n) \subseteq Activated
       \/ /\ cur = n
          /\ \/ pc = "settle" /\ outcome = "success"
             \/ pc = "snapshot"
             \/ /\ pc \in {"route", "decide"}
                /\ \A t \in SureTargets(n) \ Activated : \E i \in DOMAIN todo :
                     todo[i].target = t /\ todo[i].verdict = "taken"

\* A node that asks in passing has succeeded before it can be answered.
PassingAskersSucceed ==
  \A n \in Askers :
    n \in openRequests \cup resolvedRequests /\ AsksInPassing(n) =>
      \/ Succeeded(n)
      \/ cur = n /\ (pc = "asked" \/ (pc = "finish" /\ outcome = "success"))

\* A node that was answered instead of succeeding has its resume node activated.
AnswersResume ==
  \A n \in Nodes :
    nodeStatus[n] = "SUCCEEDED" =>
      \/ Succeeded(n)
      \/ n \in Askers /\ (ResumeNode[n] \in Activated \/ (pc = "resume" /\ cur = n))

\* The only execution that is RUNNING is the one the command is working on.
NoneLeftRunning ==
  \A i \in DOMAIN execs :
    execs[i].status = "RUNNING" => i = curExec /\ pc \in InFlight \ {"settle"}

UninterruptedInv ==
  /\ StatusesReturned /\ EntryFirst /\ EdgesFollowed
  /\ PassingAskersSucceed /\ AnswersResume /\ NoneLeftRunning

(***************************************************************************)
(* Two more statements, and what they need beside.                         *)
(***************************************************************************)
\* No handler waits for input it has not asked for.
WaitsOnlyAsked == \A n \in Nodes : "waiting_for_input" \notin Outcomes[n]

\* A node that waits has its request, or the answer to it is being applied.
WaitingIsAsked ==
  /\ \A n \in Nodes : nodeStatus[n] = "WAITING_FOR_INPUT" =>
       n \in openRequests \/ (cur = n /\ pc \in {"register", "release"})
  /\ pc = "asked" => cur \in openRequests
  /\ pc \in {"finish", "settle"} /\ outcome = "waiting_for_input" => cur \in openRequests

\* A row counts the executions that ended and the one in progress.
Ended(n) == {i \in DOMAIN execs :
  execs[i].node = n /\ execs[i].status \notin {"RUNNING", "CANCELLED"}}

AttemptsWereEnded ==
  \A n \in Nodes :
    attempts[n] <= Cardinality(Ended(n)) +
      (IF cur = n /\ pc \in {"execute", "asked", "finish"} THEN 1 ELSE 0)

=============================================================================
