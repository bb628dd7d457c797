-------------------------- MODULE AgentInvocation --------------------------
(***************************************************************************)
(* One agent node: _execute_opencode of graph/engine.py with the adapter   *)
(* and the envelope validation of opencode_adapter/, the part of run_node  *)
(* that finishes its execution, and the commands that bring it back.  The  *)
(* command line program it calls may hang, refuse, run out of quota or     *)
(* print anything.                                                         *)
(***************************************************************************)
EXTENDS Naturals, Sequences

CONSTANTS
  MaxRetries,     \* limits.max_retries
  NodeAttempts,   \* attempts the graph gives the node
  Replies,        \* the replies of the program considered
  MaxCommands,    \* bound: commands issued
  MaxCrashes      \* bound: times the process is killed

(***************************************************************************)
(* What one call comes to: a timeout, no process, or an output, of which   *)
(* the code looks at five things: whether it matches a pattern of          *)
(* CLI_RESOLUTION_ERRORS, one of QUOTA_PATTERNS, the exit code, whether it *)
(* has a fenced block, and the envelope extract_envelope finds in it.      *)
(***************************************************************************)
ResultStatuses ==
  {"success", "failed", "waiting_for_input", "waiting_for_approval", "skipped"}
\* "none" and "malformed" do not parse or validate, "unknown_refs" cites
\* evidence that does not exist, "no_status" leaves the status out.
Envelopes == ResultStatuses \cup {"none", "malformed", "unknown_refs", "no_status"}
AllReplies ==
  [form: {"timeout", "no_process", "output"},
   resolution: BOOLEAN, quota: BOOLEAN, exitOk: BOOLEAN, fenced: BOOLEAN,
   envelope: Envelopes]

\* A reply that is not an output has nothing to look at, and a block without
\* "status" is found only when it is fenced.
PossibleReplies ==
  {r \in AllReplies :
     /\ r.form # "output" =>
          r.envelope = "none" /\ ~r.resolution /\ ~r.quota /\ ~r.exitOk /\ ~r.fenced
     /\ r.envelope = "no_status" => r.fenced}

ASSUME InvocationAssumption ==
  /\ {MaxRetries, NodeAttempts, MaxCommands, MaxCrashes} \subseteq Nat
  /\ Replies \subseteq PossibleReplies

VARIABLES
  \* the row of the node
  status, attempts,
  \* its executions; hash tells whether prompt_hash is set
  execs,
  \* the replies to the calls of the last execution
  calls,
  \* where the command is, attempt_index, and last_invocation
  pc, index, returned,
  \* what the environment has done so far
  commands, crashes

row == <<status, attempts>>
frame == <<index, returned>>
vars == <<row, execs, calls, pc, frame, commands, crashes>>

NoReply == <<>>
NodeStatuses ==
  {"READY", "RUNNING", "SUCCEEDED", "FAILED", "WAITING_FOR_INPUT",
   "WAITING_FOR_APPROVAL", "SKIPPED"}

TypeOK ==
  /\ status \in NodeStatuses
  /\ attempts \in 0..NodeAttempts
  /\ execs \in Seq([attempt: 1..NodeAttempts, status: NodeStatuses, hash: BOOLEAN])
  /\ calls \in Seq(Replies)
  /\ pc \in {"idle", "call", "validate", "rejected", "finish_held",
             "finish_failed", "finish_result", "settle"}
  /\ index \in Nat
  /\ returned = NoReply \/ returned \in Replies
  /\ commands \in Nat /\ crashes \in Nat

Init ==
  /\ status = "READY" /\ attempts = 0
  /\ execs = <<>> /\ calls = <<>>
  /\ pc = "idle" /\ index = 0 /\ returned = NoReply
  /\ commands = 0 /\ crashes = 0

Issue ==
  /\ pc = "idle" /\ commands < MaxCommands
  /\ commands' = commands + 1
  /\ UNCHANGED crashes

Exhausted == attempts >= NodeAttempts

\* Recovery, selection and run_node up to the handler (GraphEngine).
Start ==
  /\ Issue
  /\ status = "READY" /\ ~Exhausted
  /\ status' = "RUNNING" /\ attempts' = attempts + 1
  /\ execs' = Append(execs, [attempt |-> attempts + 1, status |-> "RUNNING", hash |-> FALSE])
  /\ calls' = <<>> /\ index' = 0 /\ returned' = NoReply
  /\ pc' = "call"

Unblock ==
  /\ Issue
  /\ status \in {"WAITING_FOR_APPROVAL", "FAILED"}
  /\ status' = "READY"
  /\ UNCHANGED <<attempts, execs, calls, pc, frame>>

(***************************************************************************)
(* The retry loop around adapter.run.                                      *)
(***************************************************************************)
\* Variant: max_retries further calls after the first.
RetryBudgetAfterFirst == MaxRetries + 1

RetryBudget == IF MaxRetries > 1 THEN MaxRetries ELSE 1

\* _assert_cli_resolution comes before _assert_not_quota.
Outcome(r) ==
  CASE r.form = "no_process" -> "error"
    [] r.form = "timeout" -> "returned"
    [] r.form = "output" /\ r.resolution -> "error"
    [] r.form = "output" /\ ~r.resolution /\ r.quota -> "held"
    [] OTHER -> "returned"

\* Variant: a quota error is retried like any other.
RetriedOnQuota(r) == Outcome(r) \in {"error", "held"} \/ r.form = "timeout"

Retried(r) == Outcome(r) = "error" \/ r.form = "timeout"

Call(r) ==
  /\ pc = "call"
  /\ calls' = Append(calls, r)
  /\ returned' = IF Outcome(r) = "returned" THEN r ELSE returned
  /\ IF Retried(r) /\ index < RetryBudget - 1
       THEN index' = index + 1 /\ UNCHANGED pc
       ELSE /\ pc' = CASE Outcome(r) = "returned" -> "validate"
                       [] Outcome(r) = "held" -> "finish_held"
                       [] Outcome(r) = "error" -> "finish_failed"
            /\ UNCHANGED index
  /\ UNCHANGED <<row, execs, commands, crashes>>

(***************************************************************************)
(* build_result_from_envelope over last_invocation; a timeout has an empty *)
(* output and no exit code.                                                *)
(***************************************************************************)
\* Variant: the evidence an envelope cites is not looked up.
ValidUnchecked(r) ==
  /\ r.form = "output"
  /\ r.exitOk \/ r.fenced
  /\ r.envelope \notin {"none", "malformed"}

Valid(r) ==
  /\ r.form = "output"
  /\ r.exitOk \/ r.fenced
  /\ r.envelope \notin {"none", "malformed", "unknown_refs"}

\* ResultEnvelope.status defaults to "success".
ResultOf(r) == IF r.envelope \in ResultStatuses THEN r.envelope ELSE "success"

Validate ==
  /\ pc = "validate"
  /\ pc' = IF Valid(returned) THEN "finish_result" ELSE "rejected"
  /\ UNCHANGED <<row, execs, calls, frame, commands, crashes>>

(***************************************************************************)
(* finish_execution writes every column, prompt_hash included.             *)
(***************************************************************************)
Finish(how, hash) ==
  execs' = [execs EXCEPT ![Len(execs)].status = how, ![Len(execs)].hash = hash]

\* A rejected output is finished here, with its hash, and again in run_node.
FinishRejected ==
  /\ pc = "rejected"
  /\ Finish("FAILED", TRUE)
  /\ pc' = "finish_failed"
  /\ UNCHANGED <<row, calls, frame, commands, crashes>>

FinishFailed ==
  /\ pc = "finish_failed"
  /\ Finish("FAILED", FALSE)
  /\ pc' = "settle"
  /\ UNCHANGED <<row, calls, frame, commands, crashes>>

FinishHeld ==
  /\ pc = "finish_held"
  /\ Finish("WAITING_FOR_APPROVAL", FALSE)
  /\ pc' = "settle"
  /\ UNCHANGED <<row, calls, frame, commands, crashes>>

Persisted(result) ==
  CASE result = "success" -> "SUCCEEDED"
    [] result = "failed" -> "FAILED"
    [] result = "waiting_for_input" -> "WAITING_FOR_INPUT"
    [] result = "waiting_for_approval" -> "WAITING_FOR_APPROVAL"
    [] result = "skipped" -> "SKIPPED"

FinishResult ==
  /\ pc = "finish_result"
  /\ Finish(Persisted(ResultOf(returned)), ResultOf(returned) = "success")
  /\ pc' = "settle"
  /\ UNCHANGED <<row, calls, frame, commands, crashes>>

\* Held: the adapter raised AdapterQuotaLimitError, and attempts is what it
\* was before this execution.
Held == Outcome(calls[Len(calls)]) = "held"

AttemptsAfterHold == attempts - 1

SettleNode ==
  /\ pc = "settle"
  /\ status' = execs[Len(execs)].status
  /\ attempts' = IF Held THEN AttemptsAfterHold ELSE attempts
  /\ pc' = "idle"
  /\ index' = 0 /\ returned' = NoReply
  /\ UNCHANGED <<execs, calls, commands, crashes>>

\* Recovery, first thing of the next command, makes the node READY again.
Crash ==
  /\ pc # "idle" /\ crashes < MaxCrashes
  /\ crashes' = crashes + 1
  /\ status' = "READY"
  /\ pc' = "idle" /\ index' = 0 /\ returned' = NoReply
  /\ UNCHANGED <<attempts, execs, calls, commands>>

Next ==
  \/ Start \/ Unblock
  \/ \E r \in Replies : Call(r)
  \/ Validate \/ FinishRejected \/ FinishFailed \/ FinishHeld \/ FinishResult
  \/ SettleNode
  \/ Crash

Spec == Init /\ [][Next]_vars

(***************************************************************************)
(* Properties.                                                             *)
(***************************************************************************)
LastExecution == execs[Len(execs)]
LastCall == calls[Len(calls)]
\* The last execution has ended and its node row says so.
Settled == pc = "idle" /\ execs # <<>> /\ LastExecution.status # "RUNNING"

\* An output whose envelope reports success and holds up.
Trustworthy(r) ==
  /\ r.form = "output" /\ ~r.resolution /\ ~r.quota
  /\ r.exitOk \/ r.fenced
  /\ r.envelope \in {"success", "no_status"}

(***************************************************************************)
(* limits.max_retries: one execution never starts the program more often,  *)
(* however calls time out, raise and return; nothing is called while no    *)
(* execution is in progress.                                               *)
(***************************************************************************)
RetriesBounded ==
  /\ Len(calls) <= IF MaxRetries > 1 THEN MaxRetries ELSE 1
  /\ pc = "call" => execs # <<>> /\ LastExecution.status = "RUNNING"

(***************************************************************************)
(* operator-guide.md, resilience: a quota error "pauses the node without   *)
(* consuming attempt budget": once detected, this execution calls no more, *)
(* the node is held, and the row has the attempts it had before.  Nor is   *)
(* an answer that holds up thrown away for another call, and its execution *)
(* does not end any other way.                                             *)
(***************************************************************************)
HoldStopsCalling ==
  /\ \A i \in 1..(Len(calls) - 1) : Outcome(calls[i]) # "held"
  /\ Settled /\ calls # <<>> /\ Outcome(LastCall) = "held"
       /\ status # "READY" =>
         /\ status = "WAITING_FOR_APPROVAL"
         /\ attempts = LastExecution.attempt - 1

AnswerNotWasted ==
  \A i \in DOMAIN calls : Trustworthy(calls[i]) =>
    /\ i = Len(calls)
    /\ Settled /\ LastExecution.status # "RUNNING" => LastExecution.status = "SUCCEEDED"

DecisiveCallIsLast == HoldStopsCalling /\ AnswerNotWasted

(***************************************************************************)
(* evidence-and-provenance.md, "no evidence id is invented": an execution  *)
(* SUCCEEDED only on an output that survived every check, the last one     *)
(* there was and not one of an earlier call.                               *)
(***************************************************************************)
SucceededIsVerified ==
  execs # <<>> /\ LastExecution.status = "SUCCEEDED" => Trustworthy(LastCall)

(***************************************************************************)
(* What the place of the command implies.                                  *)
(***************************************************************************)
CallsSoFar ==
  /\ \A i \in 1..(Len(calls) - 1) : Retried(calls[i])
  /\ pc = "call" =>
       Len(calls) = index /\ index < RetryBudget /\ \A i \in DOMAIN calls : Retried(calls[i])
  /\ pc \notin {"idle", "call"} => calls # <<>>
  /\ pc \in {"validate", "rejected", "finish_result"} =>
       returned = LastCall /\ Outcome(returned) = "returned"
  /\ pc = "rejected" => ~Valid(returned)
  /\ pc = "finish_result" => Valid(returned)
  /\ pc = "finish_held" => Outcome(LastCall) = "held"
  /\ pc = "finish_failed" => Outcome(LastCall) # "held" /\ ~Trustworthy(LastCall)

ExecutionInProgress ==
  /\ pc # "idle" => execs # <<>> /\ attempts = LastExecution.attempt
  /\ pc \in {"call", "validate", "rejected", "finish_held", "finish_result"} =>
       LastExecution.status = "RUNNING"
  /\ pc = "settle" => LastExecution.status # "RUNNING"

\* An execution that has ended did so as its last call says.
EndedAsCalled ==
  execs # <<>> /\ LastExecution.status # "RUNNING" =>
    /\ calls # <<>>
    /\ Outcome(LastCall) = "held" => LastExecution.status = "WAITING_FOR_APPROVAL"
    /\ Trustworthy(LastCall) <=> LastExecution.status = "SUCCEEDED"

\* What holds at every step of an invocation, kills included; inductive.
InvocationInv ==
  /\ TypeOK /\ RetriesBounded /\ CallsSoFar /\ ExecutionInProgress /\ EndedAsCalled
  /\ DecisiveCallIsLast

(***************************************************************************)
(* Statements of the documents the code does not keep.                     *)
(***************************************************************************)
\* opencode-adapter.md: "Every invocation records a SHA-256 hash of the
\* message ... in the executions.prompt_hash column".
HashRecorded == Settled /\ (\E i \in DOMAIN calls : Outcome(calls[i]) = "returned")
                  => LastExecution.hash

\* operator-guide.md: "Provider quota dies mid-node: engine pauses the node
\* as WAITING_FOR_APPROVAL without consuming attempt budget".
QuotaPauses ==
  Settled /\ calls # <<>> /\ calls[Len(calls)].quota
    => LastExecution.status = "WAITING_FOR_APPROVAL"

\* opencode-adapter.md: the validation checks that "all required fields are
\* present".
StatusPresent ==
  execs # <<>> /\ LastExecution.status = "SUCCEEDED"
    => calls[Len(calls)].envelope # "no_status"

=============================================================================
