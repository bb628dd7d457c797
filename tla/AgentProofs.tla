---------------------------- MODULE AgentProofs ----------------------------
(***************************************************************************)
(* Machine-checked proofs about the invocation of the agent program, for   *)
(* any limits, any replies of the program and any number of commands and   *)
(* kills.                                                                  *)
(***************************************************************************)
EXTENDS AgentInvocation, SequenceTheorems, TLAPS

(***************************************************************************)
(* What the classification of a reply decides.                             *)
(***************************************************************************)
LEMMA OutcomeType ==
  ASSUME NEW r \in Replies
  PROVE  /\ Outcome(r) \in {"error", "held", "returned"}
         /\ Outcome(r) = "held" => r.form = "output" /\ r.quota
         /\ r.form = "output" /\ ~r.resolution /\ ~r.quota => Outcome(r) = "returned"
         /\ r.form = "output" /\ Outcome(r) = "returned" => ~r.resolution /\ ~r.quota
         /\ Outcome(r) = "error" => r.form = "no_process" \/ r.resolution
<1>1. /\ r.form \in {"timeout", "no_process", "output"}
      /\ r.resolution \in BOOLEAN /\ r.quota \in BOOLEAN
  BY InvocationAssumption DEF PossibleReplies, AllReplies
<1>2. CASE r.form = "no_process" BY <1>2 DEF Outcome
<1>3. CASE r.form = "timeout" BY <1>3 DEF Outcome
<1>4. CASE r.form = "output" BY <1>1, <1>4 DEF Outcome
<1> QED BY <1>1, <1>2, <1>3, <1>4

\* A call that is repeated was neither held nor answered.
LEMMA RetriedDecidesNothing ==
  ASSUME NEW r \in Replies, Retried(r)
  PROVE  Outcome(r) # "held" /\ ~Trustworthy(r)
  BY OutcomeType DEF Retried, Trustworthy

LEMMA ResultType ==
  ASSUME NEW r \in Replies
  PROVE  /\ ResultOf(r) \in ResultStatuses
         /\ Persisted(ResultOf(r)) \in NodeStatuses \ {"READY", "RUNNING"}
         /\ Persisted(ResultOf(r)) = "SUCCEEDED" <=> ResultOf(r) = "success"
<1>1. ResultOf(r) \in ResultStatuses BY DEF ResultOf, ResultStatuses
<1> QED BY <1>1 DEF ResultStatuses, Persisted, NodeStatuses

\* An output that came back is trustworthy exactly if it is valid and says
\* that the node succeeded.
LEMMA TrustworthyIsValid ==
  ASSUME NEW r \in Replies, Outcome(r) = "returned"
  PROVE  Trustworthy(r) <=> Valid(r) /\ ResultOf(r) = "success"
<1>1. r.envelope \in Envelopes BY InvocationAssumption DEF PossibleReplies, AllReplies
<1> QED BY <1>1, OutcomeType DEF Trustworthy, Valid, ResultOf, Envelopes, ResultStatuses

LEMMA HeldIsNotTrustworthy ==
  ASSUME NEW r \in Replies, Outcome(r) # "returned"
  PROVE  ~Trustworthy(r)
  BY OutcomeType DEF Trustworthy

(***************************************************************************)
(* Executions and calls are sequences of which only the last changes.      *)
(***************************************************************************)
Executions == [attempt: 1..NodeAttempts, status: NodeStatuses, hash: BOOLEAN]

LEMMA LastTypes ==
  ASSUME TypeOK
  PROVE  /\ Len(execs) \in Nat /\ Len(calls) \in Nat
         /\ execs # <<>> => Len(execs) > 0 /\ LastExecution \in Executions
         /\ calls # <<>> => Len(calls) > 0 /\ LastCall \in Replies
         /\ DOMAIN calls = 1..Len(calls)
         /\ \A i \in DOMAIN calls : calls[i] \in Replies
<1>1. execs \in Seq(Executions) /\ calls \in Seq(Replies) BY DEF TypeOK, Executions
<1>2. execs # <<>> => Len(execs) \in DOMAIN execs /\ execs[Len(execs)] \in Executions
  BY <1>1
<1>3. calls # <<>> => Len(calls) \in DOMAIN calls /\ calls[Len(calls)] \in Replies
  BY <1>1
<1> QED BY <1>1, <1>2, <1>3 DEF LastExecution, LastCall

\* finish_execution changes the last execution and no other.
LEMMA FinishesLast ==
  ASSUME TypeOK, execs # <<>>, NEW how \in NodeStatuses, NEW hash \in BOOLEAN,
         Finish(how, hash)
  PROVE  /\ execs' \in Seq(Executions) /\ execs' # <<>>
         /\ execs'[Len(execs')].status = how
         /\ execs'[Len(execs')].attempt = LastExecution.attempt
<1> DEFINE n == Len(execs)
           e == [[execs[n] EXCEPT !.status = how] EXCEPT !.hash = hash]
<1>1. execs \in Seq(Executions) /\ n \in 1..n /\ execs[n] \in Executions
  BY LastTypes DEF TypeOK, Executions, LastExecution
<1>2. e \in Executions /\ e.status = how /\ e.attempt = execs[n].attempt
  BY <1>1 DEF Executions
<1>3. execs' = [execs EXCEPT ![n] = e] BY <1>1 DEF Finish
<1> HIDE DEF e
<1>4. execs' \in Seq(Executions) /\ Len(execs') = n /\ execs'[n] = e
  BY <1>1, <1>2, <1>3, ExceptSeq
<1> QED BY <1>1, <1>2, <1>4 DEF LastExecution

(***************************************************************************)
(* The invariant is inductive.                                             *)
(***************************************************************************)
LEMMA InitInvocation == Init => InvocationInv
<1> SUFFICES ASSUME Init PROVE InvocationInv OBVIOUS
<1>1. TypeOK
  BY InvocationAssumption DEF Init, TypeOK, NodeStatuses, NoReply
<1>2. RetriesBounded BY InvocationAssumption DEF Init, RetriesBounded
<1> QED BY <1>1, <1>2
  DEF Init, InvocationInv, CallsSoFar, ExecutionInProgress, EndedAsCalled,
      DecisiveCallIsLast, HoldStopsCalling, AnswerNotWasted, Settled

LEMMA StartKeeps == ASSUME InvocationInv, Start PROVE InvocationInv'
<1> USE DEF Start, Issue
<1> DEFINE e == [attempt |-> attempts + 1, status |-> "RUNNING", hash |-> FALSE]
<1>1. attempts + 1 \in 1..NodeAttempts /\ commands' \in Nat
  BY InvocationAssumption DEF InvocationInv, TypeOK, Exhausted
<1>2. e \in Executions /\ e.status = "RUNNING" /\ e.attempt = attempts + 1
  BY <1>1 DEF Executions, NodeStatuses
<1>3. execs \in Seq(Executions) /\ execs' = Append(execs, e)
  BY DEF InvocationInv, TypeOK, Executions
<1> HIDE DEF e
<1>4. execs' \in Seq(Executions) /\ execs' # <<>> /\ execs'[Len(execs')] = e
  BY <1>2, <1>3, AppendProperties
<1>5. TypeOK'
  BY <1>1, <1>4, InvocationAssumption
  DEF InvocationInv, TypeOK, Executions, NodeStatuses, NoReply
<1>6. RetriesBounded'
  BY <1>2, <1>4, InvocationAssumption DEF RetriesBounded, LastExecution
<1>7. CallsSoFar' BY InvocationAssumption DEF CallsSoFar, RetryBudget
<1>8. ExecutionInProgress' /\ EndedAsCalled'
  BY <1>2, <1>4 DEF ExecutionInProgress, EndedAsCalled, LastExecution
<1>9. DecisiveCallIsLast'
  BY <1>2, <1>4 DEF DecisiveCallIsLast, HoldStopsCalling, AnswerNotWasted, Settled, LastExecution
<1> QED BY <1>5, <1>6, <1>7, <1>8, <1>9 DEF InvocationInv

LEMMA UnblockKeeps == ASSUME InvocationInv, Unblock PROVE InvocationInv'
<1> USE DEF Unblock, Issue, frame
<1>1. TypeOK' BY DEF InvocationInv, TypeOK, NodeStatuses
<1> QED BY <1>1
  DEF InvocationInv, RetriesBounded, CallsSoFar, ExecutionInProgress, EndedAsCalled,
      DecisiveCallIsLast, HoldStopsCalling, AnswerNotWasted, Settled, LastExecution, LastCall

LEMMA CrashKeeps == ASSUME InvocationInv, Crash PROVE InvocationInv'
<1> USE DEF Crash
<1>1. TypeOK' BY DEF InvocationInv, TypeOK, NodeStatuses
<1>2. AnswerNotWasted'
  BY LastTypes
  DEF InvocationInv, DecisiveCallIsLast, AnswerNotWasted, EndedAsCalled, LastExecution, LastCall,
      Settled
<1> QED BY <1>1, <1>2
  DEF InvocationInv, RetriesBounded, CallsSoFar, ExecutionInProgress, EndedAsCalled,
      DecisiveCallIsLast, HoldStopsCalling, Settled, LastExecution, LastCall

LEMMA CallKeeps ==
  ASSUME InvocationInv, NEW r \in Replies, Call(r) PROVE InvocationInv'
<1> DEFINE n == Len(calls)
<1>1. /\ n \in Nat /\ DOMAIN calls = 1..n /\ calls \in Seq(Replies)
      /\ \A i \in 1..n : calls[i] \in Replies
  BY LastTypes DEF InvocationInv, TypeOK
<1>2. /\ calls' \in Seq(Replies) /\ Len(calls') = n + 1 /\ DOMAIN calls' = 1..(n + 1)
      /\ calls'[n + 1] = r /\ calls' # <<>>
      /\ \A i \in 1..n : calls'[i] = calls[i]
  BY <1>1, AppendProperties, LenProperties DEF Call
<1>3. /\ pc = "call" /\ n = index /\ index < RetryBudget
      /\ \A i \in 1..n : Retried(calls[i])
      /\ execs # <<>> /\ LastExecution.status = "RUNNING"
      /\ attempts = LastExecution.attempt
  BY <1>1 DEF Call, InvocationInv, CallsSoFar, ExecutionInProgress
<1> HIDE DEF n
<1>4. /\ UNCHANGED <<status, attempts, execs, commands, crashes>>
      /\ returned' = IF Outcome(r) = "returned" THEN r ELSE returned
      /\ \/ /\ Retried(r) /\ index < RetryBudget - 1 /\ index' = index + 1 /\ pc' = "call"
         \/ /\ ~Retried(r) \/ ~(index < RetryBudget - 1)
            /\ index' = index
            /\ \/ Outcome(r) = "returned" /\ pc' = "validate"
               \/ Outcome(r) = "held" /\ pc' = "finish_held"
               \/ Outcome(r) = "error" /\ pc' = "finish_failed"
  <2>1. CASE Retried(r) /\ index < RetryBudget - 1 BY <1>3, <2>1 DEF Call, row
  <2>2. CASE ~(Retried(r) /\ index < RetryBudget - 1)
    BY <1>3, <2>2, OutcomeType DEF Call, row
  <2> QED BY <2>1, <2>2
<1>5. index \in Nat /\ RetryBudget \in Nat
  BY InvocationAssumption DEF InvocationInv, TypeOK, RetryBudget
<1>6. TypeOK' BY <1>2, <1>4, <1>5 DEF InvocationInv, TypeOK
<1>7. RetriesBounded'
  <2>1. n + 1 <= RetryBudget BY <1>1, <1>3, <1>5
  <2>2. n + 1 <= IF MaxRetries > 1 THEN MaxRetries ELSE 1 BY <2>1 DEF RetryBudget
  <2> QED BY <1>2, <1>3, <1>4, <2>2 DEF RetriesBounded, LastExecution
<1>8. CallsSoFar'
  <2>1. \A i \in 1..n : Retried(calls'[i]) BY <1>2, <1>3
  <2>2. pc' = "call" => index' < RetryBudget /\ \A i \in 1..(n + 1) : Retried(calls'[i])
    <3> SUFFICES ASSUME pc' = "call"
                 PROVE  index' < RetryBudget /\ \A i \in 1..(n + 1) : Retried(calls'[i])
      OBVIOUS
    <3>1. Retried(r) /\ index < RetryBudget - 1 /\ index' = index + 1 BY <1>4
    <3>2. Retried(calls'[n + 1]) BY <1>2, <3>1
    <3>3. \A i \in 1..(n + 1) : i = n + 1 \/ i \in 1..n BY <1>1
    <3>4. \A i \in 1..(n + 1) : Retried(calls'[i]) BY <2>1, <3>2, <3>3
    <3> QED BY <1>5, <3>1, <3>4
  <2>3. pc' = "validate" => returned' = r /\ Outcome(r) = "returned" BY <1>4
  <2>4. pc' = "finish_failed" => Outcome(r) # "held" /\ ~Trustworthy(r)
    BY <1>4, HeldIsNotTrustworthy
  <2>5. pc' = "finish_held" => Outcome(r) = "held" BY <1>4
  <2>6. pc' \in {"call", "validate", "finish_held", "finish_failed"} BY <1>4
  <2>7. Len(calls') - 1 = n BY <1>1, <1>2
  <2>8. pc' = "call" => Len(calls') = index' BY <1>2, <1>3, <1>4
  <2>9. calls'[Len(calls')] = r BY <1>2
  <2> QED BY <1>2, <2>1, <2>2, <2>3, <2>4, <2>5, <2>6, <2>7, <2>8, <2>9
    DEF CallsSoFar, LastCall, Retried, Outcome, Trustworthy, Valid, RetryBudget
<1>9. ExecutionInProgress' /\ EndedAsCalled'
  BY <1>3, <1>4 DEF ExecutionInProgress, EndedAsCalled, LastExecution
<1>10. DecisiveCallIsLast'
  <2>1. \A i \in 1..n : Outcome(calls'[i]) # "held" /\ ~Trustworthy(calls'[i])
    BY <1>1, <1>2, <1>3, RetriedDecidesNothing
  <2>2. pc' # "idle" BY <1>4
  <2>3. HoldStopsCalling'
    BY <1>1, <1>2, <2>1, <2>2 DEF HoldStopsCalling, Settled, Outcome
  <2>4. AnswerNotWasted'
    BY <1>1, <1>2, <2>1, <2>2 DEF AnswerNotWasted, Settled, Trustworthy
  <2> QED BY <2>3, <2>4 DEF DecisiveCallIsLast
<1> QED BY <1>6, <1>7, <1>8, <1>9, <1>10 DEF InvocationInv

LEMMA ValidateKeeps == ASSUME InvocationInv, Validate PROVE InvocationInv'
<1> USE DEF Validate, row, frame
<1>1. TypeOK' BY DEF InvocationInv, TypeOK
<1>2. CallsSoFar'
  BY DEF InvocationInv, CallsSoFar, LastCall, Retried, Outcome, Trustworthy, Valid
<1> QED BY <1>1, <1>2
  DEF InvocationInv, RetriesBounded, ExecutionInProgress, EndedAsCalled, DecisiveCallIsLast,
      HoldStopsCalling, AnswerNotWasted, Settled, LastExecution, LastCall

\* The execution is finished, as the last call says, before its row is settled.
LEMMA FinishKeeps ==
  ASSUME InvocationInv, FinishRejected \/ FinishFailed \/ FinishHeld \/ FinishResult
  PROVE  InvocationInv'
<1> USE DEF row, frame
<1>1. /\ TypeOK /\ execs # <<>> /\ attempts = LastExecution.attempt
      /\ calls # <<>> /\ LastCall \in Replies /\ pc # "call" /\ pc # "idle"
  BY LastTypes
  DEF InvocationInv, ExecutionInProgress, CallsSoFar, FinishRejected, FinishFailed,
      FinishHeld, FinishResult
<1>2. UNCHANGED <<status, attempts, calls, index, returned, commands, crashes>>
  BY DEF FinishRejected, FinishFailed, FinishHeld, FinishResult
<1>3. ASSUME NEW how \in NodeStatuses \ {"READY", "RUNNING"}, NEW hash \in BOOLEAN,
             Finish(how, hash), pc' \in {"finish_failed", "settle"},
             Outcome(LastCall) = "held" => how = "WAITING_FOR_APPROVAL",
             Trustworthy(LastCall) <=> how = "SUCCEEDED",
             pc' = "finish_failed" => Outcome(LastCall) # "held" /\ ~Trustworthy(LastCall)
      PROVE  InvocationInv'
  <2>1. /\ execs' \in Seq(Executions) /\ execs' # <<>>
        /\ execs'[Len(execs')].status = how
        /\ execs'[Len(execs')].attempt = LastExecution.attempt
    BY <1>1, <1>3, FinishesLast
  <2>2. TypeOK' BY <1>1, <1>2, <1>3, <2>1 DEF TypeOK, Executions
  <2>3. RetriesBounded' BY <1>2, <1>3 DEF InvocationInv, RetriesBounded
  <2>4. CallsSoFar'
    BY <1>1, <1>2, <1>3
    DEF InvocationInv, CallsSoFar, LastCall, Retried, Outcome, Trustworthy, Valid
  <2>5. ExecutionInProgress'
    BY <1>1, <1>2, <1>3, <2>1 DEF ExecutionInProgress, LastExecution
  <2>6. EndedAsCalled'
    BY <1>1, <1>2, <1>3, <2>1 DEF EndedAsCalled, LastExecution, LastCall, Outcome, Trustworthy
  <2>7. DecisiveCallIsLast'
    BY <1>2, <1>3
    DEF InvocationInv, DecisiveCallIsLast, HoldStopsCalling, AnswerNotWasted, Settled, Outcome,
        Trustworthy
  <2> QED BY <2>2, <2>3, <2>4, <2>5, <2>6, <2>7 DEF InvocationInv
<1>4. CASE FinishRejected
  <2>1. ~Trustworthy(LastCall) /\ Outcome(LastCall) = "returned"
    BY <1>1, <1>4, TrustworthyIsValid DEF FinishRejected, InvocationInv, CallsSoFar
  <2> QED BY <1>3, <1>4, <2>1 DEF FinishRejected, NodeStatuses
<1>5. CASE FinishFailed
  <2>1. ~Trustworthy(LastCall) /\ Outcome(LastCall) # "held"
    BY <1>5 DEF FinishFailed, InvocationInv, CallsSoFar
  <2> QED BY <1>3, <1>5, <2>1 DEF FinishFailed, NodeStatuses
<1>6. CASE FinishHeld
  <2>1. ~Trustworthy(LastCall)
    BY <1>1, <1>6, HeldIsNotTrustworthy DEF FinishHeld, InvocationInv, CallsSoFar
  <2> QED BY <1>3, <1>6, <2>1 DEF FinishHeld, NodeStatuses
<1>7. CASE FinishResult
  <2>1. Valid(LastCall) /\ Outcome(LastCall) = "returned" /\ returned = LastCall
    BY <1>7 DEF FinishResult, InvocationInv, CallsSoFar
  <2> DEFINE result == ResultOf(LastCall)
  <2>2. /\ Persisted(result) \in NodeStatuses \ {"READY", "RUNNING"}
        /\ Persisted(result) = "SUCCEEDED" <=> Trustworthy(LastCall)
    BY <1>1, <2>1, TrustworthyIsValid, ResultType
  <2>3. Finish(Persisted(result), result = "success") /\ pc' = "settle"
    BY <1>7, <2>1 DEF FinishResult
  <2> HIDE DEF result
  <2> QED BY <1>3, <2>1, <2>2, <2>3
<1> QED BY <1>4, <1>5, <1>6, <1>7

LEMMA SettleKeeps == ASSUME InvocationInv, SettleNode PROVE InvocationInv'
<1> USE DEF SettleNode, AttemptsAfterHold
<1>1. /\ execs # <<>> /\ LastExecution \in Executions /\ attempts = LastExecution.attempt
      /\ LastExecution.status # "RUNNING" /\ calls # <<>> /\ LastCall \in Replies
  BY LastTypes DEF InvocationInv, ExecutionInProgress, CallsSoFar
<1>2. LastExecution.status \in NodeStatuses /\ attempts \in 1..NodeAttempts
  BY <1>1 DEF Executions
<1>3. /\ status' = LastExecution.status
      /\ attempts' = IF Outcome(LastCall) = "held" THEN attempts - 1 ELSE attempts
  BY DEF LastExecution, LastCall, Held
<1>4. TypeOK'
  BY <1>2, <1>3, InvocationAssumption DEF InvocationInv, TypeOK, NoReply
<1>5. /\ Outcome(LastCall) = "held" => LastExecution.status = "WAITING_FOR_APPROVAL"
      /\ Trustworthy(LastCall) <=> LastExecution.status = "SUCCEEDED"
  BY <1>1 DEF InvocationInv, EndedAsCalled
<1>6. /\ LastExecution' = LastExecution /\ LastCall' = LastCall /\ calls' = calls
      /\ execs' = execs /\ pc' = "idle"
  BY DEF LastExecution, LastCall
<1>7. HoldStopsCalling'
  BY <1>1, <1>3, <1>5, <1>6
  DEF InvocationInv, DecisiveCallIsLast, HoldStopsCalling, Settled, LastExecution, LastCall, Outcome
<1>8. AnswerNotWasted'
  BY <1>1, <1>5, <1>6
  DEF InvocationInv, DecisiveCallIsLast, AnswerNotWasted, Settled, Trustworthy, LastExecution, LastCall
<1> QED BY <1>4, <1>7, <1>8
  DEF InvocationInv, RetriesBounded, CallsSoFar, ExecutionInProgress, EndedAsCalled,
      DecisiveCallIsLast, LastExecution, LastCall

LEMMA StepKeepsInvocation == InvocationInv /\ [Next]_vars => InvocationInv'
<1> SUFFICES ASSUME InvocationInv, [Next]_vars PROVE InvocationInv' OBVIOUS
<1>1. CASE UNCHANGED vars
  <2>1. TypeOK' BY <1>1 DEF vars, row, frame, InvocationInv, TypeOK
  <2> QED BY <1>1, <2>1
    DEF vars, row, frame, InvocationInv, RetriesBounded, CallsSoFar, ExecutionInProgress,
        EndedAsCalled, DecisiveCallIsLast, HoldStopsCalling, AnswerNotWasted, Settled,
        LastExecution, LastCall
<1> QED BY <1>1, StartKeeps, UnblockKeeps, CrashKeeps, CallKeeps, ValidateKeeps, FinishKeeps,
           SettleKeeps
  DEF Next

(***************************************************************************)
(* The theorems.                                                           *)
(***************************************************************************)
\* limits.max_retries bounds the calls of an execution, whatever the program
\* replies, and an execution that has ended did so as its last call says.
THEOREM InvocationIsSafe == Spec => []InvocationInv
  BY InitInvocation, StepKeepsInvocation, PTL DEF Spec

\* A quota hold ends the calling and costs no attempt, and an answer that holds
\* up is the last call and ends its execution SUCCEEDED.
THEOREM DecisiveCallsEnd == Spec => []DecisiveCallIsLast
<1>1. InvocationInv => DecisiveCallIsLast BY DEF InvocationInv
<1> QED BY <1>1, InvocationIsSafe, PTL

\* An execution SUCCEEDED only on an output of its last call that survived
\* every check.
THEOREM SuccessIsVerified == Spec => []SucceededIsVerified
<1>1. InvocationInv => SucceededIsVerified
  BY DEF InvocationInv, EndedAsCalled, SucceededIsVerified
<1> QED BY <1>1, InvocationIsSafe, PTL

(***************************************************************************)
(* No output matches a resolution error and a quota pattern at once: the   *)
(* program's words for the two are apart.                                  *)
(***************************************************************************)
PatternsApart == \A r \in Replies : ~(r.resolution /\ r.quota)

\* operator-guide.md, "Provider quota dies mid-node: engine pauses the node":
\* where the patterns are apart, the order in which the adapter tries them is of
\* no account, and an execution whose last call ran out of quota is held.
THEOREM QuotaIsHeldApart == PatternsApart => (Spec => []QuotaPauses)
<1> SUFFICES ASSUME PatternsApart PROVE Spec => []QuotaPauses OBVIOUS
<1>1. InvocationInv => QuotaPauses
  <2> SUFFICES ASSUME InvocationInv, Settled, calls # <<>>, LastCall.quota
               PROVE  LastExecution.status = "WAITING_FOR_APPROVAL"
    BY DEF QuotaPauses, LastCall
  <2>1. LastCall \in Replies BY LastTypes DEF InvocationInv
  <2>2. LastCall.form = "output" /\ ~LastCall.resolution
    BY <2>1, InvocationAssumption DEF PatternsApart, PossibleReplies, AllReplies
  <2>3. Outcome(LastCall) = "held" BY <2>1, <2>2 DEF Outcome
  <2> QED BY <2>3 DEF InvocationInv, EndedAsCalled, Settled
<1> QED BY <1>1, InvocationIsSafe, PTL

=============================================================================
