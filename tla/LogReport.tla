----------------------------- MODULE LogReport ------------------------------
(***************************************************************************)
(* legacy_logs/engine.py: a log read record by record, as the stages and   *)
(* loop runs of LogLifecycle and the outcome of _metrics see it.           *)
(* A record is its draft, which LogStatus classifies, and the fields of    *)
(* the event in it, which LogLifecycle pairs.                              *)
(***************************************************************************)
EXTENDS LogLifecycle, LogStatus

\* What the passes of LogLifecycle tell apart.
TypeRead(type) == IF type \in {"TB_LOG", "TIME_SLEEP"} THEN type ELSE "OTHER"

CONSTANT Records    \* the records considered

ASSUME ReportAssumption ==
  /\ Records \subseteq [draft: DraftFacts, event: EventFacts]
  /\ Events = {r.event : r \in Records}
  /\ \A r \in Records : r.event.type = TypeRead(RecordType(r.draft))

VARIABLE drafts    \* the drafts read, in order

reportVars == <<vars, drafts>>

ReportInit == Init /\ drafts = <<>>

\* The drafts of the log so far.
Log == ToSet(drafts)

\* _parse_stream: one draft, one numbered record, read by every pass.
ReadRecord(r) ==
  /\ Read(r.event)
  /\ drafts' = Append(drafts, r.draft)

ReportNext == \E r \in Records : ReadRecord(r)

ReportSpec == ReportInit /\ [][ReportNext]_reportVars

(***************************************************************************)
(* Properties.                                                             *)
(***************************************************************************)

\* The stages nest, with what the passes keep to make them: inductive.
ReportInv ==
  /\ TypeOK /\ drafts \in Seq(DraftFacts)
  /\ StacksHoldOpenStages /\ StagesAreMarked /\ MarksAreStaged
  /\ StagesNest /\ OrphansAreOutside /\ RunsAreRead /\ RunsAreDisjoint

(***************************************************************************)
(* The evidence hierarchy: more of a log never takes back a failure or a   *)
(* partial load, whatever it ends with, so the outcome of a truncated log  *)
(* is never worse than that of the whole.                                  *)
(***************************************************************************)
OutcomeNeverImproves ==
  [][Severity[Outcome(Log')] >= Severity[Outcome(Log)]]_reportVars

(***************************************************************************)
(* Statements of the project the code does not keep.                       *)
(***************************************************************************)
\* parse_sas_message gives every "ERROR:" message the impact ERROR, the
\* evidence of a FAILED batch.
ErrorMessageFails ==
  (\E d \in Log : d.anchor = "SAS_MESSAGE" /\ d.level = "ERROR") => Outcome(Log) = "FAILED"

\* FRAMEWORK_SUCCESS_STATUSES: the marks that say a batch succeeded.
SuccessIsMarked ==
  Outcome(Log) = "SUCCESS" =>
    \E d \in FrameworkMarks(Log) : Status(d) \in FrameworkSuccessStatuses

=============================================================================
