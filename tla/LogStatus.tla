----------------------------- MODULE LogStatus ------------------------------
(***************************************************************************)
(* The outcome of a log: what legacy_logs/parsers.py makes of a draft      *)
(* record as far as legacy_logs/status.py looks at it, and the hierarchy   *)
(* of derive_status_evidence over the drafts of a log.                     *)
(***************************************************************************)
EXTENDS Naturals

(***************************************************************************)
(* A draft is its anchor and what its parser finds in the text: the level  *)
(* of a message, what the message is about, and the value of a mark.       *)
(***************************************************************************)
Levels == {"NOTE", "WARNING", "ERROR", "LOG", "none"}
Topics == {"text", "dataset", "recursive", "include", "timing", "libref", "pipe",
           "sin_registros", "numRec", "none"}
\* The keys of a mark, and its values; "1" is the only success of a count.
MarkKeys == {"generated_out", "salida", "status", "cod_err", "date_etl", "none"}
MarkValues == {"LOAD_OK", "OK", "LOAD_ERR", "OUT_ERR", "CANCEL", "1", "0", "OTHER", "none"}
DraftFacts ==
  [anchor: {"TB_LOG", "SAS_MESSAGE", "FRAMEWORK_STATUS", "TIME_SLEEP", "RAW_UNKNOWN"},
   level: Levels, topic: Topics, key: MarkKeys, value: MarkValues]

(***************************************************************************)
(* record_from_draft.  A message that is about a dataset, an include, a    *)
(* timing, a library or a pipe loses the type SAS_MESSAGE whatever its     *)
(* level is.                                                               *)
(***************************************************************************)
RecordType(d) ==
  IF d.anchor # "SAS_MESSAGE" THEN d.anchor
  ELSE CASE d.topic = "dataset" -> "DATASET_OPERATION"
         [] d.topic = "include" -> "INCLUDE"
         [] d.topic = "timing" -> "TIMING"
         [] d.topic = "libref" -> "LIBREF"
         [] d.topic = "pipe" -> "EXTERNAL_COMMAND"
         [] OTHER -> "SAS_MESSAGE"

Impact(d) ==
  CASE d.anchor = "SAS_MESSAGE" /\ d.topic = "recursive" -> "WARNING"
    [] d.anchor \in {"TB_LOG", "SAS_MESSAGE"} /\ d.level = "ERROR" -> "ERROR"
    [] d.anchor \in {"TB_LOG", "SAS_MESSAGE"} /\ d.level = "WARNING" -> "WARNING"
    [] d.anchor = "FRAMEWORK_STATUS" /\ d.value \in {"LOAD_ERR", "OUT_ERR", "CANCEL"}
         /\ d.key = "status" -> "ERROR"
    [] OTHER -> "INFO"

Category(d) ==
  CASE d.anchor = "TB_LOG" /\ d.level = "ERROR" /\ d.topic = "sin_registros" -> "EMPTY_REQUIRED_DATASET"
    [] d.anchor = "TB_LOG" /\ d.level = "WARNING" /\ d.topic = "numRec" -> "ZERO_RECORDS_HISTORICIZE"
    [] OTHER -> "none"

\* parse_framework_status; "none" is a record without status.
Status(d) ==
  CASE d.anchor # "FRAMEWORK_STATUS" -> "none"
    [] d.key \in {"generated_out", "salida"} -> IF d.value = "1" THEN "OK" ELSE "OUT_ERR"
    [] d.key = "status" -> d.value
    [] d.key = "cod_err" -> IF d.value = "0" THEN "COD_ERR=0" ELSE "COD_ERR=n"
    [] OTHER -> "none"

(***************************************************************************)
(* derive_status_evidence.                                                 *)
(***************************************************************************)
FrameworkSuccessStatuses == {"LOAD_OK", "OK", "OUT_OK", "SALIDA_OK"}
FrameworkFailureStatuses == {"LOAD_ERR", "OUT_ERR", "CANCEL"}

FrameworkMarks(log) == {d \in log : RecordType(d) = "FRAMEWORK_STATUS" /\ Status(d) # "none"}
TerminalMarks(log) == {d \in FrameworkMarks(log) : Status(d) \in FrameworkFailureStatuses}
FatalMessages(log) ==
  {d \in log : RecordType(d) \in {"SAS_MESSAGE", "TB_LOG"} /\ Impact(d) = "ERROR"}
ZeroRecordMarks(log) ==
  {d \in log : RecordType(d) = "TB_LOG"
                 /\ Category(d) \in {"EMPTY_REQUIRED_DATASET", "ZERO_RECORDS_HISTORICIZE"}}

\* Variant: a mark of success ends the search.
OutcomeSuccessFirst(log) ==
  IF TerminalMarks(log) # {} THEN "FAILED"
  ELSE IF \E d \in FrameworkMarks(log) : Status(d) \in FrameworkSuccessStatuses THEN "SUCCESS"
  ELSE IF FatalMessages(log) # {} THEN "FAILED"
  ELSE IF ZeroRecordMarks(log) # {} THEN "PARTIAL"
  ELSE "UNKNOWN"

Outcome(log) ==
  IF TerminalMarks(log) \cup FatalMessages(log) # {} THEN "FAILED"
  ELSE IF ZeroRecordMarks(log) # {} THEN "PARTIAL"
  ELSE IF FrameworkMarks(log) # {} THEN "SUCCESS"
  ELSE "UNKNOWN"

\* How bad an outcome is, for the properties.
Severity == [o \in {"UNKNOWN", "SUCCESS", "PARTIAL", "FAILED"} |->
  CASE o = "UNKNOWN" -> 0 [] o = "SUCCESS" -> 1 [] o = "PARTIAL" -> 2 [] o = "FAILED" -> 3]

=============================================================================
