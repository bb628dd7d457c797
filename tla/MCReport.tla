----------------------------- MODULE MCReport -------------------------------
(***************************************************************************)
(* A component outside the loop, the loop itself over two iterations, a    *)
(* sleep, a row without event, and the marks and messages that the outcome *)
(* tells apart.                                                            *)
(***************************************************************************)
EXTENDS LogReport

Draft(anchor, level, topic, key, value) ==
  [anchor |-> anchor, level |-> level, topic |-> topic, key |-> key, value |-> value]

Event(type, component, iteration, written, loop) ==
  [type |-> type, component |-> component, job |-> "J1", entity |-> None,
   iteration |-> iteration, written |-> written, loop |-> loop]

Row(level, topic, event) == [draft |-> Draft("TB_LOG", level, topic, "none", "none"), event |-> event]

Other(draft) == [draft |-> draft, event |-> Event(TypeRead(RecordType(draft)), None, None, None, FALSE)]

LogRecords ==
  {Row("LOG", "text", Event("TB_LOG", "load", i, w, FALSE)) : i \in {None, "i1"}, w \in {"INI", "FIN"}} \cup
  {Row("LOG", "text", Event("TB_LOG", "loop", i, w, TRUE)) : i \in {"i1", "i2"}, w \in {"INI", "FIN"}} \cup
  {Row("WARNING", "numRec", Event("TB_LOG", None, None, None, FALSE)),
   Row("ERROR", "text", Event("TB_LOG", "load", "i1", "FIN", FALSE)),
   Other(Draft("TIME_SLEEP", "none", "none", "none", "none")),
   Other(Draft("FRAMEWORK_STATUS", "none", "none", "status", "LOAD_OK")),
   Other(Draft("FRAMEWORK_STATUS", "none", "none", "salida", "0")),
   Other(Draft("SAS_MESSAGE", "ERROR", "libref", "none", "none"))}

\* The remaining kinds of record the outcome depends on.
MoreRecords ==
  {Row("ERROR", "sin_registros", Event("TB_LOG", None, None, None, FALSE)),
   Row("LOG", "text", Event("TB_LOG", "loop", "i1", "Ini", TRUE)),
   Other(Draft("SAS_MESSAGE", "ERROR", "text", "none", "none")),
   Other(Draft("FRAMEWORK_STATUS", "none", "none", "cod_err", "OTHER"))}

AllRecords == LogRecords \cup MoreRecords

LogEvents == {r.event : r \in LogRecords}
AllEvents == {r.event : r \in AllRecords}

=============================================================================
