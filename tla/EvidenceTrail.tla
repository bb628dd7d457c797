--------------------------- MODULE EvidenceTrail ---------------------------
(***************************************************************************)
(* What the handlers of demo/nodes.py leave behind: the rows of evidence,  *)
(* findings, lineage_edges, data_objects, gaps and human_requests, written *)
(* one at a time through the NodeContext of nodes/base.py, and the quality *)
(* gate that judges them.                                                  *)
(*                                                                         *)
(* A handler reads what it needs before it writes, so its writes are a     *)
(* script that is fixed when it starts.  It may raise, or the process may  *)
(* be killed, after any of them; the node is run again, and writes again.  *)
(* The engine is reduced to one row per node (GraphEngine takes it apart). *)
(***************************************************************************)
EXTENDS AssessmentGraph, SequencesExt

CONSTANTS
  Files,          \* files in the manifests, or to be delivered
  Media,          \* media type of a file
  Columns,        \* what its header or its lines are recognised as
  Mentions,       \* the names (tables, processes) its rows carry
  Blank,          \* files without a single row or line
  Convertible,    \* legacy workbooks the converter can read
  Corrupt,        \* workbooks that cannot be opened or are no archive
  MayVanish,      \* files that need not be where their manifest says
  Process,        \* the lower-cased stem of a file's name
  ReadOrder,      \* position of a file in the manifests, in the order of their names
  Staged,         \* sets of files the first start may find registered
  Delivered,      \* sets of files a request may be answered with
  LiveDatabase,   \* connectors.enabled["database"]
  MaxRuns,        \* bound: nodes run by name
  MaxAnswers,     \* bound: requests answered
  MaxBreaks       \* bound: handlers that raise or are killed

MediaTypes ==
  {"sas-source", "log-text", "text", "csv", "office-excel", "office-excel-legacy"}
Recognised == {"inventory", "process", "dictionary", "export", "events", "nothing"}

\* The nodes whose handlers are here: intake.register is BatchIntake,
\* legacy_interpret AgentInvocation; and those of them that file a request.
Handled ==
  {"sys.workspace", "intake.coverage", "inventory.extract", "sas.discover",
   "runtime.correlate", "runtime.dmf_logs", "lineage.dba_request", "doc.map_apps",
   "lineage.ingest_dba", "quality.gate", "audit.export"}
Askers == {"intake.coverage", "runtime.correlate", "lineage.dba_request"}

ASSUME TrailAssumption ==
  /\ Handled \cup {"intake.register"} \subseteq Nodes
  /\ IsFiniteSet(Files)
  /\ Media \in [Files -> MediaTypes] /\ Columns \in [Files -> Recognised]
  /\ DOMAIN Mentions = Files
  /\ \A f \in Files : IsFiniteSet(Mentions[f]) /\ (f \in Blank => Mentions[f] = {})
  /\ Blank \subseteq Files /\ Convertible \subseteq Files /\ MayVanish \subseteq Files
  /\ Corrupt \subseteq {f \in Files : Media[f] \in {"office-excel", "office-excel-legacy"}}
  /\ DOMAIN Process = Files /\ ReadOrder \in [Files -> Nat]
  /\ \A f, g \in Files : ReadOrder[f] = ReadOrder[g] => f = g
  /\ \A batch \in Staged \cup Delivered : batch \subseteq Files
  /\ LiveDatabase \in BOOLEAN
  /\ {MaxRuns, MaxAnswers, MaxBreaks} \subseteq Nat

VARIABLES
  \* files that are listed in a manifest
  registered,
  \* the tables; rows are never deleted, so a set of rows is enough
  evidence, findings, edges, objects, gaps,
  \* human_requests by asking node, and the batch the DBA request is resolved
  \* with: its files, and whether a manifest goes by the batch's id
  open, resolved, export,
  \* node_states
  status, attempts,
  \* the node in progress, what its handler has yet to write and will return,
  \* and the files the last handler of a node has found
  cur, script, result, read,
  \* what the environment has done so far
  runs, answers, breaks

trail == <<evidence, findings, edges, objects, gaps>>
requests == <<open, resolved, export>>
node == <<status, attempts>>
frame == <<cur, script, result, read>>
budgets == <<runs, answers, breaks>>
vars == <<registered, trail, requests, node, frame, budgets>>

Idle == "none"
NoExport == [files |-> {}, listed |-> FALSE]

(***************************************************************************)
(* An id is drawn at random; here it is the item it is about, the node and *)
(* the attempt that registered it.                                         *)
(***************************************************************************)
Id(n, item) == [by |-> n, try |-> attempts[n] + 1, item |-> item]

Write(into, row) == [into |-> into, row |-> row]
Evidence(n, item) == Write("evidence", Id(n, item))
Finding(n, item, items) ==
  Write("findings", [id |-> Id(n, item), cites |-> {Id(n, x) : x \in items}])
Object(n, type, name, item) ==
  Write("objects", [key |-> <<type, name>>, cites |-> {Id(n, item)}])
Edge(n, source, relationship, target, item) ==
  Write("edges", [key |-> <<source, relationship, target>>, cites |-> {Id(n, item)}])
Gap(n, item) == Write("gaps", Id(n, item))
Request(n) == Write("requests", n)

\* The writes of a loop, given what it writes for each item.
Each(writes) ==
  LET items == SetToSeq(DOMAIN writes)
  IN FlattenSeq([i \in 1..Cardinality(DOMAIN writes) |-> writes[items[i]]])

FilesOf(types) == {f \in registered : Media[f] \in types}
Exports == {f \in export.files : Media[f] \in {"csv", "text"}}
\* The workbooks among them, with the legacy ones that can be converted.
Books(files) == {f \in files : Media[f] = "office-excel" \/ f \in Convertible}

\* The files a handler looks for.  One that is not where it should be, or (an
\* export, a dictionary) cannot be opened, is passed over without a trace.
Material(n) ==
  CASE n = "sas.discover" -> FilesOf({"sas-source"})
    [] n = "inventory.extract" -> FilesOf({"office-excel", "office-excel-legacy"})
    [] n \in {"runtime.correlate", "runtime.dmf_logs"} -> FilesOf({"log-text", "text"})
    [] n = "doc.map_apps" -> FilesOf({"csv", "text"})
    [] n = "lineage.ingest_dba" -> Exports
    [] OTHER -> {}
Found(n) == {Material(n) \ gone : gone \in SUBSET (MayVanish \cap Material(n))}

\* A workbook that cannot be read has no sheets, and that is all.
Rows(f, columns) ==
  IF Columns[f] = columns /\ f \notin Corrupt THEN Mentions[f] ELSE {}

\* Of the programs of one name, the last one that is read replaces the others.
Latest(programs) ==
  {f \in programs : \A g \in programs :
                      Process[g] = Process[f] => ReadOrder[g] <= ReadOrder[f]}

Tables == {o.key[2] : o \in {x \in objects : x.key[1] = "table"}}
ObjectNames == {o.key[2] : o \in objects}

(***************************************************************************)
(* The handlers: what each writes, in which order, and what it returns,    *)
(* when it finds these files.                                              *)
(***************************************************************************)
Handler(writes, returns) == [script |-> writes, result |-> returns]

\* In a workspace that validates.
SysWorkspace(n) == Handler(<<Evidence(n, <<"workspace">>)>>, "success")

IntakeCoverage(n) ==
  Handler(
    <<Evidence(n, <<"coverage">>)>>
      \o (IF FilesOf({"sas-source"}) = {} THEN <<Gap(n, <<"no SAS sources">>)>> ELSE <<>>)
      \o (IF FilesOf({"log-text"}) = {} THEN <<Request(n)>> ELSE <<>>),
    "success")

\* Legacy workbooks are converted first; the rows of a sheet that is
\* recognised give tables with their owners, or processes.
InventoryExtract(n, found) ==
  LET books == Books(found)
      converted == [f \in {b \in found : Media[b] = "office-excel-legacy"} |->
        IF f \in Convertible THEN <<Evidence(n, <<f, "converted">>)>>
        ELSE <<Gap(n, <<f>>)>>]
      owned(f) == [t \in Rows(f, "inventory") |->
        <<Object(n, "table", t, <<f>>), Evidence(n, <<f, t>>),
          Edge(n, "app", "owns", t, <<f, t>>)>>]
      processes(f) == [p \in Rows(f, "process") |->
        <<Object(n, "sas_process", p, <<f>>)>>]
      sheets == [f \in books |->
        (IF f \in Blank \cup Corrupt THEN <<>> ELSE <<Evidence(n, <<f>>)>>)
          \o Each(owned(f)) \o Each(processes(f))]
  IN Handler(Each(converted) \o Each(sheets),
       IF books = {} THEN "waiting_for_input"
       ELSE IF \A f \in books : Rows(f, "inventory") \cup Rows(f, "process") = {}
         THEN "skipped" ELSE "success")

SasDiscover(n, sources) ==
  LET accesses(f) == [t \in Mentions[f] |->
        <<Object(n, "table", t, <<Process[f]>>),
          Edge(n, Process[f], "reads", t, <<Process[f]>>)>>]
      programs == [f \in Latest(sources) |->
        <<Evidence(n, <<Process[f]>>), Object(n, "sas_process", Process[f], <<Process[f]>>)>>
          \o Each(accesses(f))]
  IN IF sources = {} THEN Handler(<<>>, "waiting_for_input")
     ELSE Handler(Each(programs)
                    \o <<Finding(n, <<"sas-processes">>,
                           {<<Process[f]>> : f \in Latest(sources)})>>,
                  "success")

\* The finding about processes without a log is registered whatever was found.
RuntimeCorrelate(n, logs) ==
  LET processes == UNION {Rows(f, "events") : f \in logs}
      executions == [p \in processes |->
        <<Evidence(n, <<p>>), Finding(n, <<p>>, {<<p>>})>>]
  IN IF logs = {} THEN Handler(<<Request(n)>>, "waiting_for_input")
     ELSE Handler(Each(executions)
                    \o <<Finding(n, <<"orphans">>, {<<p>> : p \in processes})>>,
                  IF processes # {} THEN "success"
                  ELSE IF logs \subseteq Blank THEN "waiting_for_input" ELSE "skipped")

RuntimeDmfLogs(n, logs) ==
  LET reports == [f \in logs |-> <<Evidence(n, <<f>>), Finding(n, <<f>>, {<<f>>})>>]
  IN Handler(Each(reports), IF logs = {} THEN "skipped" ELSE "success")

DbaRequest(n) ==
  IF Tables = {} THEN Handler(<<>>, "skipped")
  ELSE IF LiveDatabase THEN Handler(<<Gap(n, <<"live">>)>>, "waiting_for_approval")
  ELSE Handler(<<Request(n)>>, "waiting_for_input")

\* Every delimited file counts as a dictionary, one that names no application
\* as a dictionary of nothing.
DocMapApps(n, found) ==
  LET dictionaries == found \ Blank
      known(f) == Rows(f, "dictionary") \cap ObjectNames
      owned(f) == [t \in known(f) |->
        <<Evidence(n, <<f, t>>), Edge(n, "app", "owns", t, <<f, t>>)>>]
  IN IF dictionaries = {} THEN Handler(<<>>, "waiting_for_input")
     ELSE Handler(Each([f \in dictionaries |-> Each(owned(f))])
                    \o <<Finding(n, <<"applications">>,
                           UNION {{<<f, t>> : t \in known(f)} : f \in dictionaries})>>,
                  "success")

IngestDba(n, exports) ==
  LET asked == "lineage.dba_request" \in open \cup resolved
      dependencies(f) == [t \in Rows(f, "export") |->
        <<Evidence(n, <<f, t>>), Edge(n, "oracle", "depends_on", t, <<f, t>>)>>]
  IN IF ~asked THEN Handler(<<>>, "skipped")
     ELSE IF "lineage.dba_request" \notin resolved THEN Handler(<<>>, "waiting_for_input")
     ELSE IF ~export.listed THEN Handler(<<Gap(n, <<"manifest">>)>>, "failed")
     ELSE Handler(Each([f \in exports |-> Each(dependencies(f))])
                    \o <<Finding(n, <<"lineage">>,
                           UNION {{<<f, t>> : t \in Rows(f, "export")} : f \in exports})>>,
                  "success")

\* A row fails the gate when it cites nothing or something that is not there.
\* Variant: a row that cites nothing passes.
UntracedIfMissing(row) == ~(row.cites \subseteq evidence)

Untraced(row) == row.cites = {} \/ ~(row.cites \subseteq evidence)

QualityGate(n) ==
  LET failures == {row \in findings \cup edges : Untraced(row)}
      explained == [row \in failures |-> <<Gap(n, <<"untraced">>)>>]
  IN IF findings = {} THEN Handler(<<Gap(n, <<"nothing">>)>>, "failed")
     ELSE IF failures # {} THEN Handler(Each(explained), "failed")
     ELSE Handler(<<Evidence(n, <<"quality">>), Finding(n, <<"quality">>, {<<"quality">>})>>,
                  "success")

HandlerOf(n, found) ==
  CASE n = "sys.workspace" -> SysWorkspace(n)
    [] n = "intake.coverage" -> IntakeCoverage(n)
    [] n = "inventory.extract" -> InventoryExtract(n, found)
    [] n = "sas.discover" -> SasDiscover(n, found)
    [] n = "runtime.correlate" -> RuntimeCorrelate(n, found)
    [] n = "runtime.dmf_logs" -> RuntimeDmfLogs(n, found)
    [] n = "lineage.dba_request" -> DbaRequest(n)
    [] n = "doc.map_apps" -> DocMapApps(n, found)
    [] n = "lineage.ingest_dba" -> IngestDba(n, found)
    [] n = "quality.gate" -> QualityGate(n)
    [] n = "audit.export" -> Handler(<<>>, "success")   \* writes files only

Words ==
  {"workspace", "batch", "coverage", "no SAS sources", "converted", "sas-processes",
   "orphans", "live", "applications", "manifest", "lineage", "quality", "nothing",
   "untraced", "app", "oracle", "owns", "reads", "depends_on", "table", "sas_process"}
Names ==
  Words \cup Files \cup {Process[f] : f \in Files} \cup UNION {Mentions[f] : f \in Files}
Ids == [by: Nodes, try: Nat, item: Seq(Names)]
Writes ==
  [into: {"evidence", "gaps"}, row: Ids]
    \cup [into: {"findings"}, row: [id: Ids, cites: SUBSET Ids]]
    \cup [into: {"edges", "objects"}, row: [key: Seq(Names), cites: SUBSET Ids]]
    \cup [into: {"requests"}, row: Askers]
Results == {"success", "failed", "waiting_for_input", "waiting_for_approval", "skipped"}

TypeOK ==
  /\ registered \subseteq Files
  /\ evidence \cup gaps \subseteq Ids
  /\ IsFiniteSet(findings \cup edges)
  /\ open \cup resolved \subseteq Askers
  /\ export.files \subseteq Files /\ export.listed \in BOOLEAN
  /\ status \in [Nodes -> NodeStatuses] /\ attempts \in [Nodes -> Nat]
  /\ cur \in Handled \cup {Idle} /\ result \in Results
  /\ script \in Seq(Writes) /\ read \in [Nodes -> SUBSET Files]
  /\ {runs, answers, breaks} \subseteq Nat

\* Intake has registered a batch and reported it.
Init ==
  /\ registered \in Staged
  /\ LET batch == [by |-> "intake.register", try |-> 1, item |-> <<"batch">>]
     IN /\ evidence = {batch}
        /\ findings = {[id |-> batch, cites |-> {batch}]}
  /\ edges = {} /\ objects = {} /\ gaps = {}
  /\ open = {} /\ resolved = {} /\ export = NoExport
  /\ status = [n \in Nodes |->
                 IF n \in {"sys.workspace", "intake.register"} THEN "SUCCEEDED"
                 ELSE IF n = "intake.coverage" THEN "READY" ELSE "PENDING"]
  /\ attempts = [n \in Nodes |->
                   IF n \in {"sys.workspace", "intake.register"} THEN 1 ELSE 0]
  /\ cur = Idle /\ script = <<>> /\ result = "success"
  /\ read = [n \in Nodes |-> {}]
  /\ runs = 0 /\ answers = 0 /\ breaks = 0

(***************************************************************************)
(* A node is started, by the loop of `start` or by name.                   *)
(***************************************************************************)
MayRun(n) ==
  /\ n \in Handled
  /\ status[n] \notin BlockedStatuses \cup {"PENDING"}
  /\ attempts[n] < AttemptLimit(n)

Begin(n) ==
  /\ cur = Idle
  /\ MayRun(n)
  /\ cur' = n
  /\ \E found \in Found(n) :
       /\ read' = [read EXCEPT ![n] = found]
       /\ script' = HandlerOf(n, found).script /\ result' = HandlerOf(n, found).result
  /\ status' = [status EXCEPT ![n] = "RUNNING"]
  /\ attempts' = [attempts EXCEPT ![n] = @ + 1]
  /\ UNCHANGED <<registered, trail, requests, answers, breaks>>

Runnable == {n \in Nodes : status[n] = "READY" /\ PrerequisitesMet(n, status)}

Start ==
  \E n \in Runnable :
    /\ \A m \in Runnable \ {n} : RunsBefore(n, m)
    /\ Begin(n)
    /\ UNCHANGED runs

\* cmd_run: whatever the node requires, and again when it has SUCCEEDED.
RunNode(n) ==
  /\ runs < MaxRuns
  /\ runs' = runs + 1
  /\ Begin(n)

(***************************************************************************)
(* The writes of NodeContext, one transaction each.                        *)
(***************************************************************************)
NextWrite(table) ==
  /\ cur # Idle /\ script # <<>>
  /\ Head(script).into = table
  /\ script' = Tail(script)
  /\ UNCHANGED <<registered, node, cur, result, read, budgets>>

\* Variant: the id is handed out, the row follows with the audit event.
RegisterEvidenceLater ==
  /\ NextWrite("evidence")
  /\ UNCHANGED <<trail, requests>>

RegisterEvidence ==
  /\ NextWrite("evidence")
  /\ evidence' = evidence \cup {Head(script).row}
  /\ UNCHANGED <<findings, edges, objects, gaps, requests>>

RegisterFinding ==
  /\ NextWrite("findings")
  /\ findings' = findings \cup {Head(script).row}
  /\ UNCHANGED <<evidence, edges, objects, gaps, requests>>

\* Variant: a second edge into a target counts as a repetition.
IsThereBySource(row, rows) == \E r \in rows : r.key[1] = row.key[1]

\* The UNIQUE constraint; the IntegrityError it raises is swallowed.
IsThere(row, rows) == \E r \in rows : r.key = row.key

AddLineageEdge ==
  /\ NextWrite("edges")
  /\ edges' = IF IsThere(Head(script).row, edges) THEN edges
              ELSE edges \cup {Head(script).row}
  /\ UNCHANGED <<evidence, findings, objects, gaps, requests>>

UpsertDomainObject ==
  /\ NextWrite("objects")
  /\ objects' = IF IsThere(Head(script).row, objects) THEN objects
                ELSE objects \cup {Head(script).row}
  /\ UNCHANGED <<evidence, findings, edges, gaps, requests>>

RegisterGap ==
  /\ NextWrite("gaps")
  /\ gaps' = gaps \cup {Head(script).row}
  /\ UNCHANGED <<evidence, findings, edges, objects, requests>>

\* An OPEN request of the node is found, not repeated.
RequestHumanInput ==
  /\ NextWrite("requests")
  /\ open' = open \cup {Head(script).row}
  /\ UNCHANGED <<trail, resolved, export>>

(***************************************************************************)
(* The handler returns, raises, or is killed.                              *)
(***************************************************************************)
Persisted(r) ==
  CASE r = "success" -> "SUCCEEDED"
    [] r = "waiting_for_input" -> "WAITING_FOR_INPUT"
    [] r = "waiting_for_approval" -> "WAITING_FOR_APPROVAL"
    [] r = "skipped" -> "SKIPPED"
    [] r = "failed" -> "FAILED"

Activates(n, t) ==
  /\ \E i \in DOMAIN Outgoing[n] :
       Outgoing[n][i].target = t /\ Outgoing[n][i].condition.name = "always"
  /\ status[t] \notin BlockedStatuses \cup {"SUCCEEDED"}

Return(outcome) ==
  /\ cur' = Idle /\ script' = <<>> /\ result' = "success"
  /\ status' = [t \in Nodes |->
                  IF t = cur THEN outcome
                  ELSE IF outcome = "SUCCEEDED" /\ Activates(cur, t) THEN "READY"
                  ELSE status[t]]
  /\ UNCHANGED <<registered, trail, requests, attempts, read, runs, answers>>

Settle ==
  /\ cur # Idle /\ script = <<>>
  /\ Return(Persisted(result))
  /\ UNCHANGED breaks

Break(outcome) ==
  /\ cur # Idle
  /\ breaks < MaxBreaks
  /\ breaks' = breaks + 1
  /\ Return(outcome)

HandlerRaises == Break("FAILED")

\* The next command starts with recover_stale_running.
Crash == Break("READY")

(***************************************************************************)
(* The operator releases a node, or answers a request.                     *)
(***************************************************************************)
Unblock(n) ==
  /\ cur = Idle
  /\ status[n] \in {"FAILED", "WAITING_FOR_APPROVAL"}
  /\ status' = [status EXCEPT ![n] = "READY"]
  /\ UNCHANGED <<registered, trail, requests, attempts, frame, budgets>>

ResumeNode(n) == IF n = "lineage.dba_request" THEN "lineage.ingest_dba" ELSE n

\* Whether a manifest goes by the resolution's batch id is BatchIntake's
\* AnswerIsIngestible: it does not when the scan came first.
Answer(n, batch) ==
  /\ cur = Idle
  /\ n \in open /\ answers < MaxAnswers
  /\ answers' = answers + 1
  /\ batch \in Delivered
  /\ open' = open \ {n} /\ resolved' = resolved \cup {n}
  /\ registered' = registered \cup batch
  /\ IF n = "lineage.dba_request" /\ n \notin resolved
       THEN \E listed \in BOOLEAN : export' = [files |-> batch, listed |-> listed]
       ELSE UNCHANGED export
  /\ status' = [status EXCEPT ![n] = "SUCCEEDED", ![ResumeNode(n)] = "READY"]
  /\ UNCHANGED <<trail, attempts, frame, runs, breaks>>

(***************************************************************************)
(* Specification.                                                          *)
(***************************************************************************)
HandlerWrites ==
  \/ RegisterEvidence \/ RegisterFinding \/ AddLineageEdge
  \/ UpsertDomainObject \/ RegisterGap \/ RequestHumanInput

Next ==
  \/ Start \/ \E n \in Nodes : RunNode(n) \/ Unblock(n)
  \/ HandlerWrites \/ Settle \/ HandlerRaises \/ Crash
  \/ \E n \in open, batch \in Delivered : Answer(n, batch)

Spec == Init /\ [][Next]_vars

(***************************************************************************)
(* Properties.                                                             *)
(***************************************************************************)
Cited == UNION {row.cites : row \in findings \cup edges \cup objects}
NothingDangles == Cited \subseteq evidence
FactsAreUnique ==
  \A rows \in {edges, objects} : \A r, s \in rows : r.key = s.key => r = s

\* The ids the first n writes of s register; the edges s adds; its rows.
Registers(s, n) == {s[i].row : i \in {j \in 1..n : s[j].into = "evidence"}}
EdgesOf(s) == {s[i].row.key : i \in {j \in DOMAIN s : s[j].into = "edges"}}
RowsInto(s, tables) == {s[i].row : i \in {j \in DOMAIN s : s[j].into \in tables}}

\* A script cites what was there before it, or what it has registered by then.
CitesInOrder(s, there) ==
  \A i \in DOMAIN s :
    s[i].into \in {"findings", "edges", "objects"} =>
      s[i].row.cites \subseteq there \cup Registers(s, i - 1)

\* The edges of the files a handler reads, and of those the last attempt of a
\* node has read.
EdgesRead(n, files) ==
  CASE n = "sas.discover" ->
         UNION {{<<Process[f], "reads", t>> : t \in Mentions[f]} : f \in Latest(files)}
    [] n = "inventory.extract" ->
         UNION {{<<"app", "owns", t>> : t \in Rows(f, "inventory")} : f \in Books(files)}
    [] n = "lineage.ingest_dba" ->
         UNION {{<<"oracle", "depends_on", t>> : t \in Rows(f, "export")} : f \in files}
    [] OTHER -> {}
Implied(n) == EdgesRead(n, read[n])

\* What lasts while a handler is at work: no node but its own is RUNNING, and
\* what its success will claim has been written or is still in its script.
OneNodeAtWork == \A n \in Nodes : status[n] = "RUNNING" <=> n = cur /\ n # Idle
NothingForgotten ==
  cur # Idle /\ result = "success" =>
    Implied(cur) \subseteq {e.key : e \in edges} \cup EdgesOf(script)
GateHasJudged ==
  cur = "quality.gate" /\ result = "success" =>
    \A row \in findings \cup edges \cup RowsInto(script, {"findings", "edges"}) :
      row.cites # {}

\* Nothing cites an id that is not registered, whatever was killed or raised
\* in between, so a gate never fails for a reference that leads nowhere; and
\* a fact has one row, however often its node was run again
\* (docs/evidence-and-provenance.md:17, nodes/base.py register_evidence).
EvidenceInv ==
  /\ TypeOK
  /\ NothingDangles /\ FactsAreUnique
  /\ CitesInOrder(script, evidence)
  /\ OneNodeAtWork /\ NothingForgotten /\ GateHasJudged

\* A node that succeeded has left every edge of what its last attempt read: the
\* last program of each name, the workbooks that open, the exports it found;
\* also when an earlier attempt was broken off among them or another node had
\* written some of them (nodes/base.py add_lineage_edge).
LineageIsComplete ==
  \A n \in Nodes :
    status[n] = "SUCCEEDED" => Implied(n) \subseteq {e.key : e \in edges}

GateSucceeds == status["quality.gate"] = "RUNNING" /\ status'["quality.gate"] = "SUCCEEDED"

\* When the gate passes, every finding and every edge traces to evidence
\* (docs/graph-model.md:54).
GateTellsTheTruth ==
  [][GateSucceeds => \A row \in findings \cup edges :
                       row.cites # {} /\ row.cites \subseteq evidence]_vars

(***************************************************************************)
(* Statements of the documents the code does not keep.                     *)
(***************************************************************************)
\* "Every finding must cite evidence" (docs/evidence-and-provenance.md:11).
EveryFindingCites == \A row \in findings : row.cites # {}

\* "All findings and lineage edges trace to existing evidence", the finding
\* the gate leaves (demo/nodes.py:796): also what is ingested after it.
PassedGateCovers ==
  status["quality.gate"] = "SUCCEEDED" => EveryFindingCites

\* What a success does not say: that the edges of every registered file are
\* there.  An earlier program of the same name, a workbook that does not open
\* and a file that is not found are passed over, and nothing says so
\* (demo/nodes.py:367, 188, 717); what comes with an answer is not looked at.
EdgesOfFiles(n) ==
  CASE n = "sas.discover" ->
         UNION {{<<Process[f], "reads", t>> : t \in Mentions[f]} : f \in Material(n)}
    [] n = "inventory.extract" ->
         UNION {{<<"app", "owns", t>> : t \in Mentions[f]}
                  : f \in {g \in Books(Material(n)) : Columns[g] = "inventory"}}
    [] OTHER -> EdgesRead(n, Material(n))
LineageCoversFiles ==
  \A n \in Nodes :
    status[n] = "SUCCEEDED" => EdgesOfFiles(n) \subseteq {e.key : e \in edges}

=============================================================================
