# SASsessment: a verification development

TLA+ models of the SASsessment foundation (`src/src/sassessment`), TLC
configurations that check them on small instances, and TLAPS proofs of what
matters most for every instance. Paths below are relative to `src/`;
`engine.py:347` stands for `src/sassessment/graph/engine.py:347` and so on.

## 1. The system

SASsessment walks a versioned graph of assessment steps. An operator types
commands; each command opens one SQLite file, does its work row by row, and
ends. Everything that must survive a command is in that file, in the audit log,
or in files under `intake/` and `workspace/`.

| Component | State it keeps | Operations | Talks to |
|---|---|---|---|
| Graph engine (`graph/engine.py`) | none of its own between commands; it reads and writes `node_states`, `executions`, `decisions`, `assessments.current_phase` | `run`, `run_node`, `_execute`, `_route_from`, `_maybe_advance_phase`, `recover_stale_running`, `assessment_completion` | handlers (calls), repository (writes), predicates, adapter |
| Graph definition and predicates (`graph/model.py`, `predicates.py`) | immutable nodes, edges, requires, joins | validation, `evaluate` over a snapshot | engine |
| Operator commands (`cli/main.py`) | none | `start`/`resume`, `run <node>`, `answer`, `unblock`, `add-input`, `status`, `next`, `show`, `checkpoint` | engine, repository, intake |
| Handlers and their context (`demo/nodes.py`, `nodes/base.py`) | rows of evidence, findings, gaps, objects, lineage | one handler per node; `register_evidence`, `register_finding`, `add_lineage_edge`, `upsert_domain_object`, `register_gap`, `request_human_input` | repository, intake, `intake/raw` |
| Batch intake (`intake/registration.py`) | `source_batches`, `source_artifacts`, manifests, meta marks | `register_batch` from the scan and from `answer` | file system, repository |
| Agent invocation (`opencode_adapter/`, `engine.py:398`) | none; one external process per attempt | `run`, quota and resolution checks, envelope validation | OpenCode CLI |
| Legacy log parser (`legacy_logs/`) | the record being assembled, the open stages | `consume`, `build_lifecycle`, `iterate_loop_runs`, `derive_status_evidence` | the DMF node |
| Checkpoints (`state/checkpoints.py`) | snapshots, manifests, `checkpoints` rows | `create`, `verify`, `restore` | database file, audit |
| Audit (`state/events.py`) | JSONL file, `audit_events` | `emit`, `export` | everybody |
| Repository and database (`state/repository.py`, `database.py`) | the SQLite tables | one transaction per call | everybody |
| Start-up (`config.py`, `cli/main.py` `ApplicationContext`, `graph/loader.py`, `state/database.py`) | the configuration and the graph of one command; `schema_migrations`, `assessments`, `sessions`, `meta` | `load_config`, `load_graph`, `migrate`, `ensure_bootstrap`, `active_session_id`, `engine` | every command goes through it |
| Archive staging, spreadsheets, prompts, ids, layout | files | pure functions and file I/O | handlers, start-up |

What is hard in it:

* **Crashes.** No operation spans a transaction. A node that runs writes its
  execution, its row, the end of the execution, its row again, then each
  activated target and each decision, then the phase; `answer` resolves,
  registers, and writes two rows; `register_batch` writes a row, the artifacts,
  a file and the row again. The process may be killed between any two.
* **Rows with several writers.** A node becomes READY through an edge, an
  answer, an unblock or recovery, and each leaves other columns behind.
* **Order.** Routing evaluates every edge against one snapshot but reads the
  live row of each target; the phase is set by whichever gate finishes.
* **Budgets.** Attempts are counted before the handler runs, given back after a
  quota hold, kept by an unblock and by recovery.
* **Waiting.** A branch that waits for a human must stop nothing else, must be
  releasable, and must go on when it is released.
* **Two terminals.** Nothing keeps a second command out while one runs, and
  SQLite orders single statements only: what a command has read is stale when it
  writes.
* **Start-up.** A command loads three documents, validates them, and migrates and
  fills the database before its own work; it may be refused or killed anywhere
  on the way, and the next one must find its way from there.
* **Two paths to one directory.** The intake scan and `answer` both register
  directories under `intake/raw`, while teams are still delivering.

What makes each component correct is stated as the properties of section 4.

## 2. Modules

| Module | Models | Extends / instantiates |
|---|---|---|
| `AssessmentGraph` | the static graph: nodes, edges, requires, joins, attempt limits, the scheduling order, `_prerequisites_met` | |
| `GraphEngine` | the engine and the commands that drive it | `AssessmentGraph` |
| `GraphEngineProperties` | what code and documents promise of it | `GraphEngine` |
| `GraphEngineInvariants` | the inductive invariant, and why the phase goes back by a rerun only | `GraphEngineProperties` |
| `GraphEngineLive` | the diligent operator, fairness, liveness | `GraphEngineInvariants` |
| `AssessmentPlan` | abstract: nodes are activated, then done, once | `AssessmentGraph` |
| `GraphEngineRefinement` | the refinement mapping | `GraphEngineLive`, `AssessmentPlan` |
| `FoundationGraph` | `graphs/foundation-graph.json`, node by node | |
| `MCFoundation` | the engine on it, with what its handlers may report | `EngineUninterrupted`, `FoundationGraph` |
| `MCOperator` | a four-node graph with an any-join, an unregistered predicate and the others the shipped graph lacks, and a gate that asks in passing | `GraphEngineInvariants` |
| `EngineReports` | what the engine reports of an assessment that has stopped: blockers beside the completion status | `GraphEngine` |
| `EngineUninterrupted` | the engine while no command is killed: the graphs that hang together, and what is true at every point of a command | `GraphEngineRefinement`, `EngineReports` |
| `GraphEngineProofs` | the theorems about the engine, the refinement of the plan, what lasts when the engine is driven in order and what holds without kills | `EngineUninterrupted`, `FiniteSetTheorems`, `TLAPS` |
| `ConcurrentCommands` | several commands over one database, a read and the write that relies on it being two steps | `AssessmentGraph` |
| `MCConcurrent` | two terminals over a node that asks and one it leads to | `ConcurrentCommands` |
| `ConcurrentProofs` | the theorems about any number of processes | `ConcurrentCommands`, `TLAPS` |
| `BatchIntake` | registration of raw material | |
| `EvidenceLedger` | abstract: a directory is entered once, as it was found | |
| `IntakeProofs` | the theorems about registration | `BatchIntake`, `TLAPS` |
| `MCIntake` | two deliveries that share content, one request | `BatchIntake` |
| `EvidenceTrail` | the handlers' writes of evidence, findings, edges, objects and gaps, and the quality gate | `AssessmentGraph` |
| `MCEvidence` | the foundation graph over a small estate | `EvidenceTrail`, `FoundationGraph` |
| `EvidenceProofs` | the theorems about what the handlers leave behind | `EvidenceTrail`, `FiniteSetTheorems`, `WellFoundedInduction`, `TLAPS` |
| `AgentInvocation` | one agent node from `_execute_opencode` to its row: retry loop, adapter, envelope | |
| `AgentProofs` | the theorems about an invocation | `AgentInvocation`, `TLAPS` |
| `MCAgent` | what the external program may do | `AgentInvocation` |
| `LogAssembler`, `MCLogs` | physical lines become records | |
| `LogLifecycle` | records become stages and loop runs | |
| `LogStatus` | classification of a record and the outcome of a log (operators only) | |
| `LogReport`, `MCReport` | one pass over the records that drives both, as `_parse_stream` and `_metrics` do | `LogLifecycle`, `LogStatus` |
| `LogProofs` | the theorems about the assembler, and about stages, loop runs and the outcome | `LogAssembler`, `LogReport`, `FiniteSetTheorems`, `TLAPS` |
| `Checkpoints` | checkpoints, restore and the audit trail over one database file | |
| `CheckpointProofs` | the theorems about checkpoints and the trail | `Checkpoints`, `TLAPS` |
| `Configuration` | `load_config`: three documents merged, made into settings, validated (operators only) | |
| `GraphLoading` | reading and validating a graph document | |
| `Bootstrap` | migrations and what every command does to the database before its own work | |
| `Startup` | a command from the shell to its engine: the three above, in the order of `ApplicationContext` | `Bootstrap`, `Configuration`, `GraphLoading` (instance) |
| `MCStartup` | small graphs, three migrations, and configurations that say something of a section here and there | `Startup` |
| `StartupProofs` | the theorems about start-up | `Startup`, `SequencesExt`, `FiniteSetTheorems`, `WellFoundedInduction`, `TLAPS` |

`GraphEngine` is the centre. `BatchIntake`, `EvidenceTrail`, `AgentInvocation`
and `Startup` each open up one of its steps (`RegisterBatch`, `HandlerEnds` of
the other nodes and of an agent node, `OpenEngine`), with the engine reduced to
the rows that step reads and writes; the graphs `GraphLoading` accepts are its
constants. `ConcurrentCommands` opens up every step at once: what `GraphEngine`
takes as one repository call of one process is there the statements of several.
A module that only serves TLC has the prefix `MC`. `Variant:` marks an operator
that no action uses: it is the definition below it with a plausible mistake in
it, and PROJECT.json says which property notices.

### GraphEngine and the code

`nodeStatus`, `attempts` and `lastExec` are the columns of `node_states` (a node
without a row is PENDING, as `run_node` treats it); `execs` is `executions` in
order of insertion; `decisions`, `phase` and `flag` are the rows of the same
names; `openRequests`/`resolvedRequests` are `human_requests` by asking node
(the partial unique index allows one OPEN row per node and question, and each
handler asks one question). `pc`, `mode`, `cur`, `curExec`, `outcome`, `todo`,
`steps` are the command in progress and the locals of the Python frames it is
in. Each repository call that writes is one action:

    OpenEngine -> RecoverStaleRunning* -> EngineReady
    start:  SelectNext -> run_node -> SelectNext ... LeaveLoop
    run_node: SkipBlocked | RefuseNode
            | CreateExecution -> MarkRunning -> [AskForInput] -> HandlerEnds
              -> FinishExecution -> SettleNode
              -> TakeSnapshot -> (ActivateTarget | LeaveTargetAlone | PassEdgeOver
                                  | ConditionRaises) -> CreateDecision ... EndRouting
              -> MaybeAdvancePhase
    answer: ResolveRequest -> RegisterBatch | RegisterRaises
            -> ReleaseWaitingNode -> ActivateResumeNode
    unblock: Unblock
    at any point: Crash

A handler is a choice among the outcomes its code can report (`Outcomes`), among
them four faults: it reports failure, it raises, its envelope is rejected, or
the provider's quota is hit. What it extracts is data the engine never looks at
except through the predicates, which read statuses, the phase, requests (named
here by the node that asked), whether there is a batch, and one stored flag:
`registered` has the nodes whose answer was registered and those of
`BatchRegistrars` whose handler left a batch.

### BatchIntake and the code

`present`/`material` are `intake/raw`; `batchId` and `hashed` are the row of
`source_batches` of a directory (UNIQUE by `batch_dir`), where `hashed` is the set
of files the integrity hash covers and `{}` the empty string it is created with;
`artifacts` is `source_artifacts` in order of insertion; `manifests` the YAML
files; `flagged` the meta marks `batch:registered:<dir>`. `queue` is what a scan
of `list_batch_dirs` has still to visit; `NameOrder` is where `sorted` puts a
directory and `IsFirst` the one that comes next. `PlaceBatch`,
`AddArtifact` (one file), `WriteManifest`, `SealBatch`, `FlagBatch` and
`RecordFinding` are the writes of one registration. `intake.register` itself is
reduced to its row: the engine around it is `GraphEngine`, whose `RegisterBatch`
step is what this module opens up. `AddInput`, `DeliverAnswer` and `AskForInput`
put files under `intake/raw` at any time.

### EvidenceTrail and the code

`registered` are the files the manifests list; `evidence`, `findings`, `edges`,
`objects`, `gaps` the tables, whose rows are never deleted, and `open`/`resolved`
the requests by asking node. An operator per handler (`SasDiscover` ...
`QualityGate`) gives what it writes, in its order, and what it returns; a loop of
a handler is `Each` of a function that gives every item its writes, in the order
the items happen to come in. Every handler reads the files and rows it needs
before its first write, so `Begin` fixes the `script` and each write of `NodeContext` (`RegisterEvidence`,
`RegisterFinding`, `AddLineageEdge`, `UpsertDomainObject`, `RegisterGap`,
`RequestHumanInput`) is a step of its own. `HandlerRaises` and `Crash` break a
handler off between two of them. Ids are random in the code; here the node, the
attempt and the item identify a row, so a repeated attempt registers new rows, as
the code does. Around the handlers the engine is one row per node: scheduling by
phase and id with `requires`, attempts, the *always* edges, recovery, `run
<node>`, `unblock` and `answer`. What a file says is its `Columns` (which
kind of rows it is recognised as) and the names in them (`Names`, with the
`Words` the handlers put in themselves); a write edge, a macro
and an include of a program follow the pattern of a read and are left out. `read[n]`
is the material the last attempt of a node found (`Found`: an export that is listed
may be gone). Of it `Process` maps a program to its lower-cased stem and `Latest`
keeps the last one of each, as `process_map` does; a workbook in `Corrupt` has no rows.

### AgentInvocation and the code

`status` and `attempts` are the node's row, `execs` its executions with whether
`prompt_hash` is set. A call of the program is one of the `Replies`: a timeout,
no process, or an output of which the adapter looks at five facts. `Outcome` is
the order in which `OpenCodeAdapter.run` classifies it (resolution errors before
quota), `Call` one round of the loop of `engine.py:407`, `Validate` and the
`Finish...` actions what follows it, each write on its own, `SettleNode` the row.

### The log modules and the code

`LogAssembler` keeps the fields of the Python class; a line is the anchor
`detect_anchor` finds and the tests the continuation rules make (quote parity,
trailing dash, leading quote or dash, a date), a record is its anchor and line
numbers. `Consume` and `Finish` are the methods; `JoinDate`, `OpenPage`,
`Continue`, `StartRecord`, `ReadBlank` are the branches of `consume` in the order
of its early returns. `LogLifecycle` takes each record through
`build_lifecycle` (`stages`, `opening`, `context`) and `iterate_loop_runs` (`runs`,
`open`) in one step, and `LogReport` adds the draft that `derive_status_evidence`
judges. Reading record by record makes every prefix of a log a state, so the
properties also say what a report of a truncated log may claim.

### Checkpoints and the code

`live` is the database file (the assessment as a version number, the rows of
`checkpoints`, the ids in `audit_events`, and whether the file is whole), `trail`
the length of the JSONL file, `dirs` the checkpoint directories, `members` the
version of the protected workspace files. `MakeDirectory`, `Backup`,
`WriteManifest`, `Record` and the two writes of `Emit` are `create`; `StartRestore`,
`TruncateLive`, `FillLive` are `verify`, and the copy that opens the live file for
writing before it fills it. A hash is the content it stands for. `Mutate` is any
change, with its event or without: `register_finding`, `register_gap`, the objects
and edges of `base.py:194-219`, the FAILED row of an envelope that is turned away
(engine.py:329), the READY entry row (cli/main.py:103) and `set_meta` emit none.
`Damage` hits the files of a finished checkpoint at any time. Between verification
and copy nothing looks again, so the copy of a damaged file is what the damage made
of it: as it was, one that opens without what was saved, or one that does not open,
on which `connect` raises before the event of the restore is written.

### EngineReports and the code

`BlockedSummary` is `blocked_summary`: nodes without a row whose prerequisites
are missing and out of reach (`NotReachable`, with the recursion of
`_has_successful_runnable_prereq` as `RunnableSoon`, a fixed point over all nodes
at once, bounded by the number of nodes because an acyclic chain of requires is
no longer), and the open requests. `AssessmentCompletion` is in `GraphEngine`.

### ConcurrentCommands and the code

`proc[p]` is the Python frames of the command process `p` executes: where it is,
its node, request and execution, the row it read last (`row`), the arguments of
the `upsert_node_state` it is in (`call`), the rows recovery listed (`stale`) and
the edges still to route. `UpsertReads` and `UpsertWrites` are the SELECT and the
UPDATE or INSERT of repository.py:114-132, where an INSERT that comes second
violates the primary key and ends the command; `ListStale`, `RecoverNode`,
`CancelStale` are recovery; `AskForInput`, `InsertRequest`, `LookUpRequest` are
`create_request` with its partial unique index; `CheckRequest`, `ResolveRequest`,
`LookUpBatch`, `PlaceBatch`, `SealBatch`, `ReleaseWaitingNode`,
`ActivateResumeNode` are `answer_request`. Reading the row of a node and creating
its execution are one step: the new row is nobody else's yet. Every edge fires,
and phases and the flag are left out: they have one writer each per command and
nothing here reads them.

### Startup and the code

`Start` is a command with what `config/default.yaml`, the `SASSESSMENT_*` variables
and the overrides of a caller say; `LoadConfig` is `load_config` whole, down to the
errors that are no `SASsessmentError`. Of a value only what the checks tell apart
is kept: valid, of the right type but refused, no number. One setting of each kind
stands for the rest: a number that is compared, one that is not, a list that no
variable reaches, and the one at the top level, `active_assessment`.

`GraphLoading` then reads the graph row by row (`ReadNode`, `ReadEdge`,
`ReadMalformed`: the `ConfigurationError` and `KeyError` paths); `StartWalk` collects
the problems `validate` looks for before it walks, `Visit` is one round of the
worklist of `reachable_nodes`, and `Conclude` the last check. `edges` is a set: the
priorities, which `outgoing` sorts by, are left out, and the walk pushes its targets
in any order. `problems` is the list
that is raised. A rejected graph ends the command (`GraphRejected`) and may be
edited; an accepted one stays, as nothing in the program writes it.

`Construct` hands over to `Bootstrap`, where `files` are the migrations on disk,
`tables` the statements whose effect is in the schema and `versions` the rows of
`schema_migrations`; a script executes statement by statement because
`executescript` commits as it goes. `FindActive`, `AdoptOldest`,
`CreateAssessment`, `RememberCreated`, `RestoreMeta` are `ensure_bootstrap`;
`OpenSession` and `ReadyEntry` the rest of `engine()`. `ValidateEnds` is the command
that never opens the database.

## 3. Abstract specifications

* `AssessmentPlan` says what an assessment is without attempts, executions or
  commands: nodes are activated, along an edge of a node that is done or by an
  answer, and are done after what they require; neither is ever taken back.
  `GraphEngineRefinement` maps a node to *activated* when it has left PENDING and
  to *done* when it is SUCCEEDED or SKIPPED; `ImplementsPlan` is the refinement.
  TLC checks it on the shipped graph and `EngineImplementsPlan` proves it of every
  graph on which the engine is driven in order (`Orderly`, section 5).
* `EvidenceLedger` says what intake is: a directory is entered in the ledger at
  most once, with content it held, and an entry never changes. `ImplementsLedger`
  is the refinement of `BatchIntake`, proved as `IntakeImplementsLedger`.

## 4. Properties and runs

Every run ends with no deadlock check (`CHECK_DEADLOCK FALSE`), because the budget
of commands, lines or records of a run ends and then nothing is left to do; the
progress of the system is stated by the liveness properties instead.

| Run | What it shows | Bounds |
|---|---|---|
| `engine_recovery` | on the shipped foundation graph, with a kill between any two writes and one handler fault: attempt numbers of ended executions are distinct and within the limit (`AttemptsHardBounded`); nobody is activated or succeeds without a reason in the rows (`ActivationBacked`, `SuccessBacked`); what a node required stays satisfied (`PrerequisitesOutlive`) and a SUCCEEDED node stays so (`SucceededIsFinal`); `ImplementsPlan` | 4 commands, 1 kill, 1 fault, 2 attempts |
| `engine_live` | with a diligent operator: what does not depend on a request finishes although the request is never answered (`WaitingBlocksOnlyItself`), once it is answered the assessment completes (`AnswerCompletes`), both although `max_steps` cuts every long start short, and an assessment that stops BLOCKED shows a blocker or a failed node, or every mandatory node that is left over is the target of one it skipped (`StopIsExplained`: without kills no edge is lost) | 16 commands, 2 faults, 5 attempts, `max_steps` 6 |
| `engine_operator` | `EngineInv`, the inductive invariant of the proofs (the decision log agreeing with the rows, `DecisionsBacked`, is part of it), with every command on a graph that has an any-join, every predicate the shipped one lacks and a gate that asks in passing; the phase goes back only when a gate that had succeeded runs again (`PhaseRecedesByRerunOnly`) | 4 commands, 1 kill, 1 fault, `max_steps` 3 |
| `intake_registration` | a sealed batch is complete (`SealedIsComplete`), of the same content one artifact is the original (`OneOriginal`), the registered mark is never ahead of the registration (`IntakeInv`), `ImplementsLedger` | 2 deliveries + 1 request, 2 files, 3 arrivals, 4 commands, 1 kill, 1 unreadable file |
| `evidence_trail` | no citation dangles and a fact has one row, whatever is broken off or run again (`EvidenceInv`, the inductive invariant: a script cites what it has registered by then, and holds what its success will claim); a node that succeeded left every edge of what its last attempt read (`LineageIsComplete`); when the gate passes, every finding and edge traces to evidence (`GateTellsTheTruth`) | 4 estates of 1 to 4 files, 3 deliveries, 1 node by name, 2 answers, 1 break, 2 attempts |
| `agent_retries` | calls stay within `max_retries` (`InvocationInv`), a hold or an answer is the last call of its execution, the hold gives the attempt back and the answer is used (`DecisiveCallIsLast`), SUCCEEDED only on a verified last answer (`SucceededIsVerified`) | 2 retries, 2 attempts, 5 commands, 1 kill, every reply |
| `log_assembly` | no line is lost or listed twice (`NothingDropped`), wrapped TB_LOG rows are whole and pages keep apart (`AssemblyInv`), records on the stack do not change (`RecordsAreFinal`) | 5 lines of 13 kinds |
| `log_report` | every INI and FIN counts once, completed stages pair equals and nest, a stage belongs to one iteration, the outcome never improves by reading on (`ReportInv`, the inductive invariant: a stack holds the open stages of its key, marks of stages are lines that were read) | 5 records of 14 kinds |
| `checkpoint_restore` | the index of events follows the trail through kills and restores (`IndexFollowsTrail`), a recorded checkpoint is complete (`CheckpointInv`), what was damaged before it was verified is never restored (`RestoresWhatWasSaved`) | 2 checkpoints, 5 changes, 1 edit, 1 damage, 2 kills |
| `startup` | a setting is what its latest source says and what is refused is to blame (`PrecedenceHolds`); a graph is accepted exactly when well formed, reachability defined without the worklist (`VerdictIsExact`); a recorded version is applied whole (`RecordedIsApplied`); an opened engine is backed by its rows and kills make no second assessment (`OpenedIsBacked`); a refused command leaves no trace, no kill leaves a database on which commands fail, the walk forgets no edge, what a migration has not brought into the schema is still in its script (`StartupInv`, the inductive invariant); a command that is not killed ends (`EveryCommandEnds`) | 4 commands, 3 kills; 3 migrations of 2 statements; 3 ids, the empty id and one unknown, 3 edges; 5 kinds of setting |
| `concurrent_commands` | two commands at once, statement by statement: a row agrees with the execution it names, a node has one open request, nothing is numbered past its budget (`ConcurrencyInv`); rows and decisions still say only what happened (`WritesBacked`); an execution that ended stays as it ended (`EndedIsFinal`) | 2 processes (symmetric), 2 nodes, 3 commands, 1 kill, 2 attempts, `max_steps` 1 |
| `finding_lost_activation` | violated: a kill between SUCCEEDED and routing strands the successors | 2 commands, 1 kill |

**Why these bounds are enough.** A kill loses only the locals of one command and
recovery looks at nothing but rows, so one kill per run of the engine reaches
every pair *(rows a kill leaves, what the next command makes of them)*; the
attempt counter is the only thing that adds up, and two attempts with one fault,
one kill and one release exhaust it. Four commands are start, release, answer,
start. Six transitions cut the walk over the foundation graph into three starts. The foundation graph is the graph that is shipped, not a sample; the
shapes it lacks are in `MCOperator`. Two deliveries with one shared file are
what the duplicate lookup can tell apart; the third directory is the one
`answer` registers. The four estates give every handler something, nothing and
something it does not recognise, two writers of one edge (a workbook and a
dictionary that own `T1`), two programs of one name, a workbook that does not
open, files that are gone when they are looked for, and one break meets each write of each handler once. Two retries, two attempts and one kill reach a second round
after every kind of first round, in a first and in a last attempt. The longest
rule of the assembler spans a record, a page header, a blank line, its date and
what follows: five lines; four records nest two stages and the fifth closes or
follows them. Two checkpoints let a restore bring back, or forget, a row of the
other. Three nodes have every cycle a worklist meets: a self-loop, a pair, a
triangle with a tail. Three migrations can arrive in every order. Once a command
has come through, later ones vary the one setting the database looks at
(`Shipped`), as the others decide nothing past `load_config`. Two processes are
what a row can tell apart, its last writer and one more; with three commands one
of them starts, holds or answers while another recovers, runs the same node or
answers the same request; the theorems about this module have no bound.

**Environment.** `MaxCommands`, `MaxCrashes`, `MaxFaults`, `MaxDeliveries`,
`MaxDamages`, `MaxEdits`, `MaxRuns`, `MaxAnswers`, `MaxBreaks`, `MaxKills`, `Shipped` bound the environment and appear in its guards only;
`MaxLines`, `MaxRecords`, `MaxEdges` bound inputs. `MaxSteps`, `MaxCycles`,
`MaxRetries`, `MaxNodeAttempts` are limits of the code. One process works at a
time in every module but `ConcurrentCommands`: the documents assume one writer
(docs/threat-model.md:170), the program does not see to it, and that module says
what remains true when there are two. `engine_recovery` takes `lineage.dba_request` as the
only asking node, since a node that asks for more and succeeds, as the shipped
`intake.coverage` does, is run again by the answer (section 6): that is against
`SucceededIsFinal` and `ImplementsPlan`, which are checked without it. It is also
how the phase goes back, so `PhaseRecedesByRerunOnly` is checked where such a
node is, in `engine_operator`, and proved whichever nodes ask.

**Fairness.** `LiveSpec` assumes weak fairness of `EngineStep` (a command that was
started has nothing to wait for and no kills happen in that run) and of the
diligent operator, who starts when something is runnable and releases what
failed or is held, as docs/operator-guide.md asks. Nothing makes a human answer: `AnswerCompletes`
starts from the answer. `StartupSpec` assumes weak fairness of `StartupStep`: a process that is not killed
goes on, and nothing of who starts it, edits its graph or ships a migration.

## 5. What is proved

`GraphEngineProofs` proves, for every graph, every handler, every value of the
bounds and every sequence of commands, kills and faults:

| Theorem | Statement |
|---|---|
| `TypeCorrect` | `Spec => []TypeOK` |
| `AttemptsAreBounded` | `Spec => []AttemptsHardBounded` |
| `ActivationIsBacked` | `Spec => []ActivationBacked` |
| `SuccessIsBacked` | `Spec => []SuccessBacked` |
| `DecisionsAreBacked` | `Spec => []DecisionsBacked` |
| `OneNodeRuns` | `Spec => []OneNodeRunning` |
| `EngineInvariant` | `Spec => []EngineInv` |

They assume what `AssessmentGraph` and `GraphEngine` assume of their constants:
edges and requires lead to nodes (what `graph_from_json` and `validate`
establish for edges; for `requires` see section 6), limits are natural numbers,
and a handler reports one of the statuses `NodeResult` accepts.

None of these properties is inductive. They speak of rows, and a step in the
middle of `run_node` writes a row because of a local: that the execution in
progress carries the attempt the row counts, that nothing else is RUNNING, that
the node being routed succeeded. `GraphEngineInvariants` states those facts by
program point, and `EngineInv` is their conjunction with the properties:

* `TypeInv` (types, and the locals a step reads are there) is inductive by itself
  (`TypeInit`, `TypeStep`).
* `AttemptsInv` adds `ExecutionInProgress` and `AttemptsCounted`: the execution in
  progress has a larger attempt number than every execution of its node that
  used one up, and rows count at least those. A recovery or an unblock keeps the
  counter and a hold takes back exactly the attempt it did not use up, so the
  next number is always new.
* `JustifiedInv` adds `CommandJustified` with the three *backed* properties;
  `SuccessPersists` (an execution that succeeded stays succeeded) carries them
  over every later step.
* `RunningStep` does the same for `NothingElseRuns`: recovery empties RUNNING
  before anything else happens in a command.

`engine_operator` checks the same `EngineInv` with TLC, and `EngineInvariant` puts
the parts together.

The same module proves what lasts. The engine itself runs a node twice when it is
told to: `run <node>` passes the prerequisites over, and `answer` sets a node READY
whatever it is. The theorems therefore have a hypothesis on how the engine is
driven, and on which graph:

* `Orderly`: nobody runs a node by name; a node that asks for input does not succeed
  by itself (it is skipped or answered), and the node its answer activates is not
  the entry and is led to by the asking node alone. `FoundationIsOrderly` in
  `MCFoundation` has TLC evaluate it on the shipped graph as `engine_recovery`
  drives it; with `intake.coverage` among the askers it is false.
* `GatesInOrder`: what makes a later gate reachable is reached through the earlier
  gate alone (`OnlyThrough`). It says nothing of who asks or what is typed;
  `FoundationGates` has TLC evaluate it on the shipped graph, `OperatorGates` on the
  other.

| Theorem | Statement |
|---|---|
| `EngineImplementsPlan` | `Orderly => (Spec => ImplementsPlan)` |
| `PrerequisitesLast` | `Orderly => (Spec => []PrerequisitesOutlive)` |
| `PhasesRecedeByRerun` | `GatesInOrder => (Spec => PhaseRecedesByRerunOnly)` |
| `OrderlySuccessIsFinal` | `Orderly => (Spec => SucceededIsFinal)` |
| `OrderlyRunsArePrepared` | `Orderly => (Spec => []NeverRunsUnprepared)` |

`PlanInv` is the invariant: activation, preparation and answers are in order, and the
locals of a command say so of what it is about to write. A node that is satisfied
stays so because nothing sends it back: recovery and unblocking look at RUNNING,
FAILED and held nodes, and the node of an answer is reached by no one else.
`PhaseRecedesByRerunOnly` does not need it: `PhasesInOrder` says that the phase is the
one after a gate that was executed, and that what is reached only through a gate was
executed only after that gate had succeeded. So a gate that finds a later phase set
has succeeded before. That the shipped graph has such reruns is in section 6.

What a stop means needs a hypothesis of the other kind: nothing is killed between two
writes. `UninterruptedSpec` is the specification without `Crash`, whatever the
handlers report and the operator types; `LiveSpec` implies it.

| Theorem | Statement |
|---|---|
| `StopsAreExplained` | `Connected => (UninterruptedSpec => []StopIsExplained)` |
| `LiveStopsAreExplained` | `Connected => (LiveSpec => []StopIsExplained)` |
| `NoneIsLostWithoutKills` | `Registered => (UninterruptedSpec => []NoLostActivation)` |
| `NoOrphansWithoutKills` | `UninterruptedSpec => []NoOrphanExecution` |
| `OnlyEndedCountWithoutKills` | `UninterruptedSpec => []CrashConsumesNoAttempt` |
| `WaitingNodesAsked` | `WaitsOnlyAsked => (CompleteAnswers => []WaitingHasRequest)` |
| `CyclesAreBounded` | `IsFiniteSet(Nodes) => (Spec => []CyclesHardBounded)` |

* `Connected` says of a graph that its mandatory part hangs together: from the entry,
  along edges that always fire and nodes that are never skipped, every node another
  one requires is reached in an order that respects what it requires itself; the
  other mandatory nodes are one such edge away. Reachability is stated as it can be
  used without induction: no set of these nodes away from the entry is closed, it
  always has a member led to from outside that requires nothing inside.
  `FoundationIsConnected` in `MCFoundation` has TLC evaluate it on the shipped graph.
* `UninterruptedInv` is the invariant. `EdgesFollowed` says that the targets of a node
  that succeeded have rows, or are still in `todo` of the command that routes it;
  `AnswersResume` that a node released by an answer has activated its resume node, or
  the command is about to; `PassingAskersSucceed` that a node that asks in passing
  has succeeded before it can be answered; `EntryFirst` and `StatusesReturned` that a
  row holds what a handler of its node returns; `NoneLeftRunning` that the execution
  in progress is the only one RUNNING. TLC agreed with it, as an invariant of
  `engine_live`, before it was proved.
* The argument for a stop: if nothing is runnable, failed or in the summary, take the
  assured nodes that are not satisfied. Were there any, one of them would be led to
  from a satisfied node and require satisfied nodes only; it would have a row, and
  none of the statuses is left for it. So what is left over is no assured node, and
  the node that leads to it was skipped.
* `WaitsOnlyAsked` says that no handler waits without asking, `CompleteAnswers` that no
  registration of an answer raises. `WaitingHasRequest` needs both, and no kill:
  section 6 has what happens without.
* `CyclesAreBounded` carries `steps` through the loop of `run`: each bound is looked at
  after a node has run, hence the one transition that is always allowed. It needs
  neither hypothesis; the graph must be finite for its edges to be counted.

`ConcurrentProofs` proves, for any number of processes and every interleaving of
their statements, kills included:

| Theorem | Statement |
|---|---|
| `TypesSurviveConcurrency` | `Spec => []TypeOK` |
| `ConcurrencyIsSafe` | `Spec => []ConcurrencyInv` |
| `ConcurrentWritesAreBacked` | `Spec => []WritesBacked` |
| `EndedExecutionsAreFinal` | `Spec => EndedIsFinal` |

A process writes from what it has read, and between the two anything may have
happened. So each invariant speaks of the database and, for every process, of
what its locals will make it write; `IInv` is the conjunction, in
`ConcurrentCommands`:

* `TypeInv`: types, and the locals a step reads are there although others add
  executions and requests (`Grows`).
* `OwnInv`: an execution that is RUNNING belongs to one process, and a RUNNING row,
  a listing of it or a write of it names none. It is what keeps recovery from
  ending an execution, its own or another's: `EndedStays`.
* `BackedInv`: what a process is about to write, or to route from, has happened.
  Successes and resolutions are never taken back (`HistoryStays`), so it may happen
  long before it is written.
* `AgreeInv`: a process that will name an execution in a row will write the status
  that execution ended with, and the attempts it will write, or has read and will
  write back, are within the budget. Neither would hold if the RUNNING row named
  its execution, or if a row were read before its limit was looked at.
* `OneOpenRequest` is inductive by itself: the index refuses what the SELECT of
  `create_request` could not see.

For the other components an invariant of the run is the inductive one, so that TLC
and the prover speak of the same formula:

| Module | Theorem | Statement |
|---|---|---|
| `CheckpointProofs` | `CheckpointsAreComplete` | `Spec => []CheckpointInv` |
| | `IndexIsBacked` | `Spec => []IndexFollowsTrail` |
| | `RestoresAreVerified` | `Spec => RestoresWhatWasSaved` |
| | `UndisturbedRestoresSurvive` | `MaxCrashes = 0 => (Spec => [](LiveSurvives \/ damagedSince))` |
| `IntakeProofs` | `IntakeIsSafe` | `Spec => []IntakeInv` |
| | `HashesAreKept` | `Spec => []SealedIsComplete` |
| | `DuplicatesLeadBack` | `Spec => []OneOriginal` |
| | `IntakeImplementsLedger` | `Spec => ImplementsLedger` |
| | `UndisturbedIsIdempotent` | `Undisturbed => (Spec => []NeverRefused)` |
| | `FindingsAreKeptWithoutKills` | `MaxCrashes = 0 => (Spec => []SucceededHasFindings)` |
| | `OnlyAnswersBringBatches` | `"run" \notin Commands => (Spec => []AnswerIsIngestible)` |
| `EvidenceProofs` | `EvidenceIsSafe` | `Spec => []EvidenceInv` |
| | `GatePassIsTruthful` | `Spec => GateTellsTheTruth` |
| | `LineageStaysComplete` | `Spec => []LineageIsComplete` |
| `AgentProofs` | `InvocationIsSafe` | `Spec => []InvocationInv` |
| | `DecisiveCallsEnd` | `Spec => []DecisiveCallIsLast` |
| | `SuccessIsVerified` | `Spec => []SucceededIsVerified` |
| | `QuotaIsHeldApart` | `PatternsApart => (Spec => []QuotaPauses)` |
| `LogProofs` | `LinesAreKept` | `Spec => []NothingDropped` |
| | `AssemblyIsSafe` | `Spec => []AssemblyInv` |
| | `RecordsStand` | `Spec => RecordsAreFinal` |
| | `ReportIsSafe` | `ReportSpec => []ReportInv` |
| | `MarksCountOnce` | `ReportSpec => []EveryMarkCountsOnce` |
| | `RunsKeepApart` | `ReportSpec => []RunsAreDisjoint` |
| | `OutcomeIsMonotone` | `ReportSpec => OutcomeNeverImproves` |
| `StartupProofs` | `StartIsSafe` | `Ghosts = {} => (StartupSpec => []StartupInv)` |
| | `MigrationsAreWhole` | `StartupSpec => []RecordedIsApplied` |
| | `VerdictsAreExact` | `StartupSpec => []VerdictIsExact` |
| | `PrecedenceIsKept` | `StartupSpec => []PrecedenceHolds` |
| | `OpeningIsBacked` | `Ghosts = {} => (StartupSpec => []OpenedIsBacked)` |
| | `OrderedReleasesAreApplied` | `StartupSpec /\ ReleasesInOrder => []EveryFileIsApplied` |
| | `MigrationsAreAtomicWithoutKills` | `MaxCrashes = 0 => (StartupSpec => []MigrationIsAtomic)` |
| | `InitCreates` | `Ghosts = {} => (StartupSpec => []InitCreatesAssessment)` |

* **Checkpoints.** `TargetIsReached` says what a command has already done to its
  directory at each of its writes, and `ManifestIsLast` that a directory with a
  manifest is complete; so the row, written last of all, never promises more than
  there is. The index follows the trail through a restore because snapshots are
  in order too, and through a kill because a line without its row is skipped for
  good (`LineIsNew`). A restore copies what it verified unless a file was damaged in
  between, which `damagedSince` remembers; without kills the live file is whole but
  in the middle of a copy or after such damage (`LiveIsWhole`).
* **Intake.** `BatchInProgress` ties the locals of `register_batch` to the rows it has
  written (`listed` are the rows of the directory, `unread` the files without one),
  `NothingSkipped` says that what a scan has not sealed is still in its queue, and
  `RowsAreBacked` that a row has its file. A hash is then taken over all rows, and
  the refinement maps it to the entry of the ledger. Where nothing breaks off, the one
  row without a hash is the one in progress (`NoneBrokeOff`), and a mark without its
  finding the one at hand (`FindingsFollow`). An answer brings a batch of its own as
  long as the scan is over before there is a request (`OnlyAnswersRegister`): it is
  `run intake.register`, later, that finds the destination first.
* **Evidence trail.** What is proved of a handler is that its script is `Sound`: it
  cites only what it registers before (`CitesInOrder`), and a script that ends in
  success adds every edge of what the attempt read. There is a lemma per handler.
  Scripts are loops joined end to end, so `FlattenKeeps` says that a set of
  sequences closed under joining holds every flattened one: the library's `FlattenSeq`
  is a recursive function, taken apart by a least counterexample
  (`LeastNatural`) since induction over data is not to be had. While a script is
  being written `CitesInOrder(script, evidence)` moves its head into the tables;
  broken off anywhere, what is there cites what is there. `NothingForgotten` is why
  an edge that another node had written, or an earlier attempt, is not missed, and
  `GateHasJudged` that no one writes between the gate's look and its verdict
  (`OneNodeAtWork`). What an attempt read is less than what is registered:
  `LineageCoversFiles` in section 6.
* **Agent invocation.** Every call but the last was one to be repeated (`CallsSoFar`),
  and an ended execution says what its last call says (`EndedAsCalled`), for every
  budget of retries. The order in which the adapter tries its patterns is of account
  only for an output that matches two (`PatternsApart`).
* **Assembler.** The lines of the records, read in order, are the lines with text:
  each branch of `consume` appends one line to the last record or starts the next,
  and the date rule needs that what was read since the page header is blank
  (`DateIsAwaited`). Logs have any length.

* **Log report.** A stack holds, in order, exactly the stages that are open under
  its key, so a FIN closes the last of them and is an orphan only when there is none;
  then no two stages share a line that starts or ends one, and the lines of INI and
  FIN rows can be counted by stages. The outcome is a function of sets of lines that
  only grow, each of which can only make it worse. Logs have any length, keys any
  number. `LogAssembler` and `LogReport` are proved about in one module; neither
  uses the other's definitions.
* **Start-up.** The database, the graph and the command each keep an invariant of
  their own. What the walk has seen or still holds is reachable and closed but for
  what it holds, and reachability is the least closed set with the entry
  (`ReachableIsLeast`): an empty worklist has seen exactly it, for every finite graph
  and every order of pushing. What a migration has not brought into the schema is
  still in its script while it runs, so its row comes last. `Ghosts = {}` says that
  no configuration names an assessment that was never created: with one the command
  fails (section 6), and only what forbids that failure needs the hypothesis.
  If releases come in order, what is not recorded lies above what is
  (`RecordedFirst`), so that what the migrator has pending is what is not applied;
  without kills the one version that is in the schema and not recorded is the one
  whose script executes (`OneUnderWay`).

Every invariant and action property of a passing run is stated by a theorem. Only
model-checked: the liveness properties `WaitingBlocksOnlyItself`, `AnswerCompletes`
and `EveryCommandEnds`, and with them whatever needs ENABLED, which are out of the
prover's reach.

## 6. Where the code and its documents part

One of these has a run of its own. The others are definitions in the section
of their module headed "statements ... the code does not keep": TLC refutes each
when it is the only invariant (or property) of the named configuration with the
changes given.

| What the code does | What is said | Definition, configuration |
|---|---|---|
| `recover_stale_running` looks the half-open execution up by `last_execution_id`, which the RUNNING upsert has set to NULL: executions stay RUNNING (engine.py:526) | engine.py:513, "their executions are marked CANCELLED" | `NoOrphanExecution`, EngineRecovery |
| recovery writes back the counted attempt, so a kill uses one up (engine.py:522) | engine.py:512, "attempt not consumed" | `CrashConsumesNoAttempt`, EngineRecovery |
| the SUCCEEDED row commits before its edges are routed (engine.py:347) | docs/operator-guide.md:168, "resumable at any point" | `NoLostActivation`, run `finding_lost_activation` |
| an answer sets the resume node READY whatever its status, by default the asking node (cli/main.py:310) | docs/operator-guide.md:176, "SUCCEEDED nodes are never re-run" | `SucceededIsFinal`, EngineRecovery with `Askers = {"intake.coverage"}`, `BlockingAskers = {}`, `Outcomes <- SuppliedOutcomes` |
| the shipped gate `intake.coverage` asks, succeeds and is resumed by the answer; its rerun sets phase2 whatever the phase has become (cli/main.py:310, engine.py:498-503) | docs/graph-model.md:32, "gates phase advancement" | `PhaseNeverRecedes` (property), EngineRecovery with `Askers = {"intake.coverage"}`, `BlockingAskers = {}`, `Outcomes <- SuppliedOutcomes` |
| `run <node>` never evaluates `requires` (engine.py:258) | engine.py:51, "a node never runs before its `requires` are SUCCEEDED" | `NeverRunsUnprepared`, EngineOperator |
| `unblock` releases an exhausted FAILED node (cli/main.py:329) | docs/graph-model.md:84, "After exhaustion the node stays FAILED" | `ExhaustedStaysFailed`, EngineRecovery with 6 commands, 2 faults |
| an exhausted node that `unblock` released is READY and first in the order: it raises out of the loop of every later start, before the node an answer resumes (engine.py:267) | docs/operator-guide.md:174-175, "the next `start` runs it" | `AnswerCompletes` (property), EngineLive with `MaxNodeAttempts = 2` |
| the request is resolved before the batch is registered; a failing registration leaves a waiting node nobody can release (cli/main.py:294) | docs/human-input-runbook.md:86-87, register, then RESOLVED | `WaitingIsAnswerable`, EngineRecovery |
| handlers without material wait for input without a request (demo/nodes.py:117) | docs/state-and-persistence.md:85, "blocked on human request" | `WaitingHasRequest`, EngineRecovery with `Outcomes <- UnsuppliedOutcomes` |
| a half registered directory violates UNIQUE at every later registration (registration.py:109) | docs/ADRs.md:46, "idempotent per `batch_dir`" | `NeverRefused`, IntakeRegistration |
| material added after the first start is never registered (cli/main.py:268) | cli/main.py:268, "run start to register" | `StartRegisters` (property), IntakeRegistration |
| the registered mark precedes the batch finding, which a kill loses (demo/nodes.py:128) | docs/operator-guide.md:168, "resumable at any point" | `SucceededHasFindings`, IntakeRegistration |
| the scan may register the destination of an open request, and the answer then names a batch without manifest (cli/main.py:298) | docs/human-input-runbook.md:86, "Registers the destination as a new batch" | `AnswerIsIngestible`, IntakeRegistration |
| the orphans finding and the mapping finding are filed with no evidence when nothing was correlated or mapped (demo/nodes.py:495, 665) | docs/evidence-and-provenance.md:11, "Every finding must cite evidence" | `EveryFindingCites`, EvidenceTrail |
| what is ingested after the gate passed is not judged again (demo/nodes.py:796) | demo/nodes.py:796, "all findings and lineage edges trace to existing evidence" | `PassedGateCovers`, EvidenceTrail |
| a later program of the same stem replaces the earlier one before its edges are drawn; a workbook that does not open is empty and an export that cannot be opened is passed over, and the node succeeds (demo/nodes.py:367, 188, 717) | demo/nodes.py:418, `artifacts` names every file | `LineageCoversFiles`, EvidenceTrail |
| `prompt_hash` is overwritten with NULL by every end but success (engine.py:315, 365) | docs/opencode-adapter.md:69, "Every invocation records a SHA-256 hash" | `HashRecorded`, AgentRetries |
| an output that matches a resolution error and a quota pattern burns the attempt (adapter.py:140) | docs/operator-guide.md:247, pauses "WITHOUT consuming attempt budget" | `QuotaPauses`, AgentRetries |
| a missing status counts as success (envelope.py:71) | docs/opencode-adapter.md:165, "All required fields are present and valid" | `StatusPresent`, AgentRetries |
| the branch for CHECKPOINT continuation is dead: three records (assembler.py:170) | docs/legacy-log-parser.md:32, "attach as one block" | `CheckpointIsOneBlock`, LogAssembly |
| a page header closes the message it interrupts (assembler.py:113) | docs/legacy-log-parser.md:30, "without forcing the previous message to be stale" | `MessageSurvivesPage`, LogAssembly |
| nested events of one key pair last in, first out (lifecycle.py:75) | docs/legacy-log-parser.md:41, "Nested events pair FIFO" | `NestedPairFifo`, LogReport |
| an iteration seen in between changes the key of rows without one (lifecycle.py:16) | docs/legacy-log-parser.md:40, `(component, job_id, entity, iteration)` | `OrphanHasNoOpenIni`, LogReport |
| `Ini` in mixed case is no marker (parsers.py:8) | docs/legacy-log-parser.md:43, "`Ini/Fin dmf_execution_expl` events" | `LoopEventsMakeRuns`, LogReport with `Records <- AllRecords`, `Events <- AllEvents` |
| the branch for TIME_SLEEP is dead (lifecycle.py:100) | docs/legacy-log-parser.md:44, "rows feed loop summaries" | `SleepsFeedRuns`, LogReport |
| an ERROR message about a library, data set or include is retyped and ignored (parsers.py:246) | parsers.py:200-201, the impact ERROR it was given | `ErrorMessageFails`, LogReport |
| any mark with a status gives SUCCESS; `FRAMEWORK_SUCCESS_STATUSES` is never read (status.py:53) | docs/legacy-log-parser.md:16, the marks that decide | `SuccessIsMarked`, LogReport with `AllRecords`, `AllEvents` |
| the row of a checkpoint is not in its own snapshot (checkpoints.py:61) | docs/state-and-persistence.md:129, "full database restoration" | `IntactIsRestorable`, CheckpointRestore with no edits, no damages, no kills |
| members are hashed and not copied, so an edit makes the checkpoint unusable (checkpoints.py:127) | docs/operator-guide.md:125, "immutable snapshot of the database and workspace state" | `IntactIsRestorable`, CheckpointRestore with one id, 1 change, no damages, no kills |
| restore overwrites the live file in place (checkpoints.py:142) | docs/operator-guide.md:188, "full state restoration if needed" | `LiveSurvives`, CheckpointRestore |
| the snapshot is read again for the copy, after it was hashed (checkpoints.py:121, 142) | state/checkpoints.py:29-30, "any mismatch aborts without touching live state" | `DamageNeverRestored` (property), CheckpointRestore |
| findings, gaps, objects, edges and the FAILED row of a rejected envelope have no event, and a kill separates any other change from its own (base.py:124, 134, 194, engine.py:329) | docs/state-and-persistence.md:98, "Every mutation emits an audit event" | `MutationsAreAudited`, CheckpointRestore, with `MaxCrashes = 0` too |
| `validate` does not look at `requires` (graph/model.py:102) | docs/graph-model.md:33, "node ids that must be SUCCEEDED" | `RequiresAreNodes`, Startup |
| `executescript` commits statement by statement (database.py:117) | docs/developer-guide.md:121, "within a transaction" | `MigrationIsAtomic`, Startup |
| a version below the highest recorded one is skipped (database.py:114) | docs/developer-guide.md:120, "already-applied versions" | `EveryFileIsApplied`, Startup |
| an active assessment named by the configuration is not looked up (cli/main.py:69) | docs/operator-guide.md:25, "creates the first assessment if none exists" | `InitCreatesAssessment`, Startup with `Ghosts = {99}` |
| a key no dataclass has raises a TypeError, a section with nothing under it an AttributeError (config.py:138-141) | docs/developer-guide.md:184, "All errors inherit from `SASsessmentError`" | `RefusalsAreConfigErrors`, Startup |
| `_ENV_MAP` has no entry for the redaction patterns (config.py:66) | docs/threat-model.md:90-91, "or the `SASSESSMENT_REDACTION_PATTERNS` environment variable" | `EveryVariableCounts`, Startup |
| recovery resets every RUNNING row, the one another process is executing too (engine.py:515); docs/threat-model.md:170 declares concurrent execution unsupported, nothing prevents it | engine.py:509, "left RUNNING after a crash" | `OnlyTheDeadRecover`, ConcurrentCommands |
| a node runs in two processes, one asks, the request is answered, and the other writes its WAITING_FOR_INPUT over it (repository.py:119) | docs/state-and-persistence.md:85, "blocked on human request" | `WaitingHasRequest`, ConcurrentCommands with `MaxKills = 0` |
| completion looks at what is runnable only after the mandatory nodes (engine.py:537) | docs/graph-model.md:166, RUNNING when "runnable work exists" | `CompletedHasNoWork`, EngineRecovery |
| a skipped node routes nothing, so a mandatory node it alone leads to is left over with no entry in the summary; `assessment_completion` has it among limitations no command prints (engine.py:131, cli/main.py:144) | workspace/backlog/BACKLOG.md:127, "`status` shows node states, blockers, open requests" | `BlockedShowsWhy`, EngineLive |

Most of these are true under a condition, and the condition says what the code owes
to which circumstance. The following hold, proved for every value of the constants:

| Statement | holds | Theorem |
|---|---|---|
| `NoLostActivation` | without kills, if every predicate is registered | `NoneIsLostWithoutKills` |
| `NoOrphanExecution`, `CrashConsumesNoAttempt` | without kills | `NoOrphansWithoutKills`, `OnlyEndedCountWithoutKills` |
| `SucceededIsFinal`, `NeverRunsUnprepared` | in spite of kills, if the graph is `Orderly`: no `run <node>`, and an answer resumes a node only the asking one leads to | `OrderlySuccessIsFinal`, `OrderlyRunsArePrepared` |
| `WaitingHasRequest`, and `WaitingIsAnswerable` with it | without kills, if no registration raises and no handler waits without asking | `WaitingNodesAsked` |
| `PhaseNeverRecedes` | in spite of kills, but for the rerun of a gate that had succeeded, if the gates are in order | `PhasesRecedeByRerun` |
| `LineageCoversFiles` | of the files the last attempt read, in spite of kills | `LineageStaysComplete` |
| `NeverRefused` | without kills and unreadable files | `UndisturbedIsIdempotent` |
| `SucceededHasFindings` | without kills | `FindingsAreKeptWithoutKills` |
| `AnswerIsIngestible` | in spite of kills, if nobody runs `intake.register` by name | `OnlyAnswersBringBatches` |
| `QuotaPauses` | if no output matches both patterns | `QuotaIsHeldApart` |
| `LiveSurvives` | without kills, and if no file of a checkpoint is damaged while it is copied | `UndisturbedRestoresSurvive` |
| `MigrationIsAtomic` | without kills | `MigrationsAreAtomicWithoutKills` |
| `EveryFileIsApplied` | in spite of kills, if releases ship ever higher versions | `OrderedReleasesAreApplied` |
| `InitCreatesAssessment` | in spite of kills, if the configuration makes no assessment up | `InitCreates` |

## 7. Not modelled

* Archive staging (`intake/staging.py`): no handler calls it.
* Spreadsheet readers, the scanner, ids, prompts, workspace
  layout, envelope wording and redaction: pure functions, formatting and I/O.
* Risks, assumptions, superseded findings: repository methods without a caller
  in the program.
* How a handler recognises a line, a sheet or a statement: which text becomes
  which name is a constant of `EvidenceTrail`; includes, macros and the *writes*
  edges follow the pattern of *reads*, and the edges between nodes are the *always*
  ones (`GraphEngine` has the others).
* Two processes in the handlers' evidence, in intake and in checkpoints: only the
  rows of the engine and of requests are taken apart statement by statement.
* What dry runs print. Beside the models, reading showed: `run <node> --dry-run`
  executes the node (cli/main.py:159, docs/threat-model.md:202); `run --dry-run`
  prints no edges (engine.py:234, docs/operator-guide.md:209);
  `opencode.max_output_bytes` truncates nothing (docs/threat-model.md:200);
  `limits.max_graph_cycles` is never read (docs/graph-model.md:82); no command line
  flag becomes an override of `load_config` (docs/architecture.md:116); a cycle of
  `requires` without rows makes the recursion of `blocked_summary` endless
  (engine.py:166), where `RunnableSoon` stops.

## 8. Plan

Done, in this order: the engine with its properties, refinement and proofs;
intake; agent invocation; logs; checkpoints; loading; bootstrap; the handlers'
evidence trail with the quality gate; configuration and the composition of
start-up; concurrent commands with their proofs; what the engine reports.

Next, models: archive staging once it is called; the rules of the DMF log node
(`demo/nodes.py:527`), which tie the metrics of `LogReport` to its flag; the
export and redaction of the audit trail.

Next, proofs: what restores the remaining statements of section 6 that hold under a
condition: `ExhaustedStaysFailed`, which needs more than the absence of `unblock` (an
answer releases a FAILED node too), and those of the evidence trail and of concurrent
commands.
