---------------------------- MODULE BatchIntake ----------------------------
(***************************************************************************)
(* Registration of raw material: register_batch of intake/registration.py  *)
(* as the intake.register node and the answer command call it, over the    *)
(* tables source_batches and source_artifacts, the manifests directory and *)
(* the flags the node leaves in the meta table.                            *)
(*                                                                         *)
(* The operator and the teams that deliver write to intake/raw whenever    *)
(* they like.  Every row and file that registration writes is a step of    *)
(* its own, with a kill possible between any two.                          *)
(***************************************************************************)
EXTENDS Naturals, Sequences, FiniteSets

CONSTANTS
  BatchDirs,      \* directories named BAT-... that deliveries go to
  RequestDirs,    \* directories named req-..., made for a human request
  NameOrder,      \* where sorted() puts each of them
  Files,          \* names of delivered files
  RequestDoc,     \* REQUEST.md, written when the request is made
  Content,        \* what a file of a directory holds
  Commands,       \* the commands the operator issues
  IntakeAttempts, \* attempts the graph gives intake.register
  MaxDeliveries,  \* bound: files and directories put under intake/raw
  MaxCommands,    \* bound: commands issued
  MaxCrashes,     \* bound: times the process is killed
  MaxFaults       \* bound: files that cannot be read

Dirs == BatchDirs \cup RequestDirs
Names == Files \cup {RequestDoc}
ContentOf(d, f) == Content[<<d, f>>]
CommandNames == {"start", "run", "unblock", "answer"}
\* "own": the directory's name; "fresh": made up; "resolution": BAT-res-...
BatchIds == {"none", "own", "fresh", "resolution"}

ASSUME IntakeAssumption ==
  /\ BatchDirs \cap RequestDirs = {}
  /\ NameOrder \in [Dirs -> Nat]
  /\ RequestDoc \notin Files
  /\ DOMAIN Content = Dirs \X Names
  /\ Commands \subseteq CommandNames
  /\ {IntakeAttempts, MaxDeliveries, MaxCommands, MaxCrashes, MaxFaults} \subseteq Nat

VARIABLES
  \* intake/raw: the directories there are and the files in them
  present, material,
  \* source_batches, UNIQUE by batch_dir: the id and what integrity_hash covers
  batchId, hashed,
  \* source_artifacts in the order of insertion; manifests list their numbers
  artifacts, manifests,
  \* meta "batch:registered:<dir>" and the batch findings
  flagged, findings,
  \* the requests that are OPEN, RESOLVED, and answered to the end
  open, resolved, answered,
  \* the row of intake.register
  intake, attempts,
  \* the command in progress and its locals
  pc, mode, queue, cur, newId, unread, listed,
  \* how the last command ended
  last,
  \* what the environment has done so far
  deliveries, commands, crashes, faults

disk == <<present, material>>
tables == <<batchId, hashed, artifacts, manifests>>
marks == <<flagged, findings>>
requests == <<open, resolved, answered>>
node == <<intake, attempts>>
locals == <<mode, queue, cur, newId, unread, listed>>
budgets == <<deliveries, commands, crashes, faults>>
vars == <<disk, tables, marks, requests, node, pc, locals, last, budgets>>

Artifacts ==
  [dir: Dirs, path: Names, content: {Content[x] : x \in DOMAIN Content},
   duplicateOf: Nat]
Entries == Names \X {Content[x] : x \in DOMAIN Content}

TypeOK ==
  /\ present \subseteq Dirs /\ material \in [Dirs -> SUBSET Names]
  /\ batchId \in [Dirs -> BatchIds] /\ hashed \in [Dirs -> SUBSET Entries]
  /\ artifacts \in Seq(Artifacts) /\ manifests \in [Dirs -> SUBSET Nat]
  /\ flagged \subseteq Dirs /\ findings \subseteq Dirs
  /\ open \subseteq RequestDirs /\ resolved \subseteq RequestDirs
  /\ answered \subseteq RequestDirs
  /\ intake \in {"READY", "RUNNING", "WAITING_FOR_INPUT", "SUCCEEDED", "FAILED"}
  /\ attempts \in 0..IntakeAttempts
  /\ pc \in {"idle", "scan", "lookup", "hash", "seal", "return", "finding"}
  /\ mode \in CommandNames
  /\ queue \subseteq Dirs /\ cur \in Dirs \cup {"none"} /\ newId \in BatchIds
  /\ unread \subseteq Names /\ listed \subseteq Nat
  /\ last \in {"none", "started", "waiting", "answered", "error", "refused", "crashed"}
  /\ {deliveries, commands, crashes, faults} \subseteq Nat

Init ==
  /\ present = {} /\ material = [d \in Dirs |-> {}]
  /\ batchId = [d \in Dirs |-> "none"] /\ hashed = [d \in Dirs |-> {}]
  /\ artifacts = <<>> /\ manifests = [d \in Dirs |-> {}]
  /\ flagged = {} /\ findings = {}
  /\ open = {} /\ resolved = {} /\ answered = {}
  /\ intake = "READY" /\ attempts = 0
  /\ pc = "idle" /\ last = "none"
  /\ mode = "start" /\ queue = {} /\ cur = "none" /\ newId = "none"
  /\ unread = {} /\ listed = {}
  /\ deliveries = 0 /\ commands = 0 /\ crashes = 0 /\ faults = 0

(***************************************************************************)
(* Material arrives.                                                       *)
(***************************************************************************)
Arrive(d, names) ==
  /\ deliveries < MaxDeliveries
  /\ deliveries' = deliveries + 1
  /\ present' = present \cup {d}
  /\ material' = [material EXCEPT ![d] = @ \cup names]
  /\ UNCHANGED <<tables, marks, requests, node, pc, locals, last,
                 commands, crashes, faults>>

\* mkdir and cp of the operator guide, or add-input.
AddInput(d) ==
  /\ d \in BatchDirs
  /\ \E names \in {{}} \cup {{f} : f \in Files} : Arrive(d, names)

\* The team asked delivers to the destination of its request.
DeliverAnswer(d) ==
  /\ d \in open
  /\ \E f \in Files : Arrive(d, {f})

\* request_human_input, by a handler that is activated once intake has run.
AskForInput(d) ==
  /\ pc = "idle" /\ intake = "SUCCEEDED"
  /\ d \in RequestDirs \ present
  /\ present' = present \cup {d}
  /\ material' = [material EXCEPT ![d] = {RequestDoc}]
  /\ open' = open \cup {d}
  /\ UNCHANGED <<tables, marks, resolved, answered, node, pc, locals, last, budgets>>

(***************************************************************************)
(* Commands.                                                               *)
(***************************************************************************)
Issue(command) ==
  /\ pc = "idle"
  /\ command \in Commands /\ commands < MaxCommands
  /\ commands' = commands + 1
  /\ UNCHANGED <<deliveries, crashes, faults>>

EndCommand(how) ==
  /\ pc' = "idle" /\ last' = how
  /\ mode' = "start" /\ queue' = {} /\ cur' = "none" /\ newId' = "none"
  /\ unread' = {} /\ listed' = {}

\* A handler that raises, or a command that does: the node of a handler fails.
Raise(how) ==
  /\ EndCommand(how)
  /\ intake' = IF mode = "answer" THEN intake ELSE "FAILED"
  /\ UNCHANGED attempts

\* node_intake_register lists the directories once, when it starts.
Candidates == present

Exhausted == attempts >= IntakeAttempts

ListCandidates(command) ==
  IF Exhausted THEN EndCommand("error") /\ UNCHANGED node
  ELSE
    /\ attempts' = attempts + 1
    /\ IF Candidates = {}
         THEN intake' = "WAITING_FOR_INPUT" /\ EndCommand("waiting")
         ELSE /\ intake' = "RUNNING" /\ pc' = "scan"
              /\ mode' = command /\ queue' = Candidates
              /\ UNCHANGED <<cur, newId, unread, listed, last>>

\* `start` runs the node when it is READY and passes it over otherwise.
Start ==
  /\ Issue("start")
  /\ IF intake = "READY" THEN ListCandidates("start")
     ELSE EndCommand("started") /\ UNCHANGED node
  /\ UNCHANGED <<disk, tables, marks, requests>>

\* `run intake.register` runs it unless it is blocked or exhausted.
RunRegister ==
  /\ Issue("run")
  /\ intake # "WAITING_FOR_INPUT"
  /\ ListCandidates("run")
  /\ UNCHANGED <<disk, tables, marks, requests>>

Unblock ==
  /\ Issue("unblock")
  /\ intake = "FAILED" /\ intake' = "READY"
  /\ UNCHANGED <<disk, tables, marks, requests, attempts, pc, locals, last>>

Delivered(d) == material[d] \ {RequestDoc} # {}

\* answer_request resolves before it registers.
Answer(d) ==
  /\ Issue("answer")
  /\ d \in open
  /\ Delivered(d)
  /\ open' = open \ {d} /\ resolved' = resolved \cup {d}
  /\ pc' = "lookup" /\ mode' = "answer" /\ cur' = d /\ newId' = "resolution"
  /\ UNCHANGED <<disk, tables, marks, answered, node, queue, unread, listed, last>>

(***************************************************************************)
(* node_intake_register: one directory after the other, skipping those the *)
(* meta table marks.                                                       *)
(***************************************************************************)
IsFirst(d) == d \in queue /\ \A other \in queue : NameOrder[d] <= NameOrder[other]

NextCandidate(d) ==
  /\ pc = "scan" /\ IsFirst(d)
  /\ queue' = queue \ {d}
  /\ IF d \in flagged
       THEN UNCHANGED <<pc, cur, newId>>
       ELSE /\ pc' = "lookup" /\ cur' = d
            /\ newId' = IF d \in BatchDirs THEN "own" ELSE "fresh"
  /\ UNCHANGED <<disk, tables, marks, requests, node, mode, unread, listed, last, budgets>>

ScanDone ==
  /\ pc = "scan" /\ queue = {}
  /\ intake' = "SUCCEEDED"
  /\ EndCommand("started")
  /\ UNCHANGED <<disk, tables, marks, requests, attempts, budgets>>

(***************************************************************************)
(* register_batch.                                                         *)
(***************************************************************************)
Sealed(d) == hashed[d] # {}

AlreadyRegistered(d) == Sealed(d)

ReturnEarly ==
  /\ pc = "lookup" /\ AlreadyRegistered(cur)
  /\ pc' = "return"
  /\ UNCHANGED <<disk, tables, marks, requests, node, locals, last, budgets>>

\* UNIQUE (batch_dir) refuses a second row.
RowRefused(d) == batchId[d] # "none"

\* Variant: the row is replaced (INSERT OR REPLACE) before anything is checked.
PlaceBatchReplacing ==
  /\ pc = "lookup" /\ material[cur] # {}
  /\ batchId' = [batchId EXCEPT ![cur] = newId]
  /\ hashed' = [hashed EXCEPT ![cur] = {}]
  /\ unread' = material[cur] /\ listed' = {}
  /\ pc' = "hash"
  /\ UNCHANGED <<disk, artifacts, manifests, marks, requests, node,
                 mode, queue, cur, newId, last, budgets>>

PlaceBatch ==
  /\ pc = "lookup" /\ ~AlreadyRegistered(cur)
  /\ material[cur] # {}
  /\ ~RowRefused(cur)
  /\ batchId' = [batchId EXCEPT ![cur] = newId]
  /\ hashed' = [hashed EXCEPT ![cur] = {}]
  /\ unread' = material[cur] /\ listed' = {}
  /\ pc' = "hash"
  /\ UNCHANGED <<disk, artifacts, manifests, marks, requests, node,
                 mode, queue, cur, newId, last, budgets>>

\* An empty directory, or the row a registration that broke off has left.
RefuseBatch ==
  /\ pc = "lookup" /\ ~AlreadyRegistered(cur)
  /\ material[cur] = {} \/ RowRefused(cur)
  /\ Raise(IF material[cur] = {} THEN "error" ELSE "refused")
  /\ UNCHANGED <<disk, tables, marks, requests, budgets>>

\* Variant: duplicates are looked for in the batch only.
SameContentInBatch(d, c) ==
  {i \in DOMAIN artifacts : artifacts[i].content = c /\ artifacts[i].dir = d}

SameContent(d, c) == {i \in DOMAIN artifacts : artifacts[i].content = c}

\* The files are hashed in the order of their names, which nothing depends
\* on; the duplicate named is any artifact of the content (LIMIT 1).
AddArtifact(f) ==
  /\ pc = "hash" /\ f \in unread
  /\ LET c == ContentOf(cur, f)
         same == SameContent(cur, c)
     IN \E o \in (IF same = {} THEN {0} ELSE same) :
          artifacts' = Append(artifacts,
            [dir |-> cur, path |-> f, content |-> c, duplicateOf |-> o])
  /\ listed' = listed \cup {Len(artifacts) + 1}
  /\ unread' = unread \ {f}
  /\ UNCHANGED <<disk, batchId, hashed, manifests, marks, requests, node, pc,
                 mode, queue, cur, newId, last, budgets>>

ReadFails ==
  /\ pc = "hash" /\ unread # {}
  /\ faults < MaxFaults
  /\ faults' = faults + 1
  /\ Raise("error")
  /\ UNCHANGED <<disk, tables, marks, requests, deliveries, commands, crashes>>

WriteManifest ==
  /\ pc = "hash" /\ unread = {}
  /\ manifests' = [manifests EXCEPT ![cur] = listed]
  /\ pc' = "seal"
  /\ UNCHANGED <<disk, batchId, hashed, artifacts, marks, requests, node,
                 locals, last, budgets>>

\* Variant: the hash covers what the directory holds when it is written.
IntegrityOfDirectory(numbers) == {<<f, ContentOf(cur, f)>> : f \in material[cur]}

\* compute_integrity_hash over the files of the manifest.
Integrity(numbers) == {<<artifacts[i].path, artifacts[i].content>> : i \in numbers}

SealBatch ==
  /\ pc = "seal"
  /\ hashed' = [hashed EXCEPT ![cur] = Integrity(listed)]
  /\ pc' = "return"
  /\ UNCHANGED <<disk, batchId, artifacts, manifests, marks, requests, node,
                 locals, last, budgets>>

(***************************************************************************)
(* Back in the caller: the node marks the directory and records a finding, *)
(* answer_request releases the nodes (GraphEngine).                        *)
(***************************************************************************)
\* Variant: the mark is set before the batch is registered.
FlagBatchFirst ==
  /\ pc = "lookup" /\ mode # "answer"
  /\ cur \notin flagged
  /\ flagged' = flagged \cup {cur}
  /\ UNCHANGED <<disk, tables, findings, requests, node, pc, locals, last, budgets>>

FlagBatch ==
  /\ pc = "return" /\ mode # "answer"
  /\ flagged' = flagged \cup {cur}
  /\ pc' = "finding"
  /\ UNCHANGED <<disk, tables, findings, requests, node, locals, last, budgets>>

\* register_evidence and the finding that cites it.
RecordFinding ==
  /\ pc = "finding"
  /\ findings' = findings \cup {cur}
  /\ pc' = "scan"
  /\ UNCHANGED <<disk, tables, flagged, requests, node, locals, last, budgets>>

CompleteAnswer ==
  /\ pc = "return" /\ mode = "answer"
  /\ answered' = answered \cup {cur}
  /\ EndCommand("answered")
  /\ UNCHANGED <<disk, tables, marks, open, resolved, node, budgets>>

\* Recovery, first thing of the next command, makes a RUNNING node READY.
Crash ==
  /\ pc # "idle" /\ crashes < MaxCrashes
  /\ crashes' = crashes + 1
  /\ EndCommand("crashed")
  /\ intake' = IF intake = "RUNNING" THEN "READY" ELSE intake
  /\ UNCHANGED <<disk, tables, marks, requests, attempts, deliveries, commands, faults>>

(***************************************************************************)
(* Specification.                                                          *)
(***************************************************************************)
RegistrationStep ==
  \/ (\E d \in Dirs : NextCandidate(d)) \/ ScanDone
  \/ ReturnEarly \/ PlaceBatch \/ RefuseBatch
  \/ \E f \in Names : AddArtifact(f)
  \/ ReadFails \/ WriteManifest \/ SealBatch
  \/ FlagBatch \/ RecordFinding \/ CompleteAnswer

OperatorStep == Start \/ RunRegister \/ Unblock \/ \E d \in RequestDirs : Answer(d)

Arrival == \E d \in Dirs : AddInput(d) \/ DeliverAnswer(d) \/ AskForInput(d)

Next == RegistrationStep \/ OperatorStep \/ Arrival \/ Crash

Spec == Init /\ [][Next]_vars

(***************************************************************************)
(* Properties.                                                             *)
(***************************************************************************)
Rows(d) == {i \in DOMAIN artifacts : artifacts[i].dir = d}

(***************************************************************************)
(* An integrity hash is a promise: a batch that has one has its manifest,  *)
(* which lists every artifact row of the batch, and the hash covers        *)
(* exactly these (registration.py writes rows, manifest and hash apart).   *)
(***************************************************************************)
SealedIsComplete ==
  \A d \in Dirs : Sealed(d) =>
    /\ manifests[d] = Rows(d)
    /\ hashed[d] = {<<artifacts[i].path, artifacts[i].content>> : i \in manifests[d]}

(***************************************************************************)
(* duplicate_of (ADR-006): of the artifacts with one content exactly one,  *)
(* the first, is no duplicate, and every other leads back to an earlier    *)
(* one, whichever batches they came in and whichever broke off.            *)
(***************************************************************************)
OneOriginal ==
  \A i \in DOMAIN artifacts :
    IF artifacts[i].duplicateOf = 0
      THEN \A j \in 1..(i - 1) : artifacts[j].content # artifacts[i].content
      ELSE /\ artifacts[i].duplicateOf < i
           /\ artifacts[artifacts[i].duplicateOf].content = artifacts[i].content

(***************************************************************************)
(* The meta flag that makes node_intake_register skip a directory is never *)
(* ahead of the registration, and a SUCCEEDED intake has left no directory *)
(* half registered but one an answer broke off in: while a command scans,  *)
(* one that an earlier command left is still to come.                      *)
(***************************************************************************)
FlaggedIsSealed == \A d \in flagged : Sealed(d)

NothingSkipped ==
  \A d \in BatchDirs : RowRefused(d) /\ ~Sealed(d) =>
    /\ intake # "SUCCEEDED"
    /\ pc # "idle" /\ mode # "answer" =>
         d \in queue \/ (d = cur /\ pc \in {"lookup", "hash", "seal"})

\* Rows come after the files and the batch row they need.
RowsAreBacked ==
  /\ \A d \in Dirs : /\ material[d] # {} \/ RowRefused(d) => d \in present
                     /\ Sealed(d) \/ Rows(d) # {} => RowRefused(d)
  /\ \A i \in DOMAIN artifacts :
       /\ artifacts[i].path \in material[artifacts[i].dir]
       /\ artifacts[i].content = ContentOf(artifacts[i].dir, artifacts[i].path)

\* What register_batch has written of the batch it is at.
BatchInProgress ==
  /\ pc \in {"lookup", "hash", "seal", "return", "finding"} => cur \in Dirs
  /\ pc = "lookup" => newId # "none"
  /\ pc \in {"hash", "seal"} =>
       /\ RowRefused(cur) /\ ~Sealed(cur)
       /\ listed = Rows(cur) /\ unread \subseteq material[cur]
       /\ unread # {} \/ listed # {}
  /\ pc = "seal" => unread = {} /\ manifests[cur] = listed
  /\ pc \in {"return", "finding"} => Sealed(cur)

CommandInProgress ==
  /\ pc # "idle" /\ mode = "answer" => pc \notin {"scan", "finding"} /\ cur \in RequestDirs
  /\ intake = "RUNNING" <=> pc # "idle" /\ mode # "answer"

\* What holds at every step of a registration, kills included; inductive.
IntakeInv ==
  /\ TypeOK /\ FlaggedIsSealed /\ NothingSkipped
  /\ RowsAreBacked /\ BatchInProgress /\ CommandInProgress
  /\ SealedIsComplete /\ OneOriginal

Held == [d \in Dirs |-> {<<f, ContentOf(d, f)>> : f \in material[d]}]
Ledger == INSTANCE EvidenceLedger
  WITH Contents <- Entries, held <- Held, ledger <- hashed

(***************************************************************************)
(* Through kills, unreadable files and repeated commands, what is sealed   *)
(* of a directory is a set of files it held, and it is never sealed again. *)
(***************************************************************************)
ImplementsLedger == Ledger!Spec

(***************************************************************************)
(* Statements of the documents the code does not keep.                     *)
(***************************************************************************)
\* ADR-006: "batch registration: idempotent per batch_dir".
NeverRefused == last # "refused"

\* cli/main.py, add-input: "run start to register".  A start that ends at
\* once has left nothing unregistered.
StartRegisters ==
  [][commands' # commands /\ intake = "SUCCEEDED" /\ pc' = "idle" /\ last' = "started"
       => \A d \in BatchDirs : material[d] # {} => Sealed(d)]_vars

\* operator-guide.md: "The graph is resumable at any point".
SucceededHasFindings == intake = "SUCCEEDED" => flagged \subseteq findings

\* human-input-runbook.md, "Registers the destination as a new batch with id
\* BAT-res-...": node_ingest_dba looks the manifest up by resolution_batch_id,
\* where it should be when an answer is complete, with the delivery.
AnswerIsIngestible ==
  \A d \in answered :
    /\ batchId[d] = "resolution"
    /\ \E i \in manifests[d] : artifacts[i].path # RequestDoc

=============================================================================
