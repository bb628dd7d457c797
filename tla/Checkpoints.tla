---------------------------- MODULE Checkpoints -----------------------------
(***************************************************************************)
(* state/checkpoints.py and the audit emitter of state/events.py over one  *)
(* database file: changes of the live state with their audit events,       *)
(* checkpoints created and restored, the process killed between any two    *)
(* writes, files of the workspace edited and files of a checkpoint damaged,*)
(* a restore in progress or not.                                           *)
(*                                                                         *)
(* A hash is the content it stands for: a manifest still hashes to what    *)
(* the checkpoints row says, and a snapshot to what the manifest says,     *)
(* exactly while the directory is intact.                                  *)
(***************************************************************************)
EXTENDS Naturals, Sequences, SequencesExt

CONSTANTS
  Ids,           \* checkpoint ids
  MaxChanges,    \* bound: changes of the state, restores included
  MaxEdits,      \* bound: edits of protected members
  MaxDamages,    \* bound: damaged files
  MaxCrashes     \* bound: times the process is killed

ASSUME CheckpointAssumption == {MaxChanges, MaxEdits, MaxDamages, MaxCrashes} \subseteq Nat

VARIABLES
  \* the live database: the assessment (a version), the rows of checkpoints
  \* and the numbers of the events in audit_events
  live,
  \* the number of events in the JSONL trail; event n is its n-th line
  trail,
  \* the version of the protected members of the workspace
  members,
  \* the directories of the checkpoints
  dirs,
  \* where the command is, and the checkpoint it works on
  pc, target,
  \* changes of the live state so far
  changes,
  \* what the environment did so far: damages, whether one of them hit the
  \* checkpoint of the last restore between its verification and the end of its
  \* copy, and kills
  damages, damagedSince, crashes

environment == <<damages, damagedSince, crashes>>
vars == <<live, trail, members, dirs, pc, target, changes, environment>>

Lost == [version |-> 0, rows |-> {}, events |-> <<>>, readable |-> FALSE]
Databases(n) ==
  [version: Nat, rows: SUBSET Ids, events: Seq(1..n), readable: BOOLEAN]
NoDirectory == [made |-> FALSE, snapshot |-> Lost, manifest |-> FALSE, members |-> 0, intact |-> TRUE]

TypeOK ==
  /\ live \in Databases(trail)
  /\ trail \in Nat /\ members \in 0..MaxEdits
  /\ dirs \in [Ids -> [made: BOOLEAN, snapshot: Databases(trail), manifest: BOOLEAN,
                       members: Nat, intact: BOOLEAN]]
  /\ pc \in {"idle", "backup", "manifest", "record", "append", "insert", "copy", "copying"}
  /\ target \in Ids
  /\ changes \in 0..MaxChanges
  /\ damages \in Nat /\ damagedSince \in BOOLEAN /\ crashes \in Nat

Init ==
  /\ live = [Lost EXCEPT !.readable = TRUE]
  /\ trail = 0 /\ members = 0
  /\ dirs = [id \in Ids |-> NoDirectory]
  /\ pc = "idle" /\ target \in Ids
  /\ changes = 0 /\ damages = 0 /\ damagedSince = FALSE /\ crashes = 0

(***************************************************************************)
(* AuditEmitter.emit: the line of the trail first, then the row.           *)
(***************************************************************************)
\* Variant: the trail is not written.
EmitIndexOnly == "insert"

Emit == "append"

AppendLine ==
  /\ pc = "append"
  /\ trail' = trail + 1
  /\ pc' = "insert"
  /\ UNCHANGED <<live, members, dirs, target, changes, environment>>

InsertEvent ==
  /\ pc = "insert"
  /\ live' = [live EXCEPT !.events = Append(@, trail)]
  /\ pc' = "idle"
  /\ UNCHANGED <<trail, members, dirs, target, changes, environment>>

(***************************************************************************)
(* Any change of the state by a node or a command.  Most are followed by   *)
(* their event; findings, gaps, objects and lineage edges, the FAILED row  *)
(* of an envelope that is turned away, the READY entry row and set_meta    *)
(* have none.                                                              *)
(***************************************************************************)
Count == changes < MaxChanges /\ changes' = changes + 1

Mutate ==
  /\ pc = "idle" /\ live.readable /\ Count
  /\ live' = [live EXCEPT !.version = changes + 1]
  /\ pc' \in {Emit, "idle"}
  /\ UNCHANGED <<trail, members, dirs, target, environment>>

(***************************************************************************)
(* CheckpointManager.create.                                               *)
(***************************************************************************)
MakeDirectory(id) ==
  /\ pc = "idle" /\ live.readable
  /\ ~dirs[id].made
  /\ dirs' = [dirs EXCEPT ![id].made = TRUE]
  /\ target' = id
  /\ pc' = "backup"
  /\ UNCHANGED <<live, trail, members, changes, environment>>

\* Variant: the row is written and the manifest left for later.
AfterBackupRecord == "record"

AfterBackup == "manifest"

Backup ==
  /\ pc = "backup"
  /\ dirs' = [dirs EXCEPT ![target].snapshot = live]
  /\ pc' = AfterBackup
  /\ UNCHANGED <<live, trail, members, target, changes, environment>>

\* The members are hashed, not copied.
WriteManifest ==
  /\ pc = "manifest"
  /\ dirs' = [dirs EXCEPT ![target].manifest = TRUE, ![target].members = members]
  /\ pc' = "record"
  /\ UNCHANGED <<live, trail, members, target, changes, environment>>

Record ==
  /\ pc = "record" /\ Count
  /\ live' = [live EXCEPT !.rows = @ \cup {target}]
  /\ pc' = Emit
  /\ UNCHANGED <<trail, members, dirs, target, environment>>

(***************************************************************************)
(* CheckpointManager.verify and restore; verify reads the row from the     *)
(* live database.                                                          *)
(***************************************************************************)
\* Variant: only the members are hashed again.
VerifiedMembersOnly(id) ==
  /\ id \in live.rows
  /\ dirs[id].members = members

Verified(id) ==
  /\ id \in live.rows
  /\ dirs[id].manifest /\ dirs[id].intact
  /\ dirs[id].members = members

StartRestore(id) ==
  /\ pc = "idle" /\ live.readable
  /\ Verified(id)
  /\ target' = id
  /\ pc' = "copy"
  /\ damagedSince' = FALSE
  /\ UNCHANGED <<live, trail, members, dirs, changes, damages, crashes>>

\* copyfile truncates the live file before it writes the first byte.
TruncateLive ==
  /\ pc = "copy"
  /\ live' = Lost
  /\ pc' = "copying"
  /\ UNCHANGED <<trail, members, dirs, target, changes, environment>>

\* What the copy can leave: the snapshot it was verified as or, when a file of
\* the directory was damaged since, also a file that does not open and one that
\* opens without what was saved.
Copied(dir) ==
  IF dir.intact THEN {dir.snapshot}
  ELSE {dir.snapshot, Lost, [Lost EXCEPT !.readable = TRUE]}

\* The copy is opened before its event is written: on a file that does not open
\* connect raises and the command ends without one.
FillLive ==
  /\ pc = "copying" /\ Count
  /\ live' \in Copied(dirs[target])
  /\ pc' = IF live'.readable THEN Emit ELSE "idle"
  /\ UNCHANGED <<trail, members, dirs, target, environment>>

(***************************************************************************)
(* The environment.  Files of a finished checkpoint are damaged at any     *)
(* time, between its verification and the end of its copy included.        *)
(***************************************************************************)
EditMember ==
  /\ members < MaxEdits
  /\ members' = members + 1
  /\ UNCHANGED <<live, trail, dirs, pc, target, changes, environment>>

Damage(id) ==
  /\ dirs[id].manifest /\ damages < MaxDamages
  /\ damages' = damages + 1
  /\ dirs' = [dirs EXCEPT ![id].intact = FALSE]
  /\ damagedSince' = (damagedSince \/ (id = target /\ pc \in {"copy", "copying"}))
  /\ UNCHANGED <<live, trail, members, pc, target, changes, crashes>>

Crash ==
  /\ pc # "idle" /\ crashes < MaxCrashes
  /\ crashes' = crashes + 1
  /\ pc' = "idle"
  /\ UNCHANGED <<live, trail, members, dirs, target, changes, damages, damagedSince>>

Next ==
  \/ AppendLine \/ InsertEvent \/ Mutate
  \/ \E id \in Ids : MakeDirectory(id)
  \/ Backup \/ WriteManifest \/ Record
  \/ \E id \in Ids : StartRestore(id)
  \/ TruncateLive \/ FillLive
  \/ EditMember \/ (\E id \in Ids : Damage(id)) \/ Crash

Spec == Init /\ [][Next]_vars

(***************************************************************************)
(* Properties.                                                             *)
(***************************************************************************)
(***************************************************************************)
(* state-and-persistence.md: "The JSONL file is the authoritative          *)
(* sequence.  SQLite is a queryable index": through kills and restores the *)
(* events of the live database and of every snapshot are lines of the      *)
(* trail, in its order and each once.                                      *)
(***************************************************************************)
InOrder(events) ==
  /\ \A i \in DOMAIN events : events[i] \in 1..trail
  /\ \A i \in 2..Len(events) : events[i - 1] < events[i]

IndexFollowsTrail ==
  /\ InOrder(live.events)
  /\ \A id \in Ids : InOrder(dirs[id].snapshot.events)

(***************************************************************************)
(* A row of the checkpoints table, live or in a snapshot that a restore    *)
(* can bring back, has a complete directory: a kill while one is created   *)
(* leaves no row.                                                          *)
(***************************************************************************)
Complete(id) ==
  /\ dirs[id].made /\ dirs[id].manifest /\ dirs[id].snapshot.readable
  /\ id \notin dirs[id].snapshot.rows

RecordedIsComplete ==
  /\ \A id \in live.rows : Complete(id)
  /\ \A other \in Ids : \A id \in dirs[other].snapshot.rows : Complete(id)

\* The manifest is the last file of a directory to be written.
ManifestIsLast == \A id \in Ids : dirs[id].manifest => Complete(id)

\* What the command has already done to its checkpoint, or knows of it.
TargetIsReached ==
  /\ pc \in {"backup", "manifest"} => dirs[target].made /\ ~dirs[target].manifest
  /\ pc = "backup" => live.readable
  /\ pc = "manifest" =>
       dirs[target].snapshot.readable /\ target \notin dirs[target].snapshot.rows
  /\ pc \in {"record", "copy", "copying"} => dirs[target].manifest
  /\ pc \in {"copy", "copying"} => dirs[target].intact \/ damagedSince

\* The line just written is the number of no row yet.
LineIsNew ==
  pc = "insert" => trail > 0 /\ \A i \in DOMAIN live.events : live.events[i] < trail

VersionsAreCounted ==
  /\ live.version <= changes
  /\ \A id \in Ids : dirs[id].snapshot.version <= changes

\* The inductive invariant of the component.
CheckpointInv ==
  /\ TypeOK /\ RecordedIsComplete /\ ManifestIsLast
  /\ TargetIsReached /\ LineIsNew /\ VersionsAreCounted /\ IndexFollowsTrail

(***************************************************************************)
(* "Restoration verifies hashes before replacing live state": the live     *)
(* state only goes back to what a checkpoint saved, and what was damaged   *)
(* before the hashes were verified never reaches it.  What is damaged      *)
(* after verify has read it does (DamageNeverRestored, below).             *)
(***************************************************************************)
GoesBack == live'.readable /\ (live'.version < live.version \/ ~live.readable)

FromCheckpoint ==
  \E id \in Ids : dirs[id].manifest /\ dirs[id].intact /\ live' = dirs[id].snapshot

RestoresWhatWasSaved == [][GoesBack => FromCheckpoint \/ damagedSince]_vars

(***************************************************************************)
(* Statements of the documents and of the code the program does not keep.  *)
(***************************************************************************)
\* state-and-persistence.md: "Checkpoint snapshots provide full database
\* restoration": a checkpoint that was created to the end and whose files are
\* intact can be restored.
IntactIsRestorable ==
  pc = "idle" /\ live.readable /\ crashes = 0 =>
    \A id \in Ids : dirs[id].manifest /\ dirs[id].intact => Verified(id)

\* operator-guide.md, after a crash: "Checkpoints provide full state
\* restoration if needed".
LiveSurvives == pc = "idle" => live.readable

\* checkpoints.py:29-30: "any mismatch aborts without touching live state": the
\* snapshot is read again for the copy, after it was hashed.
DamageNeverRestored == [][GoesBack => FromCheckpoint]_vars

\* state-and-persistence.md: "Every mutation emits an audit event".
MutationsAreAudited == pc = "idle" => trail = changes

=============================================================================
