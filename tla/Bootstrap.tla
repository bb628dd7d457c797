----------------------------- MODULE Bootstrap -----------------------------
(***************************************************************************)
(* What every command does before its own work: ApplicationContext of      *)
(* cli/main.py applies the migrations (Migrator of state/database.py),     *)
(* finds or creates the active assessment and its open session, and makes  *)
(* the entry node READY.  Each write commits on its own; the process may   *)
(* be killed between any two, and an error ends the command.               *)
(***************************************************************************)
EXTENDS Naturals, Sequences, FiniteSets, FiniteSetsExt

CONSTANTS
  Versions,          \* version numbers of migration files
  Statements,        \* version -> number of statements of its script
  FirstVersions,     \* the files the first release ships
  Ghosts,            \* ids the environment may name that no assessment has
  MaxAssessments,    \* bound: assessments created
  MaxCommands,       \* bound: commands
  MaxCrashes         \* bound: times the process is killed

None == 0

ASSUME BootstrapAssumption ==
  /\ Versions \subseteq Nat \ {0} /\ IsFiniteSet(Versions)
  /\ Statements \in [Versions -> Nat]
  /\ FirstVersions \subseteq Versions
  /\ None \notin Ghosts
  /\ {MaxAssessments, MaxCommands, MaxCrashes} \subseteq Nat

VARIABLES
  files,       \* the versions in the migrations directory
  tables,      \* the statements whose effect is in the schema
  versions,    \* the rows of schema_migrations
  assessments, \* the rows of assessments, oldest first
  meta,        \* meta's active_assessment, None if there is no such row
  sessions,    \* the assessments of the rows of sessions, all OPEN
  ready,       \* the assessments whose entry node has a row
  override,    \* the active assessment the command's configuration names, or None
  wants,       \* what the command needs: "assessment" or "engine"
  pc,
  script,      \* the statements left of the script that is executing
  active,      \* the assessment the command works on
  commands, crashes

disk == <<tables, versions, assessments, meta, sessions, ready>>
call == <<override, wants, active>>
vars == <<files, disk, call, pc, script, commands, crashes>>

Ids == 1..MaxAssessments
Script(v) == {<<v, i>> : i \in 1..Statements[v]}
AllStatements == UNION {Script(v) : v \in Versions}

TypeOK ==
  /\ files \subseteq Versions
  /\ tables \subseteq AllStatements /\ versions \subseteq files
  /\ assessments \in Seq(Ids) /\ Len(assessments) <= MaxAssessments
  /\ meta \in Ids \cup Ghosts \cup {None}
  /\ sessions \subseteq Ids /\ ready \subseteq sessions
  /\ override \in Ids \cup Ghosts \cup {None}
  /\ wants \in {"assessment", "engine"}
  /\ pc \in {"idle", "migrate", "script", "row", "find", "remember", "restore",
             "session", "entry", "bootstrapped", "opened", "failed"}
  /\ script \in Seq(AllStatements)
  /\ active \in Ids \cup Ghosts \cup {None}
  /\ commands \in 0..MaxCommands /\ crashes \in 0..MaxCrashes

Init ==
  /\ files = FirstVersions /\ tables = {} /\ versions = {}
  /\ assessments = <<>> /\ meta = None /\ sessions = {} /\ ready = {}
  /\ override = None /\ wants = "engine" /\ pc = "idle"
  /\ script = <<>> /\ active = None /\ commands = 0 /\ crashes = 0

Created == {assessments[i] : i \in DOMAIN assessments}
AtRest == {"idle", "bootstrapped", "opened", "failed"}

\* A release brings a migration.
AddFile(v) ==
  /\ pc \in AtRest /\ v \notin files
  /\ files' = files \cup {v}
  /\ UNCHANGED <<disk, call, pc, script, commands, crashes>>

\* A command starts; its environment may name the active assessment.
Command(need, named) ==
  /\ pc \in AtRest /\ commands < MaxCommands
  /\ commands' = commands + 1
  /\ wants' = need /\ override' = named /\ active' = None
  /\ pc' = "migrate"
  /\ UNCHANGED <<files, disk, script, crashes>>

(***************************************************************************)
(* Migrator.apply_all.                                                     *)
(***************************************************************************)
CurrentVersion == Max(versions \cup {0})
Pending == {v \in files : v > CurrentVersion}

Migrating == Min(Pending)

\* Variant: the row is written before the script is executed.
AfterPickRow == "row"

AfterPick == "script"

PickMigration ==
  /\ pc = "migrate" /\ Pending # {}
  /\ script' = [i \in 1..Statements[Migrating] |-> <<Migrating, i>>]
  /\ pc' = AfterPick
  /\ UNCHANGED <<files, disk, call, commands, crashes>>

Migrated ==
  /\ pc = "migrate" /\ Pending = {}
  /\ pc' = "find"
  /\ UNCHANGED <<files, disk, call, script, commands, crashes>>

\* Variant: a statement fails when its object is there.
RerunsNever(s) == s \notin tables

\* Every statement of V001 is CREATE ... IF NOT EXISTS.
Reruns(s) == TRUE

\* executescript: every statement commits on its own.
ExecuteStatement ==
  /\ pc = "script" /\ script # <<>>
  /\ IF Reruns(Head(script))
       THEN /\ tables' = tables \cup {Head(script)}
            /\ script' = Tail(script)
            /\ UNCHANGED pc
       ELSE pc' = "failed" /\ UNCHANGED <<tables, script>>
  /\ UNCHANGED <<files, versions, assessments, meta, sessions, ready, call, commands, crashes>>

EndScript ==
  /\ pc = "script" /\ script = <<>>
  /\ pc' = "row"
  /\ UNCHANGED <<files, disk, call, script, commands, crashes>>

RecordVersion ==
  /\ pc = "row"
  /\ versions' = versions \cup {Migrating}
  /\ script' = <<>>
  /\ pc' = "migrate"
  /\ UNCHANGED <<files, tables, assessments, meta, sessions, ready, call, commands, crashes>>

(***************************************************************************)
(* ApplicationContext.ensure_bootstrap.                                    *)
(***************************************************************************)
Named == IF override # None THEN override ELSE meta

Adoptable == assessments # <<>>

FindActive ==
  /\ pc = "find" /\ Named # None
  /\ active' = Named /\ pc' = "restore"
  /\ UNCHANGED <<files, disk, override, wants, script, commands, crashes>>

AdoptOldest ==
  /\ pc = "find" /\ Named = None /\ Adoptable
  /\ active' = assessments[1] /\ pc' = "restore"
  /\ UNCHANGED <<files, disk, override, wants, script, commands, crashes>>

CreateAssessment ==
  /\ pc = "find" /\ Named = None /\ ~Adoptable
  /\ Len(assessments) < MaxAssessments
  /\ active' = Len(assessments) + 1
  /\ assessments' = Append(assessments, active')
  /\ pc' = "remember"
  /\ UNCHANGED <<files, tables, versions, meta, sessions, ready, override, wants, script,
                 commands, crashes>>

RememberCreated ==
  /\ pc = "remember"
  /\ meta' = active /\ pc' = "restore"
  /\ UNCHANGED <<files, tables, versions, assessments, sessions, ready, call, script,
                 commands, crashes>>

\* Variant: an adopted assessment is not remembered.
ToRememberNever == FALSE

ToRemember == meta = None

RestoreMeta ==
  /\ pc = "restore"
  /\ meta' = IF ToRemember THEN active ELSE meta
  /\ pc' = IF wants = "engine" THEN "session" ELSE "bootstrapped"
  /\ UNCHANGED <<files, tables, versions, assessments, sessions, ready, call, script,
                 commands, crashes>>

(***************************************************************************)
(* ApplicationContext.engine: the session, then the entry node.            *)
(***************************************************************************)
\* The foreign key of sessions refuses an id that assessments does not hold.
OpenSession ==
  /\ pc = "session"
  /\ IF active \in Created
       THEN sessions' = sessions \cup {active} /\ pc' = "entry"
       ELSE pc' = "failed" /\ UNCHANGED sessions
  /\ UNCHANGED <<files, tables, versions, assessments, meta, ready, call, script,
                 commands, crashes>>

ReadyEntry ==
  /\ pc = "entry"
  /\ ready' = ready \cup {active}
  /\ pc' = "opened"
  /\ UNCHANGED <<files, tables, versions, assessments, meta, sessions, call, script,
                 commands, crashes>>

Crash ==
  /\ pc \notin AtRest /\ crashes < MaxCrashes
  /\ crashes' = crashes + 1
  /\ pc' = "idle" /\ script' = <<>>
  /\ UNCHANGED <<files, disk, call, commands>>

\* A step of the command itself; Startup has what comes before and around it.
BootstrapStep ==
  \/ PickMigration \/ Migrated \/ ExecuteStatement \/ EndScript \/ RecordVersion
  \/ FindActive \/ AdoptOldest \/ CreateAssessment \/ RememberCreated \/ RestoreMeta
  \/ OpenSession \/ ReadyEntry

(***************************************************************************)
(* Properties.                                                             *)
(***************************************************************************)
(* A version is recorded only when the schema holds all of its script, so  *)
(* that a killed migration is taken up again and no statement is missing.  *)
RecordedIsApplied == \A v \in versions : Script(v) \subseteq tables

\* What a migration has not brought into the schema is still to be executed.
ScriptIsWritten ==
  /\ pc \in {"script", "row"} => Pending # {}
  /\ pc = "script" =>
       \A s \in Script(Migrating) : s \in tables \/ \E i \in DOMAIN script : script[i] = s
  /\ pc = "row" => Script(Migrating) \subseteq tables

\* A command works on an assessment that is there, or that its environment made up,
\* and by the time it opens a session the assessment is remembered.
ActiveIsThere ==
  /\ override \in Created \cup Ghosts \cup {None}
  /\ meta \in Created \cup Ghosts \cup {None} /\ sessions \subseteq Created
  /\ Len(assessments) <= 1
  /\ pc = "remember" => active \in Created
  /\ pc \in {"restore", "session", "entry", "opened"} => active \in Created \cup Ghosts
  /\ pc \in {"session", "entry", "opened"} => meta # None
  /\ pc \in {"entry", "opened"} => active \in sessions
  /\ pc = "opened" => active \in ready

(* Kills before the assessment is remembered do not multiply assessments:  *)
(* the next command adopts the one that is there.  The active assessment   *)
(* and every session name its row, and an opened engine has the entry node *)
(* of its own assessment ready.                                            *)
OpenedIsBacked ==
  /\ Len(assessments) <= 1
  /\ meta \in Created \cup {None} /\ sessions \subseteq Created
  /\ pc = "opened" => meta # None /\ active \in sessions \cap ready

(* No kill leaves the database in a state from which commands fail.        *)
NothingFails == pc # "failed"

(* docs/developer-guide.md: the Migrator "Applies pending migrations in    *)
(* version order within a transaction".                                    *)
MigrationIsAtomic ==
  pc \in AtRest => \A v \in Versions : Script(v) \subseteq tables \/ Script(v) \cap tables = {}

(* docs/developer-guide.md: pending migrations are those not among the     *)
(* "already-applied versions", and all of them are applied.                *)
EveryFileIsApplied == pc = "find" => files = versions

(* docs/operator-guide.md: init "creates the first assessment if none      *)
(* exists".                                                                *)
InitCreatesAssessment == pc = "bootstrapped" => assessments # <<>>

=============================================================================
