------------------------------ MODULE Startup ------------------------------
(***************************************************************************)
(* A command from the shell to its engine, in the order of                 *)
(* ApplicationContext of cli/main.py: the configuration is loaded, then    *)
(* the graph, and only then does the command touch the database, as        *)
(* Bootstrap has it.  A refusal ends the command; the operator may put     *)
(* right what was refused and try again.                                   *)
(***************************************************************************)
EXTENDS Bootstrap, Configuration

CONSTANTS
  Files,         \* contents config/default.yaml may have
  Environments,  \* settings of the SASSESSMENT_* variables
  Overrides,     \* explicit overrides a caller may pass
  Shipped,       \* bound: <<file, environment, overrides>> once a command has come through
  Names, Entries, RawNodes, RawEdges, MaxEdges   \* the graph file, as in GraphLoading

ASSUME StartupAssumption ==
  /\ Environments \subseteq [Settings -> Values \cup {Unset}]
  /\ Shipped \subseteq Files \X Environments \X Overrides
  /\ Entries \subseteq Names
  /\ RawNodes \subseteq [id: Names, legal: BOOLEAN, needsHandler: BOOLEAN,
                         handler: BOOLEAN, requires: SUBSET Names]
  /\ RawEdges \subseteq [source: Names, target: Names]
  /\ MaxEdges \in Nat

VARIABLES
  stage,      \* how far the constructor of the command has come
  given,      \* the file, environment and overrides of the command
  config,     \* what load_config made of them
  graph,      \* what is known of the graph file: bound, it changes only when rejected
  entry, nodes, edges, seen, frontier, problems, loading   \* the load of the graph

loadVars == <<entry, nodes, edges, seen, frontier, problems, loading>>
startVars == <<stage, given, config, graph>>
allVars == <<vars, startVars, loadVars>>

Loading == INSTANCE GraphLoading WITH pc <- loading

NothingGiven == <<>>
NoConfig == [outcome |-> "none", named |-> FALSE]

StartupInit ==
  /\ Init /\ Loading!Init
  /\ stage = "down" /\ given = NothingGiven /\ config = NoConfig /\ graph = "unread"

\* The operator types a command, and names an assessment only if there is one.
Start ==
  /\ stage = "down" /\ pc \in AtRest
  /\ commands < MaxCommands
  /\ \E file \in Files, env \in Environments, overrides \in Overrides :
       /\ commands > 0 => <<file, env, overrides>> \in Shipped
       /\ given' = <<file, env, overrides>>
       /\ config' = LoadConfig(file, env, overrides)
  /\ config'.values["active_assessment"] # Default => Created \cup Ghosts # {}
  /\ stage' = "configured"
  /\ UNCHANGED <<vars, graph, loadVars>>

\* The configuration is there, or the command ends; what the rest of the
\* start looks at is whether it names an assessment.
EndConfiguration ==
  /\ stage = "configured"
  /\ given' = NothingGiven
  /\ IF config.outcome = "loaded"
       THEN /\ stage' = "load"
            /\ config' = [outcome |-> "loaded",
                          named |-> config.values["active_assessment"] # Default]
       ELSE stage' = "down" /\ config' = NoConfig
  /\ UNCHANGED <<vars, graph, loadVars>>

\* load_graph reads the file anew; a file that has been read before is the same.
LoadStep ==
  /\ stage = "load" /\ graph = "unread"
  /\ Loading!Next
  /\ UNCHANGED <<vars, startVars>>

LoadingAsNew ==
  /\ entry' \in Entries /\ nodes' = {} /\ edges' = {} /\ seen' = {} /\ frontier' = <<>>
  /\ problems' = {} /\ loading' = "nodes"

GraphAccepted ==
  /\ stage = "load" /\ graph = "unread" /\ loading = "accepted"
  /\ graph' = "accepted"
  /\ LoadingAsNew
  /\ UNCHANGED <<vars, stage, given, config>>

GraphRejected ==
  /\ stage = "load" /\ (loading = "rejected" \/ graph = "rejected")
  /\ graph' = "rejected"
  /\ stage' = "down" /\ config' = NoConfig
  /\ LoadingAsNew
  /\ UNCHANGED <<vars, given>>

\* The operator edits the graph that was rejected.
EditGraph ==
  /\ stage = "down" /\ graph = "rejected"
  /\ graph' = "unread"
  /\ UNCHANGED <<vars, stage, given, config, loadVars>>

\* The constructor is done: the command proper begins.
Construct(need, named) ==
  /\ stage = "load" /\ graph = "accepted"
  /\ (named # None) <=> config.named
  /\ Command(need, named)
  /\ stage' = "up" /\ config' = NoConfig
  /\ UNCHANGED <<given, graph, loadVars>>

\* validate loads the graph and needs no database.
ValidateEnds ==
  /\ stage = "load" /\ graph = "accepted"
  /\ stage' = "down" /\ config' = NoConfig
  /\ UNCHANGED <<vars, given, graph, loadVars>>

DatabaseStep ==
  /\ stage = "up"
  /\ BootstrapStep
  /\ UNCHANGED <<startVars, loadVars>>

Close ==
  /\ stage = "up" /\ pc \in AtRest
  /\ stage' = "down"
  /\ UNCHANGED <<vars, given, config, graph, loadVars>>

Killed == Crash /\ UNCHANGED <<startVars, loadVars>>

\* Bound: a release comes once a command has come through.
Release ==
  /\ graph = "accepted"
  /\ \E v \in Versions : AddFile(v)
  /\ UNCHANGED <<startVars, loadVars>>

StartupStep ==
  \/ EndConfiguration \/ LoadStep \/ GraphAccepted \/ GraphRejected
  \/ \E need \in {"assessment", "engine"}, named \in Created \cup Ghosts \cup {None} :
       Construct(need, named)
  \/ ValidateEnds \/ DatabaseStep \/ Close

StartupNext ==
  \/ Start \/ EditGraph \/ StartupStep \/ Killed \/ Release

\* A process that is not killed goes on.
StartupSpec == StartupInit /\ [][StartupNext]_allVars /\ WF_allVars(StartupStep)

(***************************************************************************)
(* Properties.                                                             *)
(***************************************************************************)
StartTypeOK ==
  /\ TypeOK
  /\ stage \in {"down", "configured", "load", "up"}
  /\ stage = "configured" <=> given # NothingGiven
  /\ config.outcome \in {"none", "refused", "raised", "loaded"}
  /\ graph \in {"unread", "accepted", "rejected"}

(* A command that its configuration or its graph refuses leaves no trace   *)
(* in the database, and one that is past them meets no error of its own.   *)
RefusedTouchesNothing ==
  graph # "accepted" => tables = {} /\ versions = {} /\ assessments = <<>> /\ meta = None

\* The parts of a start come one after the other, each on what the last one left.
StartsInOrder ==
  /\ pc \notin AtRest => stage = "up"
  /\ stage = "up" => graph = "accepted"
  /\ graph # "unread" => loading = "nodes"
  /\ stage = "configured" =>
       /\ given \in Files \X Environments \X Overrides
       /\ config = LoadConfig(given[1], given[2], given[3])

(* What holds at every step of the start of a command, kills included, and *)
(* whatever its environment names.                                         *)
StartInv ==
  /\ StartTypeOK /\ StartsInOrder /\ Loading!LoadingInv
  /\ RefusedTouchesNothing /\ ScriptIsWritten /\ ActiveIsThere

(* No kill leaves a database on which a command fails that names no        *)
(* assessment but one that is there.                                       *)
StartupInv == StartInv /\ NothingFails

(* The graph a command goes on with is well formed, and none that is well  *)
(* formed is rejected.                                                     *)
VerdictIsExact == Loading!VerdictIsExact

(* docs/architecture.md: "code defaults < config/default.yaml <            *)
(* SASSESSMENT_* env vars < CLI flags", setting by setting and whatever    *)
(* else the sections hold; what is loaded is valid, and something some     *)
(* source says is to blame when it is not.                                 *)
PrecedenceHolds ==
  stage = "configured" =>
    LET file == given[1]
        env == given[2]
        overrides == given[3]
        Says(k) ==
          IF k \in DOMAIN overrides THEN overrides[k]
          ELSE IF k \in Variables /\ env[k] # Unset THEN env[k]
          ELSE IF Mapping(file, SectionOf[k]) /\ k \in DOMAIN file[SectionOf[k]]
            THEN file[SectionOf[k]][k] ELSE Default
        Wrong(k) ==
          \/ k \in Numeric /\ (Says(k) = Text \/ (k \in Variables /\ env[k] = Text))
          \/ SectionOf[k] # "top" /\ Says(k) = Invalid
    IN IF config.outcome = "loaded"
         THEN \A k \in Settings : config.values[k] = Says(k) /\ ~Wrong(k)
         ELSE \/ \E k \in Settings : Wrong(k)
              \/ \E s \in DOMAIN file : file[s] = Null \/ Stranger \in DOMAIN file[s]
              \/ ~(DOMAIN overrides \subseteq Overridable)

(* A process that is not killed comes to the end of its command: the       *)
(* migrations run out, the walk over the graph ends on every graph.        *)
EveryCommandEnds == stage # "down" ~> stage = "down"

(***************************************************************************)
(* Statements of the documents the code does not keep.                     *)
(***************************************************************************)
(* docs/developer-guide.md, Error handling: "All errors inherit from       *)
(* SASsessmentError".                                                      *)
RefusalsAreConfigErrors == config.outcome # "raised"

(* docs/threat-model.md: patterns can be added via "the                    *)
(* SASSESSMENT_REDACTION_PATTERNS environment variable"; as for the other  *)
(* settings, a variable that is set counts.                                *)
EveryVariableCounts ==
  stage = "configured" /\ config.outcome = "loaded" /\ given[3] = <<>> =>
    \A k \in Settings : given[2][k] # Unset => config.values[k] = given[2][k]

(* docs/graph-model.md, NodeDef: `requires` holds "node ids that must be   *)
(* SUCCEEDED before this node runs".                                       *)
RequiresAreNodes == Loading!RequiresAreNodes

=============================================================================
