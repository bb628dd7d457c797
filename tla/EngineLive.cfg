CONSTANTS
  Nodes <- FoundationNodes
  Entry = "sys.workspace"
  IdRank <- FoundationIdRank
  PhaseOf <- FoundationPhaseOf
  PhaseGates = {"sys.workspace", "intake.coverage", "sas.discover"}
  Optional = {"inventory.extract", "runtime.legacy_interpret"}
  Outgoing <- FoundationOutgoing
  Requires <- FoundationRequires
  Join <- FoundationJoin
  MaxAttempts <- FoundationMaxAttempts
  MaxNodeAttempts = 5
  Outcomes <- FaultyOutcomes
  Askers = {"lineage.dba_request"}
  AskedOutcomes <- FoundationAskedOutcomes
  BlockingAskers = {"lineage.dba_request"}
  ResumeNode <- FoundationResumeNode
  FlagRaisers = {"runtime.dmf_logs"}
  BatchRegistrars = {"intake.register"}
  Commands = {"start", "answer", "unblock"}
  MaxSteps = 6
  MaxCycles = 40
  MaxCommands = 16
  MaxCrashes = 0
  MaxFaults = 2
SPECIFICATION LiveSpec
CHECK_DEADLOCK FALSE
INVARIANTS StopIsExplained
PROPERTIES WaitingBlocksOnlyItself AnswerCompletes
