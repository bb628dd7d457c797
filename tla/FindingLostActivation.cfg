CONSTANTS
  Nodes <- FoundationNodes
  Entry = "sys.workspace"
  IdRank <- FoundationIdRank
  PhaseOf <- FoundationPhaseOf
  PhaseGates = {"sys.workspace", "intake.coverage", "sas.discover"}
  Optional = {"inventory.extract", "runtime.legacy_interpret"}
  Outgoing <- FoundationOutgoing
  Requires <- FoundationRequires
  Join <- FoundationJoin
  MaxAttempts <- FoundationMaxAttempts
  MaxNodeAttempts = 2
  Outcomes <- SuppliedOutcomes
  Askers = {"lineage.dba_request"}
  AskedOutcomes <- FoundationAskedOutcomes
  BlockingAskers = {"lineage.dba_request"}
  ResumeNode <- FoundationResumeNode
  FlagRaisers = {"runtime.dmf_logs"}
  BatchRegistrars = {"intake.register"}
  Commands = {"start"}
  MaxSteps = 64
  MaxCycles = 40
  MaxCommands = 2
  MaxCrashes = 1
  MaxFaults = 0
SPECIFICATION Spec
CHECK_DEADLOCK FALSE
INVARIANTS NoLostActivation
