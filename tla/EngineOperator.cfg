CONSTANTS
  Nodes <- MCNodes
  Entry = "sys"
  IdRank <- MCIdRank
  PhaseOf <- MCPhaseOf
  PhaseGates = {"sys", "cover", "sas"}
  Optional = {}
  Outgoing <- MCOutgoing
  Requires <- MCRequires
  Join <- MCJoin
  MaxAttempts <- MCMaxAttempts
  MaxNodeAttempts = 5
  Outcomes <- MCOutcomes
  Askers = {"cover"}
  AskedOutcomes <- MCAskedOutcomes
  BlockingAskers = {}
  ResumeNode <- MCResumeNode
  FlagRaisers = {}
  BatchRegistrars = {"sys"}
  Commands = {"start", "run", "inspect", "answer", "unblock"}
  MaxSteps = 3
  MaxCycles = 25
  MaxCommands = 4
  MaxCrashes = 1
  MaxFaults = 1
SPECIFICATION Spec
CHECK_DEADLOCK FALSE
INVARIANTS EngineInv
PROPERTIES PhaseRecedesByRerunOnly
