CONSTANTS
  Nodes <- FoundationNodes
  Entry = "sys.workspace"
  IdRank <- FoundationIdRank
  PhaseOf <- FoundationPhaseOf
  Outgoing <- FoundationOutgoing
  Requires <- FoundationRequires
  Join <- FoundationJoin
  MaxAttempts <- FoundationMaxAttempts
  MaxNodeAttempts = 2
  PhaseGates = {}
  Optional = {}
  Files <- EstateFiles
  Media <- EstateMedia
  Columns <- EstateColumns
  Mentions <- EstateMentions
  Blank = {"void"}
  Convertible = {"old"}
  Corrupt = {"torn"}
  MayVanish = {"jobs", "deps"}
  Process <- EstateProcess
  ReadOrder <- EstateReadOrder
  Staged <- EstateStaged
  Delivered <- EstateDelivered
  LiveDatabase = FALSE
  MaxRuns = 1
  MaxAnswers = 2
  MaxBreaks = 1
SPECIFICATION Spec
CHECK_DEADLOCK FALSE
INVARIANTS EvidenceInv LineageIsComplete
PROPERTIES GateTellsTheTruth
