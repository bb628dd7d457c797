CONSTANTS
  Versions = {1, 2, 3}
  Statements <- MCStatements
  FirstVersions = {1}
  Ghosts = {}
  MaxAssessments = 2
  MaxCommands = 4
  MaxCrashes = 3
  Names <- MCNames
  Entries = {"n1", "ghost"}
  RawNodes <- MCRawNodes
  RawEdges <- MCRawEdges
  MaxEdges = 3
  Settings <- MCSettings
  SectionOf <- MCSectionOf
  Numeric = {"max_node_attempts", "max_retries", "timeout_seconds"}
  Variables = {"max_node_attempts", "max_retries", "timeout_seconds", "active_assessment"}
  Overridable = {"max_node_attempts", "max_retries", "timeout_seconds", "active_assessment"}
  Files <- MCFiles
  Environments <- MCEnvironments
  Overrides <- MCOverrides
  Shipped <- MCShipped
SPECIFICATION StartupSpec
CHECK_DEADLOCK FALSE
INVARIANTS StartupInv VerdictIsExact PrecedenceHolds RecordedIsApplied OpenedIsBacked
PROPERTIES EveryCommandEnds
