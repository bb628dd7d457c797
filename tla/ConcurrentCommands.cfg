CONSTANTS
  Nodes <- MCNodes
  Entry = "ask"
  IdRank <- MCIdRank
  PhaseOf <- MCPhaseOf
  PhaseGates = {}
  Optional = {}
  Outgoing <- MCOutgoing
  Requires <- MCRequires
  Join <- MCJoin
  MaxAttempts <- MCMaxAttempts
  MaxNodeAttempts = 5
  p1 = p1
  p2 = p2
  Processes = {p1, p2}
  Askers = {"ask"}
  Outcomes <- MCOutcomes
  AskedOutcomes <- MCAskedOutcomes
  ResumeNode <- MCResumeNode
  Commands = {"start", "run", "inspect", "answer", "unblock"}
  MaxSteps = 1
  MaxCommands = 3
  MaxKills = 1
SYMMETRY MCSymmetry
SPECIFICATION Spec
CHECK_DEADLOCK FALSE
INVARIANTS ConcurrencyInv WritesBacked
PROPERTIES EndedIsFinal
