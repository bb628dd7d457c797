CONSTANTS
  BatchDirs = {"BAT-export", "BAT-manual"}
  RequestDirs = {"req-1"}
  NameOrder <- SortedDirs
  Files = {"jobs.sas", "log.txt"}
  RequestDoc = "REQUEST.md"
  Content <- MCContent
  Commands = {"start", "run", "unblock", "answer"}
  IntakeAttempts = 2
  MaxDeliveries = 3
  MaxCommands = 4
  MaxCrashes = 1
  MaxFaults = 1
SPECIFICATION Spec
CHECK_DEADLOCK FALSE
INVARIANTS IntakeInv SealedIsComplete OneOriginal
PROPERTIES ImplementsLedger
