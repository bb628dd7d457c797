CONSTANTS
  Components = {"load", "loop"}
  Entities = {}
  Iterations = {"i1", "i2"}
  Jobs = {"J1"}
  Records <- LogRecords
  Events <- LogEvents
  MaxRecords = 5
SPECIFICATION ReportSpec
CHECK_DEADLOCK FALSE
INVARIANTS EveryMarkCountsOnce ReportInv RunsAreDisjoint
PROPERTIES OutcomeNeverImproves
