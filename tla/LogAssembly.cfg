CONSTANTS
  Lines <- LogLines
  MaxLines = 5
SPECIFICATION AssemblySpec
CHECK_DEADLOCK FALSE
INVARIANTS AssemblyInv NothingDropped
PROPERTIES RecordsAreFinal
