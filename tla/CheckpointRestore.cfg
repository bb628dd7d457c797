CONSTANTS
  Ids = {"CKP-1", "CKP-2"}
  MaxChanges = 5
  MaxEdits = 1
  MaxDamages = 1
  MaxCrashes = 2
SPECIFICATION Spec
CHECK_DEADLOCK FALSE
INVARIANTS CheckpointInv IndexFollowsTrail
PROPERTIES RestoresWhatWasSaved
