SPECIFICATION ScoringSpec
CONSTANTS
  Candidates <- MCCandidates
  MaxWindow = 3
  Configs <- MCConfigs
  MaxReloads = 1
  Unset = Unset
INVARIANTS
  ScoresAreDefined
  LabelsFollowScore
  FilterMissesNothing
PROPERTY FinalizeEnds
CHECK_DEADLOCK FALSE
