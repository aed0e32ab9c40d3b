SPECIFICATION FairSpec
CONSTANTS
  Scripts <- MCScripts
  Levels = {TRUE, FALSE}
  Args = {0, 1, 2}
  Fuel = 12
INVARIANTS
  SameMeaning
  UseCountsExact
  DefsDominateUses
  PhisCoverEdges
PROPERTY DceTerminates
