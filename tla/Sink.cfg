SPECIFICATION OptSpec
CONSTANTS
  Scripts <- OptScripts
  Levels = {TRUE, FALSE}
  Args = {0, 1, 2}
  Fuel = 12
INVARIANTS
  OptSameMeaning
  OptSane
  NoMoreWork
  LiveinCorrect
PROPERTY OptTerminates
