SPECIFICATION OptSpec
CONSTANTS
  Scripts <- LoadHoistScripts
  Levels = {FALSE}
  Args = {0, 1, 2}
  Fuel = 12
INVARIANT OptSameMeaning
