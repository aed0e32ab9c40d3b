SPECIFICATION OptSpec
CONSTANTS
  Scripts <- LoadSinkScripts
  Levels = {FALSE}
  Args = {0, 1, 2}
  Fuel = 12
INVARIANT OptSameMeaning
