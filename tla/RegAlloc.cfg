SPECIFICATION EmitSpec
CONSTANTS
  Scripts <- AllocScripts
  Levels = {FALSE}
  Args = {0, 1, 2}
  Fuel = 12
  NRegs = 3
  ArgReg = 1
  CallerSaved = {1, 2}
  Uninitialized = {0}
INVARIANTS
  AllocKeepsMeaning
  AllocSane
  EmitKeepsMeaning
PROPERTIES
  EmitTerminates
