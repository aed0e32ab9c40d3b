SPECIFICATION EmitSpec
CONSTANTS
  Scripts <- PhisScripts
  Levels = {FALSE}
  Args = {0, 1, 2}
  Fuel = 12
  NRegs = 3
  ArgReg = 3
  CallerSaved = {1, 2, 3}
  Uninitialized = {0}
INVARIANTS
  AllocKeepsMeaning
