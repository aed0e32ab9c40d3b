SPECIFICATION Spec
CONSTANTS
  WordBits = 8
  ImmBits = 4
  Procs <- SimplifyProcs
INVARIANTS
  MeaningKept
  SimplifySane
  ConstantsFolded
PROPERTY SimplifyTerminates
