SPECIFICATION Spec
CONSTANTS
  WordBits = 8
  ImmBits = 4
  Procs <- RenamedProcs
INVARIANT MeaningKept
