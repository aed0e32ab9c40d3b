SPECIFICATION SelectSpec
CONSTANTS
  Programs <- SelectPrograms
  Inputs <- SelectInputs
  WordBits = 16
  ImmBits = 8
  HalfBits = 6
  ByteBits = 4
  frameOffset = 8
INVARIANT
  CodeComputes
