CONSTANTS
  NPROC = 5
  NPIPE = 4
  FD_MAX = 8
  CAP = 1
  ECHO = 5
  SIGNALS = 1
  Variants <- MCVariants
  LinesOf <- MCLinesOf
SPECIFICATION ShFairSpec
CHECK_DEADLOCK FALSE
INVARIANTS ShTypeOK NoChildLeft DescriptorsKept
PROPERTY PromptComes
