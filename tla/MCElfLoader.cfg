CONSTANTS
  PAGE_SIZE = 4
  USER_MAX = 24
  PIE_BASE = 4
  USER_STACK_TOP = 16
  USER_STACK_PAGES = 1
  U64_MAX = 33
  EHDR_SIZE = 2
  PHDR_SIZE = 2
  ElfKinds = {"EXEC", "DYN"}
  Images <- MCImages
  ProgramHeaders <- MCProgramHeaders
  MaxHeaders = 2
  Zero = Zero
SPECIFICATION LoaderSpec
INVARIANTS
  SpecsExact
  ImageInMemory
PROPERTY
  LoadEnds
CHECK_DEADLOCK FALSE
