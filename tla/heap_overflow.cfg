SPECIFICATION Spec
CONSTANTS
  MEMORY_START = 4
  MEMORY_END = 24
  SIZEOF_BLOCK = 2
  ALIGNMENT = 2
  WORD = 64
  PAGE_SIZE = 8
  Requests = {1, 33}
  Counts = {2}
  MaxAllocations = 4
INVARIANT ClientsBlocks
