SPECIFICATION FairSpec
CONSTANTS
  MEMORY_START = 4
  MEMORY_END = 24
  SIZEOF_BLOCK = 2
  ALIGNMENT = 2
  WORD = 64
  PAGE_SIZE = 8
  Requests = {1, 4, 7}
  Counts = {2}
  MaxAllocations = 4
INVARIANTS TypeOK Tiling ClientsBlocks Aligned Coalesced FirstFit Accounting CopyInBounds PagesCounted
PROPERTIES BlocksStayPut CallReturns
