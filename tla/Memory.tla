------------------------------- MODULE Memory -------------------------------
(***************************************************************************)
(* The memory manager of kernel/memory.c: the first-fit heap (kmalloc,     *)
(* kfree, kcalloc, krealloc and compact_free_blocks) and the page table    *)
(* (alloc_page, free_page).  No interrupt handler calls it, so a call runs *)
(* to its end before the next one starts.  Each turn of a loop over the    *)
(* block list is a step: what the list looks like decides how the loop     *)
(* ends.                                                                   *)
(*                                                                         *)
(* A block is the address of its header; its data starts SIZEOF_BLOCK      *)
(* bytes on, which is what the field `address` always holds.  The list     *)
(* the code calls free_list holds every block, free or not.                *)
(***************************************************************************)
EXTENDS Integers, FiniteSets, Functions

CONSTANTS
  MEMORY_START, MEMORY_END,  \* the managed region, MEMORY_END excluded
  SIZEOF_BLOCK,              \* sizeof(memory_block_t), 20 in the build
  ALIGNMENT,                 \* 4 in kmalloc
  WORD,                      \* uint32_t arithmetic is modulo 2^32
  PAGE_SIZE,
  Requests,                  \* the sizes clients ask for
  Counts,                    \* the element counts clients give kcalloc
  MaxAllocations             \* bound on the allocations of a behaviour

ASSUME RegionAssumption ==
  /\ MEMORY_START \in Nat \ {0} /\ MEMORY_END \in Nat /\ WORD \in Nat
  /\ SIZEOF_BLOCK \in Nat \ {0} /\ ALIGNMENT \in Nat \ {0} /\ PAGE_SIZE \in Nat \ {0}
  /\ MEMORY_START + SIZEOF_BLOCK < MEMORY_END /\ MEMORY_END < WORD
  /\ MEMORY_START % ALIGNMENT = 0 /\ MEMORY_END % ALIGNMENT = 0
  /\ SIZEOF_BLOCK % ALIGNMENT = 0
ASSUME RequestAssumption ==
  Requests \subseteq 1 .. WORD - 1 /\ Counts \subseteq Nat \ {0} /\ MaxAllocations \in Nat

VARIABLES
  blocks,                    \* the block list: header -> its fields
  free_memory,               \* memory_manager
  memory_stats,
  status, ref_count, free_pages, used_pages, \* pages[] and its counters
  pc, current,               \* the call in progress, and its loop variable
  req, aligned_size,         \* kmalloc: what the client asked for, rounded
  ptr, old_size,             \* kfree and krealloc: the argument, its size
  owned                      \* history: the client's pointers and requests

heap  == <<blocks, free_memory, memory_stats>>
pages == <<status, ref_count, free_pages, used_pages>>
vars  == <<heap, pages, pc, current, req, aligned_size, ptr, old_size, owned>>

NULL         == 0
Addresses    == MEMORY_START .. MEMORY_END - 1
total_memory == MEMORY_END - MEMORY_START
free_list    == MEMORY_START
address(b)   == b + SIZEOF_BLOCK

MAX_PAGES == total_memory \div PAGE_SIZE
Pages     == 0 .. MAX_PAGES - 1
PageAddress(i) == MEMORY_START + i * PAGE_SIZE

(* init_memory_manager(): one free block that spans the region.            *)
Init ==
  /\ blocks = [b \in {MEMORY_START} |->
                 [size |-> total_memory - SIZEOF_BLOCK, is_free |-> TRUE,
                  next |-> NULL, prev |-> NULL]]
  /\ free_memory = total_memory
  /\ memory_stats = [total_allocations |-> 0, total_frees |-> 0,
                     current_allocated |-> 0, peak_allocated |-> 0]
  /\ status = [i \in Pages |-> "PAGE_FREE"]
  /\ ref_count = [i \in Pages |-> 0]
  /\ free_pages = MAX_PAGES /\ used_pages = 0
  /\ pc = "idle" /\ current = NULL
  /\ req = 0 /\ aligned_size = 0 /\ ptr = NULL /\ old_size = 0
  /\ owned = [p \in {} |-> 0]

-----------------------------------------------------------------------------
(* kmalloc().                                                              *)

(* Mutant: sizes are not rounded.                                         *)
align_keeps_size(addr, alignment) == addr % WORD

align_address(addr, alignment) ==
  LET x == (addr + alignment - 1) % WORD IN x - (x % alignment)

(* Starts the search for a block; asked is what the client wants, size     *)
(* what kmalloc is called with.                                            *)
StartMalloc(size, asked) ==
  /\ memory_stats.total_allocations < MaxAllocations
  /\ pc' = "search" /\ current' = free_list
  /\ req' = asked /\ aligned_size' = align_address(size, ALIGNMENT)

kmalloc(size) ==
  /\ pc = "idle"
  /\ StartMalloc(size, size)
  /\ UNCHANGED <<heap, pages, ptr, old_size, owned>>

(* A product that wraps to 0 makes kmalloc return NULL at once.            *)
kcalloc(count, size) ==
  /\ pc = "idle"
  /\ (count * size) % WORD # 0
  /\ StartMalloc((count * size) % WORD, count * size)
  /\ UNCHANGED <<heap, pages, ptr, old_size, owned>>

(* Mutant: the header is counted as room.                                  *)
fits_over_header ==
  blocks[current].is_free /\ blocks[current].size + SIZEOF_BLOCK >= aligned_size

(* Mutant: a block of exactly the right size is passed over.               *)
fits_strictly == blocks[current].is_free /\ blocks[current].size > aligned_size

Fits == blocks[current].is_free /\ blocks[current].size >= aligned_size

kmalloc_next ==
  /\ pc = "search" /\ current # NULL /\ ~Fits
  /\ current' = blocks[current].next
  /\ UNCHANGED <<heap, pages, pc, req, aligned_size, ptr, old_size, owned>>

(* The call ends without a block; krealloc leaves the old one alone.       *)
kmalloc_fails ==
  /\ pc = "search" /\ current = NULL
  /\ pc' = "idle" /\ req' = 0 /\ aligned_size' = 0
  /\ ptr' = NULL /\ old_size' = 0
  /\ UNCHANGED <<heap, pages, current, owned>>

Splits == blocks[current].size > (aligned_size + SIZEOF_BLOCK) % WORD

(* Mutant: the block after the split keeps its old prev.                   *)
split_forgets_prev ==
  LET cur == blocks[current]
      new_block == address(current) + aligned_size
  IN [b \in DOMAIN blocks \cup {new_block} |->
        CASE b = new_block ->
               [size |-> cur.size - aligned_size - SIZEOF_BLOCK, is_free |-> TRUE,
                next |-> cur.next, prev |-> current]
          [] b = current ->
               [cur EXCEPT !.next = new_block, !.size = aligned_size, !.is_free = FALSE]
          [] OTHER -> blocks[b]]

(* The block list with the current block cut to aligned_size and allocated *)
(* and what is left of it a free block of its own.                         *)
SplitBlock ==
  LET cur == blocks[current]
      new_block == address(current) + aligned_size
  IN [b \in DOMAIN blocks \cup {new_block} |->
        CASE b = new_block ->
               [size |-> cur.size - aligned_size - SIZEOF_BLOCK, is_free |-> TRUE,
                next |-> cur.next, prev |-> current]
          [] b = current ->
               [cur EXCEPT !.next = new_block, !.size = aligned_size, !.is_free = FALSE]
          [] b = cur.next -> [blocks[b] EXCEPT !.prev = new_block]
          [] OTHER -> blocks[b]]

TakeWhole == [blocks EXCEPT ![current].is_free = FALSE]

(* Mutant: what was asked for is counted, not what was taken.              *)
stats_of_request(taken) ==
  [memory_stats EXCEPT
     !.total_allocations = @ + 1, !.current_allocated = @ + aligned_size,
     !.peak_allocated = IF memory_stats.current_allocated + aligned_size > @
                        THEN memory_stats.current_allocated + aligned_size ELSE @]

(* The statistics once a block of size taken is allocated.                 *)
StatsAfter(taken) ==
  LET allocated == memory_stats.current_allocated + taken
  IN [memory_stats EXCEPT
        !.total_allocations = @ + 1, !.current_allocated = allocated,
        !.peak_allocated = IF allocated > @ THEN allocated ELSE @]

(* The end of kmalloc with a block.  A krealloc of a block with a size     *)
(* goes on to copy and free the old one.                                   *)
kmalloc_takes ==
  /\ pc = "search" /\ current # NULL /\ Fits
  /\ blocks' = IF Splits THEN SplitBlock ELSE TakeWhole
  /\ LET taken == blocks'[current].size
     IN memory_stats' = StatsAfter(taken) /\ free_memory' = free_memory - taken
  /\ owned' = [p \in DOMAIN owned \cup {address(current)} |->
                 IF p = address(current) THEN req ELSE owned[p]]
  /\ IF old_size > 0
     THEN pc' = "copy" /\ UNCHANGED <<current, req, aligned_size, ptr, old_size>>
     ELSE /\ pc' = "idle" /\ current' = NULL /\ req' = 0 /\ aligned_size' = 0
          /\ ptr' = NULL /\ old_size' = 0
  /\ UNCHANGED pages

-----------------------------------------------------------------------------
(* kfree() and compact_free_blocks().                                      *)

(* The client may pass any address: kfree looks it up.                     *)
kfree(p) ==
  /\ pc = "idle"
  /\ pc' = "find" /\ current' = free_list /\ ptr' = p
  /\ UNCHANGED <<heap, pages, req, aligned_size, old_size, owned>>

kfree_next ==
  /\ pc = "find" /\ current # NULL /\ address(current) # ptr
  /\ current' = blocks[current].next
  /\ UNCHANGED <<heap, pages, pc, req, aligned_size, ptr, old_size, owned>>

(* No such block, or a block that is free already.                         *)
kfree_ignores ==
  /\ pc = "find"
  /\ current # NULL => address(current) = ptr /\ blocks[current].is_free
  /\ pc' = "idle" /\ current' = NULL /\ ptr' = NULL
  /\ UNCHANGED <<heap, pages, req, aligned_size, old_size, owned>>

(* Mutant: a block that is free already is freed again.                    *)
kfree_frees_twice ==
  /\ pc = "find" /\ current # NULL /\ address(current) = ptr
  /\ blocks' = [blocks EXCEPT ![current].is_free = TRUE]
  /\ memory_stats' = [memory_stats EXCEPT
                        !.total_frees = @ + 1,
                        !.current_allocated = @ - blocks[current].size]
  /\ free_memory' = free_memory + blocks[current].size
  /\ owned' = [p \in DOMAIN owned \ {ptr} |-> owned[p]]
  /\ pc' = "compact" /\ current' = free_list /\ ptr' = NULL
  /\ UNCHANGED <<pages, req, aligned_size, old_size>>

kfree_frees ==
  /\ pc = "find" /\ current # NULL
  /\ address(current) = ptr /\ ~blocks[current].is_free
  /\ blocks' = [blocks EXCEPT ![current].is_free = TRUE]
  /\ memory_stats' = [memory_stats EXCEPT
                        !.total_frees = @ + 1,
                        !.current_allocated = @ - blocks[current].size]
  /\ free_memory' = free_memory + blocks[current].size
  /\ owned' = [p \in DOMAIN owned \ {ptr} |-> owned[p]]
  /\ pc' = "compact" /\ current' = free_list /\ ptr' = NULL
  /\ UNCHANGED <<pages, req, aligned_size, old_size>>

(* Mutant: the next block's flag is not looked at.                         *)
mergeable_over_used ==
  LET b == blocks[current] IN
    b.is_free /\ address(current) + b.size = address(b.next) - SIZEOF_BLOCK

Mergeable ==
  LET b == blocks[current] IN
    /\ b.is_free /\ blocks[b.next].is_free
    /\ address(current) + b.size = address(b.next) - SIZEOF_BLOCK

(* The block list with the next block absorbed by the current one.         *)
MergeNext ==
  LET to_remove == blocks[current].next
      after == blocks[to_remove].next
  IN [b \in DOMAIN blocks \ {to_remove} |->
        CASE b = current ->
               [blocks[b] EXCEPT !.size = @ + blocks[to_remove].size + SIZEOF_BLOCK,
                                 !.next = after]
          [] b = after -> [blocks[b] EXCEPT !.prev = current]
          [] OTHER -> blocks[b]]

(* Mutant: the pass moves on after a merge, without the `continue`.        *)
compact_moves_on ==
  /\ pc = "compact"
  /\ IF current # NULL /\ blocks[current].next # NULL
     THEN /\ blocks' = IF Mergeable THEN MergeNext ELSE blocks
          /\ current' = blocks'[current].next
          /\ UNCHANGED pc
     ELSE pc' = "idle" /\ current' = NULL /\ UNCHANGED blocks
  /\ UNCHANGED <<free_memory, memory_stats, pages, req, aligned_size, ptr, old_size, owned>>

(* Mutant: the `continue` belongs to the outer test, merge or no merge.    *)
compact_stalls ==
  /\ pc = "compact"
  /\ IF current # NULL /\ blocks[current].next # NULL
     THEN /\ IF blocks[current].is_free
             THEN blocks' = (IF Mergeable THEN MergeNext ELSE blocks) /\ UNCHANGED current
             ELSE current' = blocks[current].next /\ UNCHANGED blocks
          /\ UNCHANGED pc
     ELSE pc' = "idle" /\ current' = NULL /\ UNCHANGED blocks
  /\ UNCHANGED <<free_memory, memory_stats, pages, req, aligned_size, ptr, old_size, owned>>

compact_free_blocks ==
  /\ pc = "compact"
  /\ IF current # NULL /\ blocks[current].next # NULL
     THEN /\ IF Mergeable
             THEN blocks' = MergeNext /\ UNCHANGED current
             ELSE current' = blocks[current].next /\ UNCHANGED blocks
          /\ UNCHANGED pc
     ELSE pc' = "idle" /\ current' = NULL /\ UNCHANGED blocks
  /\ UNCHANGED <<free_memory, memory_stats, pages, req, aligned_size, ptr, old_size, owned>>

-----------------------------------------------------------------------------
(* krealloc() of a block the client owns, to a size other than 0.  With    *)
(* NULL it is kmalloc(), with size 0 kfree().                              *)
krealloc(p, new_size) ==
  /\ pc = "idle"
  /\ memory_stats.total_allocations < MaxAllocations
  /\ pc' = "measure" /\ current' = free_list /\ ptr' = p /\ req' = new_size
  /\ UNCHANGED <<heap, pages, aligned_size, old_size, owned>>

krealloc_measures ==
  /\ pc = "measure"
  /\ IF current # NULL /\ address(current) # ptr
     THEN current' = blocks[current].next
          /\ UNCHANGED <<pc, req, aligned_size, old_size>>
     ELSE /\ old_size' = IF current # NULL THEN blocks[current].size ELSE 0
          /\ StartMalloc(req, req)
  /\ UNCHANGED <<heap, pages, ptr, owned>>

(* Mutant: the old block is copied whole.                                  *)
copies_old_size == old_size

(* memcpy moves copy_size bytes from ptr to the block in current, then the *)
(* old block is freed.                                                     *)
copy_size == IF old_size < req THEN old_size ELSE req

krealloc_copies ==
  /\ pc = "copy"
  /\ pc' = "find" /\ current' = free_list
  /\ req' = 0 /\ aligned_size' = 0 /\ old_size' = 0
  /\ UNCHANGED <<heap, pages, ptr, owned>>

-----------------------------------------------------------------------------
(* alloc_page() and free_page().                                           *)

FreePages == {i \in Pages : status[i] = "PAGE_FREE"}

alloc_page ==
  /\ pc = "idle"
  /\ FreePages # {}
  /\ LET i == CHOOSE j \in FreePages : \A k \in FreePages : j <= k
     IN /\ status' = [status EXCEPT ![i] = "PAGE_USED"]
        /\ ref_count' = [ref_count EXCEPT ![i] = 1]
  /\ free_pages' = free_pages - 1 /\ used_pages' = used_pages + 1
  /\ UNCHANGED <<heap, pc, current, req, aligned_size, ptr, old_size, owned>>

(* Mutant: the page's status is not looked at.                             *)
free_page_unchecked(addr) ==
  /\ pc = "idle"
  /\ \E i \in Pages :
       /\ PageAddress(i) = addr
       /\ ref_count' = [ref_count EXCEPT ![i] = @ - 1]
       /\ IF ref_count[i] = 1
          THEN /\ status' = [status EXCEPT ![i] = "PAGE_FREE"]
               /\ free_pages' = free_pages + 1 /\ used_pages' = used_pages - 1
          ELSE UNCHANGED <<status, free_pages, used_pages>>
  /\ UNCHANGED <<heap, pc, current, req, aligned_size, ptr, old_size, owned>>

(* An address that is not that of a used page is ignored.                  *)
free_page(addr) ==
  /\ pc = "idle"
  /\ \E i \in Pages :
       /\ PageAddress(i) = addr
       /\ status[i] = "PAGE_USED"
       /\ ref_count' = [ref_count EXCEPT ![i] = @ - 1]
       /\ IF ref_count[i] = 1
          THEN /\ status' = [status EXCEPT ![i] = "PAGE_FREE"]
               /\ free_pages' = free_pages + 1 /\ used_pages' = used_pages - 1
          ELSE UNCHANGED <<status, free_pages, used_pages>>
  /\ UNCHANGED <<heap, pc, current, req, aligned_size, ptr, old_size, owned>>

-----------------------------------------------------------------------------
(* The steps of the call in progress.                                      *)
Work ==
  \/ kmalloc_next \/ kmalloc_fails \/ kmalloc_takes
  \/ kfree_next \/ kfree_ignores \/ kfree_frees
  \/ compact_free_blocks
  \/ krealloc_measures \/ krealloc_copies

Call ==
  \/ \E n \in Requests :
       kmalloc(n) \/ (\E k \in Counts : kcalloc(k, n)) \/ (\E p \in DOMAIN owned : krealloc(p, n))
  \/ \E a \in Addresses : kfree(a) \/ free_page(a)
  \/ alloc_page

Next == Call \/ Work

Spec == Init /\ [][Next]_vars

(* A call, once made, runs.                                                *)
FairSpec == Spec /\ WF_vars(Work)

-----------------------------------------------------------------------------
(* Properties.                                                             *)

Blocks    == DOMAIN blocks
InUse     == {b \in Blocks : ~blocks[b].is_free}
SizesOf(S) == FoldFunctionOnSet(LAMBDA x, y : x + y, 0, [b \in S |-> blocks[b].size], S)

(* The fields hold values of their C types: no size, counter or address    *)
(* wraps or goes below zero in any sequence of calls.                      *)
TypeOK ==
  /\ Blocks \subseteq Addresses
  /\ \A b \in Blocks : blocks[b] \in [size : 0 .. total_memory, is_free : BOOLEAN,
                                      next : Blocks \cup {NULL}, prev : Blocks \cup {NULL}]
  /\ free_memory \in 0 .. total_memory
  /\ memory_stats \in [total_allocations : 0 .. MaxAllocations,
                        total_frees : 0 .. MaxAllocations,
                        current_allocated : 0 .. total_memory,
                        peak_allocated : 0 .. total_memory]
  /\ status \in [Pages -> {"PAGE_FREE", "PAGE_USED"}] /\ ref_count \in [Pages -> 0 .. 1]
  /\ free_pages \in 0 .. MAX_PAGES /\ used_pages \in 0 .. MAX_PAGES
  /\ pc \in {"idle", "search", "find", "compact", "measure", "copy"}
  /\ current \in Blocks \cup {NULL}
  /\ req \in Nat /\ aligned_size \in 0 .. WORD - 1
  /\ ptr \in Addresses \cup {NULL} /\ old_size \in 0 .. total_memory

(* The block list tiles the managed region at every step of every call: a  *)
(* block ends where the next header starts, the last one ends at           *)
(* MEMORY_END, prev undoes next, and the header that kmalloc writes when   *)
(* it splits a block never lies over another block's data.                 *)
Tiling ==
  \A b \in Blocks :
    LET end == address(b) + blocks[b].size
    IN /\ blocks[b].next = (IF end = MEMORY_END THEN NULL ELSE end)
       /\ end # MEMORY_END => end \in Blocks /\ blocks[end].prev = b
       /\ blocks[b].prev = NULL <=> b = free_list
       /\ \A c \in Blocks : c > b => c >= end

(* What a client holds is what the heap has in use: every pointer that     *)
(* was returned and not freed is the data of a block that is not free, as  *)
(* long as the client asked for, and no other block is in use, so that     *)
(* nothing leaks when krealloc or kmalloc fails half way.                  *)
ClientsBlocks ==
  /\ {address(b) : b \in InUse} = DOMAIN owned
  /\ \A p \in DOMAIN owned : owned[p] <= blocks[p - SIZEOF_BLOCK].size

(* Every pointer handed out is aligned: rounding the size is enough to     *)
(* keep every later header and data address on a word boundary.            *)
Aligned ==
  \A b \in Blocks : b % ALIGNMENT = 0 /\ blocks[b].size % ALIGNMENT = 0

(* kfree leaves no two free neighbours behind, whatever order blocks are   *)
(* freed in: one forward pass of compact_free_blocks is enough.  With      *)
(* nothing allocated the heap is again the single block it started as.     *)
Coalesced ==
  pc = "idle" =>
    \A b \in Blocks \ InUse : blocks[b].next # NULL => blocks[b].next \in InUse

(* kmalloc is first fit and fails only when no block fits: every block the *)
(* search has passed was too small or taken.                               *)
FirstFit ==
  pc = "search" =>
    \A b \in Blocks \ InUse :
      blocks[b].size >= aligned_size => current # NULL /\ current <= b

(* The statistics agree with the heap between any two steps.               *)
Accounting ==
  /\ memory_stats.current_allocated = SizesOf(InUse)
  /\ free_memory = total_memory - memory_stats.current_allocated
  /\ memory_stats.peak_allocated >= memory_stats.current_allocated
  /\ memory_stats.total_allocations - memory_stats.total_frees = Cardinality(InUse)

(* The memcpy of krealloc reads only the old block, still in use, and      *)
(* writes only the new one, which is another block.                        *)
CopyInBounds ==
  pc = "copy" =>
    LET old == ptr - SIZEOF_BLOCK
    IN /\ {old, current} \subseteq InUse /\ old # current
       /\ copy_size <= blocks[old].size /\ copy_size <= blocks[current].size

(* The page counters agree with the table, and a page is referenced        *)
(* exactly while it is used, so that free_page cannot free it twice.       *)
PagesCounted ==
  /\ free_pages = Cardinality(FreePages) /\ used_pages = MAX_PAGES - free_pages
  /\ \A i \in Pages : ref_count[i] = 0 <=> i \in FreePages

(* No call moves or resizes a block that its client keeps: kmalloc splits  *)
(* and compact_free_blocks merges free blocks only, and krealloc keeps the *)
(* old block when it cannot have a new one.                                *)
BlocksStayPut ==
  [][\A p \in DOMAIN owned \cap DOMAIN owned' :
       /\ p - SIZEOF_BLOCK \in DOMAIN blocks'
       /\ blocks'[p - SIZEOF_BLOCK].size = blocks[p - SIZEOF_BLOCK].size]_vars

(* Every call ends: the loops over the block list reach its end, and       *)
(* compact_free_blocks, which stays on a block as long as it can merge,    *)
(* runs out of blocks to merge.                                            *)
CallReturns == pc # "idle" ~> pc = "idle"
=============================================================================
