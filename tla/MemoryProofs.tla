---------------------------- MODULE MemoryProofs ----------------------------
(***************************************************************************)
(* Proofs about the memory manager for every region, header size,          *)
(* alignment and page size, and every set of requests.                     *)
(*                                                                         *)
(* The heap's invariants lean on each other: a split keeps the blocks      *)
(* tiling the region because the block found is large enough, a search     *)
(* passes no block because the blocks are in address order, and krealloc   *)
(* copies within bounds because the block it measured is not moved while   *)
(* kmalloc searches.  CallInv says what each step of a call may rely on.   *)
(* That calls end is the last theorem.                                     *)
(***************************************************************************)
EXTENDS Memory, Lemmas

EndOf(B, b) == address(b) + B[b].size
End(b)      == EndOf(blocks, b)

Block == [size : Nat, is_free : BOOLEAN, next : Nat, prev : Nat]

(* The block list as a data structure.                                     *)
Shape ==
  /\ Blocks \subseteq Addresses /\ free_list \in Blocks
  /\ \A b \in Blocks :
       /\ blocks[b] \in Block /\ address(b) < MEMORY_END
       /\ blocks[b].prev # NULL => /\ blocks[b].prev \in Blocks
                                  /\ EndOf(blocks, blocks[b].prev) = b

HeapInv == Shape /\ Tiling /\ Aligned

(* What the variables of a call in progress hold.                          *)
CallTypes ==
  /\ pc \in {"idle", "search", "find", "compact", "measure", "copy"}
  /\ current \in Blocks \cup {NULL}
  /\ req \in Nat /\ aligned_size \in 0 .. WORD - 1 /\ aligned_size % ALIGNMENT = 0
  /\ ptr \in Addresses \cup {NULL}

(* The clients' pointers are those of the blocks in use.                   *)
Pointers == DOMAIN owned = {address(b) : b \in InUse}

(* The block krealloc measured stays in use and keeps its size while       *)
(* kmalloc searches, and the block found is another one.                   *)
CallInv ==
  /\ pc \in {"idle", "find", "compact", "measure"} => old_size = 0
  /\ pc = "measure" => ptr - SIZEOF_BLOCK \in InUse
  /\ old_size # 0 => /\ ptr - SIZEOF_BLOCK \in InUse
                     /\ old_size = blocks[ptr - SIZEOF_BLOCK].size
  /\ pc = "copy" => /\ old_size # 0
                    /\ current \in InUse /\ current # ptr - SIZEOF_BLOCK
                    /\ aligned_size <= blocks[current].size

(* No two neighbours are free, behind the compaction's pass while it runs. *)
Passed(b) == pc # "compact" \/ current = NULL \/ b < current

CoalescedInv ==
  \A b \in Blocks \ InUse :
    Passed(b) /\ blocks[b].next # NULL => blocks[b].next \in InUse

IInv == HeapInv /\ CallTypes /\ Pointers /\ CallInv /\ CoalescedInv /\ FirstFit

(* Nothing a client asks for wraps when it is multiplied or rounded.       *)
NoOverflow ==
  \A n \in Requests : \A k \in Counts \cup {1} : k * n + (ALIGNMENT - 1) < WORD

(* A client's block is at least as long as it asked for.                   *)
SizesInv ==
  /\ \A p \in DOMAIN owned : owned[p] <= blocks[p - SIZEOF_BLOCK].size
  /\ pc = "measure" => req \in Requests
  /\ pc \in {"search", "copy"} => req <= aligned_size

-----------------------------------------------------------------------------
(* The block list.                                                         *)

(* Where a block lies, and what its links say.                             *)
LEMMA BlockFacts ==
  ASSUME HeapInv, NEW b \in Blocks
  PROVE  /\ b \in Nat /\ b # NULL /\ MEMORY_START <= b
         /\ blocks[b].size \in Nat /\ blocks[b].is_free \in BOOLEAN
         /\ address(b) \in Addresses /\ address(b) - SIZEOF_BLOCK = b
         /\ End(b) \in Nat /\ b + SIZEOF_BLOCK + blocks[b].size = End(b)
         /\ b < End(b) /\ End(b) <= MEMORY_END
         /\ blocks[b].next = (IF End(b) = MEMORY_END THEN NULL ELSE End(b))
         /\ End(b) # MEMORY_END => End(b) \in Blocks /\ blocks[End(b)].prev = b
         /\ blocks[b].prev # NULL => blocks[b].prev \in Blocks /\ End(blocks[b].prev) = b
         /\ blocks[b].prev = NULL <=> b = free_list
         /\ \A c \in Blocks : c > b => c >= End(b)
<1> USE RegionAssumption
<1>1. /\ b \in Addresses /\ blocks[b].size \in Nat /\ blocks[b].is_free \in BOOLEAN
      /\ blocks[b].prev # NULL => blocks[b].prev \in Blocks /\ End(blocks[b].prev) = b
      /\ Blocks \subseteq Addresses
  BY DEF HeapInv, Shape, Block, End
<1>2. /\ blocks[b].next = (IF End(b) = MEMORY_END THEN NULL ELSE End(b))
      /\ End(b) # MEMORY_END => End(b) \in Blocks /\ blocks[End(b)].prev = b
      /\ blocks[b].prev = NULL <=> b = free_list
      /\ \A c \in Blocks : c > b => c >= End(b)
  BY DEF HeapInv, Tiling, End, EndOf
<1>3. b \in Nat /\ b # NULL /\ MEMORY_START <= b
  BY <1>1 DEF Addresses, NULL
<1>4. End(b) \in Nat /\ b + SIZEOF_BLOCK + blocks[b].size = End(b) /\ b < End(b)
  BY <1>1, <1>3 DEF End, EndOf, address
<1>6. address(b) \in Addresses /\ address(b) - SIZEOF_BLOCK = b
  <2>1. address(b) < MEMORY_END
    BY DEF HeapInv, Shape
  <2> QED BY <1>3, <2>1 DEF address, Addresses
<1>5. End(b) <= MEMORY_END
  BY <1>1, <1>2, <1>4 DEF Addresses
<1> QED BY <1>1, <1>2, <1>3, <1>4, <1>5, <1>6

(* The header kmalloc writes when it splits a block lies inside it, where  *)
(* no other header is, and the room the code computes does not wrap.       *)
LEMMA SplitRoom ==
  ASSUME HeapInv, CallTypes, current # NULL, Fits, Splits,
         NEW nb, nb = address(current) + aligned_size
  PROVE  /\ current \in Blocks /\ nb \in Nat /\ nb \notin Blocks /\ nb \in Addresses
         /\ current < nb /\ nb + SIZEOF_BLOCK < End(current)
         /\ blocks[current].size - aligned_size - SIZEOF_BLOCK \in Nat
         /\ nb + SIZEOF_BLOCK + (blocks[current].size - aligned_size - SIZEOF_BLOCK)
              = End(current)
         /\ current + SIZEOF_BLOCK + aligned_size = nb
<1> USE RegionAssumption
<1>1. current \in Blocks /\ aligned_size \in Nat
  BY DEF CallTypes
<1>2. /\ current \in Nat /\ MEMORY_START <= current /\ blocks[current].size \in Nat
      /\ current + SIZEOF_BLOCK + blocks[current].size = End(current)
      /\ End(current) \in Nat /\ End(current) <= MEMORY_END
      /\ \A c \in Blocks : c > current => c >= End(current)
  BY <1>1, BlockFacts
<1>3. blocks[current].size >= aligned_size
  BY DEF Fits
<1>4. (aligned_size + SIZEOF_BLOCK) % WORD = aligned_size + SIZEOF_BLOCK
  <2>1. aligned_size + SIZEOF_BLOCK \in 0 .. WORD - 1
    BY <1>1, <1>2, <1>3
  <2> QED BY <2>1
<1>5. blocks[current].size > aligned_size + SIZEOF_BLOCK
  BY <1>4 DEF Splits
<1>6. nb = current + SIZEOF_BLOCK + aligned_size /\ nb \in Nat
  BY <1>1, <1>2 DEF address
<1> QED BY <1>1, <1>2, <1>5, <1>6 DEF Addresses

(* A block record with its prev replaced.                                  *)
LEMMA PrevUpdate ==
  ASSUME NEW r \in Block, NEW v \in Nat, NEW q, q = [r EXCEPT !.prev = v]
  PROVE  /\ q \in Block /\ q.prev = v
         /\ q.size = r.size /\ q.is_free = r.is_free /\ q.next = r.next
BY DEF Block

(* What a split that makes the block nb leaves, field by field.            *)
SplitResult(nb) ==
  /\ Blocks' = Blocks \cup {nb}
  /\ blocks'[nb].size = blocks[current].size - aligned_size - SIZEOF_BLOCK
  /\ blocks'[nb].is_free = TRUE /\ blocks'[nb].next = blocks[current].next
  /\ blocks'[nb].prev = current
  /\ blocks'[current].size = aligned_size /\ blocks'[current].is_free = FALSE
  /\ blocks'[current].next = nb /\ blocks'[current].prev = blocks[current].prev
  /\ \A b \in Blocks \ {current} :
       /\ blocks'[b].size = blocks[b].size /\ blocks'[b].is_free = blocks[b].is_free
       /\ blocks'[b].next = blocks[b].next
       /\ blocks'[b].prev = (IF b = blocks[current].next THEN nb ELSE blocks[b].prev)
  /\ \A b \in Blocks' : blocks'[b] \in Block

(* kmalloc's split does exactly that.                                      *)
LEMMA SplitEffect ==
  ASSUME HeapInv, CallTypes, current # NULL, Fits, Splits, blocks' = SplitBlock,
         NEW nb, nb = address(current) + aligned_size
  PROVE  SplitResult(nb)
<1>1. /\ current \in Blocks /\ nb \notin Blocks /\ current # nb
      /\ blocks[current].next # current /\ blocks[current].next # nb
  <2>1. current \in Blocks /\ nb \notin Blocks /\ current # nb /\ nb \in Nat /\ current < nb
    BY SplitRoom DEF CallTypes
  <2>2. /\ current \in Nat /\ current # NULL /\ current < End(current) /\ End(current) \in Nat
        /\ blocks[current].next = (IF End(current) = MEMORY_END THEN NULL ELSE End(current))
        /\ End(current) # MEMORY_END => End(current) \in Blocks
    BY <2>1, BlockFacts
  <2> QED BY <2>1, <2>2 DEF NULL
<1>2. Blocks' = Blocks \cup {nb}
  BY DEF SplitBlock, Blocks
<1>3. blocks' =
        [b \in Blocks \cup {nb} |->
           CASE b = nb ->
                  [size |-> blocks[current].size - aligned_size - SIZEOF_BLOCK,
                   is_free |-> TRUE, next |-> blocks[current].next, prev |-> current]
             [] b = current ->
                  [blocks[current] EXCEPT !.next = nb, !.size = aligned_size, !.is_free = FALSE]
             [] b = blocks[current].next -> [blocks[b] EXCEPT !.prev = nb]
             [] OTHER -> blocks[b]]
  BY DEF SplitBlock, Blocks
<1>4. blocks'[nb] = [size |-> blocks[current].size - aligned_size - SIZEOF_BLOCK,
                     is_free |-> TRUE, next |-> blocks[current].next, prev |-> current]
  BY <1>1, <1>3
<1>5. blocks'[current] = [blocks[current] EXCEPT !.next = nb, !.size = aligned_size,
                                                 !.is_free = FALSE]
  BY <1>1, <1>3
<1>6. ASSUME NEW b \in Blocks \ {current}
      PROVE  blocks'[b] = (IF b = blocks[current].next
                           THEN [blocks[b] EXCEPT !.prev = nb] ELSE blocks[b])
  BY <1>1, <1>3
<1>7. /\ nb \in Nat /\ current \in Nat /\ aligned_size \in Nat
      /\ blocks[current].size - aligned_size - SIZEOF_BLOCK \in Nat
      /\ \A b \in Blocks : blocks[b] \in Block
  BY SplitRoom, BlockFacts DEF HeapInv, Shape, CallTypes
<1>8. /\ blocks'[current].size = aligned_size /\ blocks'[current].is_free = FALSE
      /\ blocks'[current].next = nb /\ blocks'[current].prev = blocks[current].prev
      /\ blocks'[current] \in Block
  <2>1. blocks[current] \in Block
    BY <1>1, <1>7
  <2> QED BY <1>5, <1>7, <2>1 DEF Block
<1>9. /\ blocks'[nb].size = blocks[current].size - aligned_size - SIZEOF_BLOCK
      /\ blocks'[nb].is_free = TRUE /\ blocks'[nb].next = blocks[current].next
      /\ blocks'[nb].prev = current
      /\ blocks'[nb] \in Block
  BY <1>1, <1>4, <1>7 DEF Block
<1>10. ASSUME NEW b \in Blocks \ {current}
       PROVE  /\ blocks'[b].size = blocks[b].size /\ blocks'[b].is_free = blocks[b].is_free
              /\ blocks'[b].next = blocks[b].next
              /\ blocks'[b].prev = (IF b = blocks[current].next THEN nb ELSE blocks[b].prev)
              /\ blocks'[b] \in Block
  <2>1. blocks[b] \in Block
    BY <1>7
  <2>2. CASE b = blocks[current].next
    <3>1. blocks'[b] = [blocks[b] EXCEPT !.prev = nb]
      BY <1>6, <2>2
    <3> QED BY <1>7, <2>1, <2>2, <3>1, PrevUpdate
  <2>3. CASE b # blocks[current].next
    BY <1>6, <2>1, <2>3
  <2> QED BY <2>2, <2>3
<1> QED BY <1>2, <1>8, <1>9, <1>10 DEF SplitResult

(* A split leaves the blocks tiling the region, on aligned addresses.      *)
LEMMA SplitHeap ==
  ASSUME HeapInv, CallTypes, current # NULL, Fits, Splits, blocks' = SplitBlock
  PROVE  HeapInv'
<1> USE RegionAssumption
<1>0. PICK nb : nb = address(current) + aligned_size
  OBVIOUS
<1>1. /\ current \in Blocks /\ nb \in Nat /\ nb \notin Blocks /\ nb \in Addresses
      /\ current < nb /\ nb + SIZEOF_BLOCK < End(current)
      /\ blocks[current].size - aligned_size - SIZEOF_BLOCK \in Nat
      /\ nb + SIZEOF_BLOCK + (blocks[current].size - aligned_size - SIZEOF_BLOCK)
           = End(current)
      /\ current + SIZEOF_BLOCK + aligned_size = nb
  BY <1>0, SplitRoom
<1>a. SplitResult(nb)
  BY <1>0, SplitEffect
<1>2. /\ Blocks' = Blocks \cup {nb}
      /\ blocks'[nb].size = blocks[current].size - aligned_size - SIZEOF_BLOCK
      /\ blocks'[nb].next = blocks[current].next /\ blocks'[nb].prev = current
      /\ blocks'[current].size = aligned_size /\ blocks'[current].next = nb
      /\ blocks'[current].prev = blocks[current].prev
  BY <1>a DEF SplitResult
<1>3. \A b \in Blocks \ {current} :
        /\ blocks'[b].size = blocks[b].size /\ blocks'[b].next = blocks[b].next
        /\ blocks'[b].prev = (IF b = blocks[current].next THEN nb ELSE blocks[b].prev)
  BY <1>a DEF SplitResult
<1>4. \A b \in Blocks' : blocks'[b] \in Block
  BY <1>a DEF SplitResult
<1>5. \A b \in Blocks :
         /\ b \in Nat /\ b # NULL /\ MEMORY_START <= b
         /\ blocks[b].size \in Nat /\ End(b) \in Nat
         /\ b + SIZEOF_BLOCK + blocks[b].size = End(b)
         /\ b < End(b) /\ End(b) <= MEMORY_END
         /\ blocks[b].next = (IF End(b) = MEMORY_END THEN NULL ELSE End(b))
         /\ End(b) # MEMORY_END => End(b) \in Blocks /\ blocks[End(b)].prev = b
         /\ blocks[b].prev # NULL => blocks[b].prev \in Blocks /\ End(blocks[b].prev) = b
         /\ blocks[b].prev = NULL <=> b = free_list
         /\ \A c \in Blocks : c > b => c >= End(b)
  BY BlockFacts
<1>6. EndOf(blocks', current) = nb /\ EndOf(blocks', nb) = End(current)
  <2>1. aligned_size \in Nat /\ current \in Nat
    BY <1>1, <1>5 DEF CallTypes
  <2> QED BY <1>1, <1>2, <2>1 DEF End, EndOf, address
<1>7. \A b \in Blocks \ {current} : EndOf(blocks', b) = End(b)
  BY <1>3 DEF End, EndOf, address
<1>8. Shape'
  <2>1. Blocks' \subseteq Addresses /\ free_list \in Blocks'
    BY <1>1, <1>2 DEF HeapInv, Shape
  <2>2. ASSUME NEW b \in Blocks', blocks'[b].prev # NULL
        PROVE  blocks'[b].prev \in Blocks' /\ EndOf(blocks', blocks'[b].prev) = b
    <3>1. CASE b = nb
      BY <1>2, <1>1, <1>6, <3>1
    <3>2. CASE b = current
      BY <1>1, <1>2, <1>5, <1>7, <2>2, <3>2
    <3>3. CASE b \in Blocks \ {current} /\ b = blocks[current].next
      <4>1. b = End(current)
        BY <1>1, <1>5, <3>3
      <4> QED BY <1>2, <1>3, <1>6, <3>3, <4>1
    <3>4. CASE b \in Blocks \ {current} /\ b # blocks[current].next
      <4>1. /\ blocks'[b].prev = blocks[b].prev /\ blocks[b].prev \in Blocks
            /\ End(blocks[b].prev) = b
        BY <1>3, <1>5, <2>2, <3>4
      <4>2. blocks[b].prev # current
        BY <1>1, <1>5, <3>4, <4>1
      <4> QED BY <1>2, <1>7, <4>1, <4>2
    <3> QED BY <1>2, <3>1, <3>2, <3>3, <3>4
  <2>3. ASSUME NEW b \in Blocks' PROVE address(b) < MEMORY_END
    <3>1. CASE b = nb
      BY <1>1, <1>5, <3>1 DEF address
    <3> QED BY <1>2, <3>1 DEF HeapInv, Shape
  <2> QED BY <1>4, <2>1, <2>2, <2>3 DEF Shape, Addresses, free_list, address
<1>9. ASSUME NEW b \in Blocks'
      PROVE  /\ blocks'[b].next = (IF EndOf(blocks', b) = MEMORY_END THEN NULL ELSE EndOf(blocks', b))
             /\ EndOf(blocks', b) # MEMORY_END => EndOf(blocks', b) \in Blocks' /\ blocks'[EndOf(blocks', b)].prev = b
             /\ blocks'[b].prev = NULL <=> b = free_list
             /\ \A c \in Blocks' : c > b => c >= EndOf(blocks', b)
  <2>1. CASE b = current
    <3>1. EndOf(blocks', b) = nb
      BY <1>6, <2>1
    <3>2. nb # MEMORY_END /\ nb \in Blocks' /\ blocks'[nb].prev = current
      BY <1>1, <1>2, <1>5
    <3>3. blocks'[b].next = nb /\ blocks'[b].prev = blocks[b].prev
      BY <1>2, <2>1
    <3>4. ASSUME NEW c \in Blocks', c > b PROVE c >= nb
      <4>1. c \in Blocks => c \in Nat /\ c >= End(current)
        BY <1>1, <1>5, <2>1, <3>4
      <4>2. End(current) \in Nat
        BY <1>1, <1>5
      <4> QED BY <1>1, <1>2, <4>1, <4>2
    <3>5. blocks[b].prev = NULL <=> b = free_list
      BY <1>1, <1>5, <2>1
    <3> QED BY <2>1, <3>1, <3>2, <3>3, <3>4, <3>5
  <2>2. CASE b = nb
    <3>1. EndOf(blocks', b) = End(current)
      BY <1>6, <2>2
    <3>2. blocks'[b].next = (IF End(current) = MEMORY_END THEN NULL ELSE End(current))
      BY <1>1, <1>2, <1>5, <2>2
    <3>3. End(current) # MEMORY_END =>
            End(current) \in Blocks' /\ blocks'[End(current)].prev = b
      BY <1>1, <1>2, <1>3, <1>5, <2>2
    <3>4. blocks'[b].prev # NULL /\ b # free_list
      BY <1>1, <1>2, <1>5, <2>2 DEF free_list
    <3>5. \A c \in Blocks' : c > b => c >= End(current)
      BY <1>1, <1>2, <1>5, <2>2
    <3> QED BY <3>1, <3>2, <3>3, <3>4, <3>5
  <2>3. CASE b \in Blocks \ {current}
    <3>1. EndOf(blocks', b) = End(b) /\ blocks'[b].next = blocks[b].next
      BY <1>3, <1>7, <2>3
    <3>2. blocks[b].next = (IF End(b) = MEMORY_END THEN NULL ELSE End(b))
      BY <1>5, <2>3
    <3>3. ASSUME End(b) # MEMORY_END
          PROVE  End(b) \in Blocks' /\ blocks'[End(b)].prev = b
      <4>1. End(b) \in Blocks /\ blocks[End(b)].prev = b
        BY <1>5, <2>3, <3>3
      <4>2. CASE End(b) = current
        BY <1>2, <4>1, <4>2
      <4>3. CASE End(b) # current
        <5>1. End(b) # blocks[current].next
          <6>1. blocks[current].next = End(b) => blocks[End(b)].prev = current
            BY <1>1, <1>5, <4>1
          <6> QED BY <2>3, <4>1, <6>1
        <5> QED BY <1>2, <1>3, <4>1, <4>3, <5>1
      <4> QED BY <4>2, <4>3
    <3>4. blocks'[b].prev = NULL <=> b = free_list
      <4>1. b = blocks[current].next => blocks[b].prev = current /\ nb # NULL /\ current # NULL
        BY <1>1, <1>5, <2>3 DEF NULL
      <4> QED BY <1>3, <1>5, <2>3, <4>1
    <3>5. \A c \in Blocks' : c > b => c >= End(b)
      BY <1>1, <1>2, <1>5, <2>3
    <3> QED BY <3>1, <3>2, <3>3, <3>4, <3>5
  <2> QED BY <1>2, <2>1, <2>2, <2>3
<1>10. Tiling'
  <2>1. \A b \in Blocks' : EndOf(blocks', b) = address(b) + blocks'[b].size
    BY DEF End, EndOf, address
  <2> QED BY <1>9, <2>1 DEF Tiling, address, free_list
<1>11. Aligned'
  <2>0. \A x, y \in Nat : x % ALIGNMENT = 0 /\ y % ALIGNMENT = 0 =>
          (x + y) % ALIGNMENT = 0 /\ (x >= y => (x - y) % ALIGNMENT = 0)
    BY ModZero
  <2>1. \A b \in Blocks : b % ALIGNMENT = 0 /\ blocks[b].size % ALIGNMENT = 0
    BY DEF HeapInv, Aligned
  <2>2. /\ aligned_size \in Nat /\ aligned_size % ALIGNMENT = 0 /\ current \in Nat
        /\ blocks[current].size \in Nat
    BY <1>1, <1>5 DEF CallTypes
  <2>3. (current + SIZEOF_BLOCK) % ALIGNMENT = 0 /\ current + SIZEOF_BLOCK \in Nat
    <3>1. current % ALIGNMENT = 0
      BY <1>1, <2>1
    <3>2. SIZEOF_BLOCK \in Nat /\ SIZEOF_BLOCK % ALIGNMENT = 0
      OBVIOUS
    <3>3. (current + SIZEOF_BLOCK) % ALIGNMENT = 0
      BY <2>0, <2>2, <3>1, <3>2
    <3> QED BY <2>2, <3>2, <3>3
  <2>4. nb % ALIGNMENT = 0
    <3>1. ((current + SIZEOF_BLOCK) + aligned_size) % ALIGNMENT = 0
      BY <2>0, <2>2, <2>3
    <3> QED BY <1>1, <3>1
  <2>5. /\ (aligned_size + SIZEOF_BLOCK) % ALIGNMENT = 0
        /\ aligned_size + SIZEOF_BLOCK \in Nat
        /\ blocks[current].size >= aligned_size + SIZEOF_BLOCK
    <3>1. blocks[current].size >= aligned_size + SIZEOF_BLOCK
      BY <1>1, <2>2
    <3>2. SIZEOF_BLOCK \in Nat /\ SIZEOF_BLOCK % ALIGNMENT = 0
      OBVIOUS
    <3>3. (aligned_size + SIZEOF_BLOCK) % ALIGNMENT = 0
      BY <2>0, <2>2, <3>2
    <3> QED BY <2>2, <3>1, <3>2, <3>3
  <2>6. (blocks[current].size - (aligned_size + SIZEOF_BLOCK)) % ALIGNMENT = 0
    <3>1. blocks[current].size % ALIGNMENT = 0
      BY <1>1, <2>1
    <3> QED BY <2>0, <2>2, <2>5, <3>1
  <2>7. blocks'[nb].size % ALIGNMENT = 0
    <3>1. blocks'[nb].size = blocks[current].size - (aligned_size + SIZEOF_BLOCK)
      BY <1>2, <2>2
    <3> QED BY <2>6, <3>1
  <2>8. \A b \in Blocks' : b % ALIGNMENT = 0 /\ blocks'[b].size % ALIGNMENT = 0
    BY <1>2, <1>3, <2>1, <2>2, <2>4, <2>7
  <2> QED BY <2>8 DEF Aligned
<1> QED BY <1>8, <1>10, <1>11 DEF HeapInv

(* What absorbing the block r into the current one leaves.                 *)
MergeResult(r) ==
  /\ Blocks' = Blocks \ {r}
  /\ blocks'[current].size = blocks[current].size + blocks[r].size + SIZEOF_BLOCK
  /\ blocks'[current].is_free = blocks[current].is_free
  /\ blocks'[current].next = blocks[r].next /\ blocks'[current].prev = blocks[current].prev
  /\ \A b \in Blocks \ {current, r} :
       /\ blocks'[b].size = blocks[b].size /\ blocks'[b].is_free = blocks[b].is_free
       /\ blocks'[b].next = blocks[b].next
       /\ blocks'[b].prev = (IF b = blocks[r].next THEN current ELSE blocks[b].prev)
  /\ \A b \in Blocks' : blocks'[b] \in Block

(* The next block starts where the current one ends.                       *)
LEMMA NextBlock ==
  ASSUME HeapInv, NEW b \in Blocks, blocks[b].next # NULL
  PROVE  /\ blocks[b].next = End(b) /\ End(b) \in Blocks /\ End(b) # MEMORY_END
         /\ blocks[End(b)].prev = b /\ b < End(b)
BY BlockFacts

(* compact_free_blocks' merge does exactly that.                           *)
LEMMA MergeEffect ==
  ASSUME HeapInv, current \in Blocks, blocks[current].next # NULL, blocks' = MergeNext,
         NEW r, r = blocks[current].next
  PROVE  MergeResult(r)
<1> USE RegionAssumption
<1>1. /\ r \in Blocks /\ r = End(current) /\ current < r /\ current \in Nat /\ r \in Nat
      /\ r < End(r) /\ blocks[r].next \in {NULL, End(r)} /\ current # NULL
      /\ End(r) \in Nat
  <2>1. r \in Blocks /\ r = End(current) /\ current < r
    BY NextBlock
  <2>2. current \in Nat /\ current # NULL
    BY BlockFacts
  <2>3. r \in Nat /\ r < End(r) /\ End(r) \in Nat /\ blocks[r].next \in {NULL, End(r)}
    BY <2>1, BlockFacts
  <2> QED BY <2>1, <2>2, <2>3
<1>2. blocks[r].next # current /\ blocks[r].next # r /\ current # r
  BY <1>1 DEF NULL
<1>3. blocks' =
        [b \in Blocks \ {blocks[current].next} |->
           CASE b = current ->
                  [blocks[b] EXCEPT
                     !.size = @ + blocks[blocks[current].next].size + SIZEOF_BLOCK,
                     !.next = blocks[blocks[current].next].next]
             [] b = blocks[blocks[current].next].next -> [blocks[b] EXCEPT !.prev = current]
             [] OTHER -> blocks[b]]
  BY DEF MergeNext, Blocks
<1>4. Blocks' = Blocks \ {r}
  BY <1>3 DEF Blocks
<1>5. \A b \in Blocks : blocks[b] \in Block
  BY DEF HeapInv, Shape
<1>6. /\ blocks'[current].size = blocks[current].size + blocks[r].size + SIZEOF_BLOCK
      /\ blocks'[current].is_free = blocks[current].is_free
      /\ blocks'[current].next = blocks[r].next
      /\ blocks'[current].prev = blocks[current].prev
      /\ blocks'[current] \in Block
  <2>1. blocks'[current] = [blocks[current] EXCEPT
                              !.size = blocks[current].size + blocks[r].size + SIZEOF_BLOCK,
                              !.next = blocks[r].next]
    BY <1>1, <1>2, <1>3
  <2>2. blocks[current] \in Block /\ blocks[r] \in Block
    BY <1>1, <1>5
  <2>3. /\ blocks[current].size + blocks[r].size + SIZEOF_BLOCK \in Nat
        /\ blocks[r].next \in Nat
    BY <2>2 DEF Block
  <2> QED BY <2>1, <2>2, <2>3 DEF Block
<1>7. ASSUME NEW b \in Blocks \ {current, r}
      PROVE  /\ blocks'[b].size = blocks[b].size /\ blocks'[b].is_free = blocks[b].is_free
             /\ blocks'[b].next = blocks[b].next
             /\ blocks'[b].prev = (IF b = blocks[r].next THEN current ELSE blocks[b].prev)
             /\ blocks'[b] \in Block
  <2>1. blocks[b] \in Block
    BY <1>5
  <2>2. CASE b = blocks[r].next
    <3>1. blocks'[b] = [blocks[b] EXCEPT !.prev = current]
      BY <1>2, <1>3, <2>2
    <3> QED BY <1>1, <2>1, <2>2, <3>1, PrevUpdate
  <2>3. CASE b # blocks[r].next
    BY <1>3, <2>1, <2>3
  <2> QED BY <2>2, <2>3
<1> QED BY <1>4, <1>6, <1>7 DEF MergeResult

(* A merge leaves the blocks tiling the region, on aligned addresses.      *)
LEMMA MergeHeap ==
  ASSUME HeapInv, current \in Blocks, blocks[current].next # NULL, blocks' = MergeNext
  PROVE  HeapInv'
<1> USE RegionAssumption
<1>0. PICK r : r = blocks[current].next
  OBVIOUS
<1>1. MergeResult(r)
  BY <1>0, MergeEffect
<1>2. /\ Blocks' = Blocks \ {r}
      /\ blocks'[current].size = blocks[current].size + blocks[r].size + SIZEOF_BLOCK
      /\ blocks'[current].next = blocks[r].next
      /\ blocks'[current].prev = blocks[current].prev
  BY <1>1 DEF MergeResult
<1>3. \A b \in Blocks \ {current, r} :
        /\ blocks'[b].size = blocks[b].size /\ blocks'[b].next = blocks[b].next
        /\ blocks'[b].prev = (IF b = blocks[r].next THEN current ELSE blocks[b].prev)
  BY <1>1 DEF MergeResult
<1>4. \A b \in Blocks :
         /\ b \in Nat /\ b # NULL /\ MEMORY_START <= b
         /\ blocks[b].size \in Nat /\ End(b) \in Nat
         /\ b + SIZEOF_BLOCK + blocks[b].size = End(b)
         /\ b < End(b) /\ End(b) <= MEMORY_END
         /\ blocks[b].next = (IF End(b) = MEMORY_END THEN NULL ELSE End(b))
         /\ End(b) # MEMORY_END => End(b) \in Blocks /\ blocks[End(b)].prev = b
         /\ blocks[b].prev # NULL => blocks[b].prev \in Blocks /\ End(blocks[b].prev) = b
         /\ blocks[b].prev = NULL <=> b = free_list
         /\ \A c \in Blocks : c > b => c >= End(b)
  BY BlockFacts
<1>5. r \in Blocks /\ r = End(current) /\ current < r /\ blocks[r].prev = current
      /\ current # r
  BY <1>0, <1>4, NextBlock
<1>6. EndOf(blocks', current) = End(r)
  BY <1>2, <1>4, <1>5 DEF EndOf, address
<1>7. \A b \in Blocks \ {current, r} : EndOf(blocks', b) = End(b)
  BY <1>3 DEF End, EndOf
<1>8. Shape'
  <2>1. free_list # r
    BY <1>4, <1>5 DEF free_list
  <2>2. Blocks' \subseteq Addresses /\ free_list \in Blocks'
    BY <1>2, <2>1 DEF HeapInv, Shape
  <2>3. ASSUME NEW b \in Blocks', blocks'[b].prev # NULL
        PROVE  blocks'[b].prev \in Blocks' /\ EndOf(blocks', blocks'[b].prev) = b
    <3>1. CASE b = current
      <4>1. /\ blocks'[b].prev = blocks[b].prev /\ blocks[b].prev \in Blocks
            /\ End(blocks[b].prev) = b
        BY <1>2, <1>4, <2>3, <3>1
      <4>2. blocks[b].prev # current /\ blocks[b].prev # r
        BY <1>4, <1>5, <3>1, <4>1
      <4> QED BY <1>2, <1>7, <4>1, <4>2
    <3>2. CASE b # current /\ b = blocks[r].next
      <4>1. b \in Blocks \ {current, r} /\ current \in Blocks' /\ b = End(r)
        BY <1>2, <1>4, <1>5, <3>2
      <4> QED BY <1>3, <1>6, <3>2, <4>1
    <3>3. CASE b # current /\ b # blocks[r].next
      <4>1. b \in Blocks \ {current, r}
        BY <1>2, <3>3
      <4>2. /\ blocks'[b].prev = blocks[b].prev /\ blocks[b].prev \in Blocks
            /\ End(blocks[b].prev) = b
        BY <1>3, <1>4, <2>3, <3>3, <4>1
      <4>3. blocks[b].prev # r
        BY <1>4, <1>5, <3>3, <4>1, <4>2
      <4>4. blocks[b].prev # current
        BY <1>5, <4>1, <4>2
      <4> QED BY <1>2, <1>7, <4>2, <4>3, <4>4
    <3> QED BY <3>1, <3>2, <3>3
  <2>4. \A b \in Blocks' : blocks'[b] \in Block
    BY <1>1 DEF MergeResult
  <2>5. \A b \in Blocks' : address(b) < MEMORY_END
    BY <1>2 DEF HeapInv, Shape
  <2> QED BY <2>2, <2>3, <2>4, <2>5 DEF Shape, Addresses, free_list, address
<1>9. ASSUME NEW b \in Blocks'
      PROVE  /\ blocks'[b].next = (IF EndOf(blocks', b) = MEMORY_END THEN NULL
                                   ELSE EndOf(blocks', b))
             /\ EndOf(blocks', b) # MEMORY_END =>
                  EndOf(blocks', b) \in Blocks' /\ blocks'[EndOf(blocks', b)].prev = b
             /\ blocks'[b].prev = NULL <=> b = free_list
             /\ \A c \in Blocks' : c > b => c >= EndOf(blocks', b)
  <2>1. CASE b = current
    <3>1. EndOf(blocks', b) = End(r) /\ blocks'[b].next = blocks[r].next
      BY <1>2, <1>6, <2>1
    <3>2. blocks[r].next = (IF End(r) = MEMORY_END THEN NULL ELSE End(r))
      BY <1>4, <1>5
    <3>3. ASSUME End(r) # MEMORY_END
          PROVE  End(r) \in Blocks' /\ blocks'[End(r)].prev = b
      <4>1. End(r) \in Blocks \ {current, r}
        BY <1>4, <1>5, <3>3
      <4> QED BY <1>2, <1>3, <2>1, <3>2, <3>3, <4>1
    <3>4. blocks'[b].prev = NULL <=> b = free_list
      BY <1>2, <1>4, <2>1
    <3>5. ASSUME NEW c \in Blocks', c > b PROVE c >= End(r)
      <4>1. c \in Blocks /\ c # r /\ c \in Nat /\ r \in Nat
        BY <1>2, <1>4, <1>5
      <4>2. c >= r
        BY <1>4, <1>5, <2>1, <3>5, <4>1
      <4> QED BY <1>4, <1>5, <4>1, <4>2
    <3> QED BY <3>1, <3>2, <3>3, <3>4, <3>5
  <2>2. CASE b # current
    <3>0. b \in Blocks \ {current, r}
      BY <1>2, <2>2
    <3>1. EndOf(blocks', b) = End(b) /\ blocks'[b].next = blocks[b].next
      BY <1>3, <1>7, <3>0
    <3>2. blocks[b].next = (IF End(b) = MEMORY_END THEN NULL ELSE End(b))
      BY <1>4, <3>0
    <3>3. ASSUME End(b) # MEMORY_END
          PROVE  End(b) \in Blocks' /\ blocks'[End(b)].prev = b
      <4>1. End(b) \in Blocks /\ blocks[End(b)].prev = b
        BY <1>4, <3>0, <3>3
      <4>2. End(b) # r /\ b # current
        BY <1>5, <2>2, <4>1
      <4>3. CASE End(b) = current
        BY <1>2, <4>1, <4>2, <4>3
      <4>4. CASE End(b) # current
        <5>1. End(b) # blocks[r].next
          <6>1. blocks[r].next = End(b) => blocks[End(b)].prev = r
            BY <1>4, <1>5, <4>1
          <6> QED BY <3>0, <4>1, <6>1
        <5> QED BY <1>2, <1>3, <4>1, <4>2, <4>4, <5>1
      <4> QED BY <4>3, <4>4
    <3>4. blocks'[b].prev = NULL <=> b = free_list
      <4>1. b = blocks[r].next => blocks[b].prev = r /\ r # NULL /\ current # NULL
        BY <1>4, <1>5, <3>0
      <4> QED BY <1>3, <1>4, <3>0, <4>1
    <3>5. \A c \in Blocks' : c > b => c >= End(b)
      BY <1>2, <1>4, <3>0
    <3> QED BY <3>1, <3>2, <3>3, <3>4, <3>5
  <2> QED BY <2>1, <2>2
<1>10. Tiling'
  <2>1. \A b \in Blocks' : EndOf(blocks', b) = address(b) + blocks'[b].size
    BY DEF EndOf, address
  <2> QED BY <1>9, <2>1 DEF Tiling, address, free_list
<1>11. Aligned'
  <2>0. \A x, y \in Nat : x % ALIGNMENT = 0 /\ y % ALIGNMENT = 0 => (x + y) % ALIGNMENT = 0
    BY ModZero
  <2>1. \A b \in Blocks : b % ALIGNMENT = 0 /\ blocks[b].size % ALIGNMENT = 0
    BY DEF HeapInv, Aligned
  <2>2. /\ blocks[current].size \in Nat /\ blocks[r].size \in Nat
        /\ blocks[current].size % ALIGNMENT = 0 /\ blocks[r].size % ALIGNMENT = 0
        /\ SIZEOF_BLOCK \in Nat /\ SIZEOF_BLOCK % ALIGNMENT = 0
    BY <1>4, <1>5, <2>1
  <2>3. /\ (blocks[current].size + blocks[r].size) % ALIGNMENT = 0
        /\ blocks[current].size + blocks[r].size \in Nat
    <3>1. (blocks[current].size + blocks[r].size) % ALIGNMENT = 0
      BY <2>0, <2>2
    <3> QED BY <2>2, <3>1
  <2>4. blocks'[current].size % ALIGNMENT = 0
    <3>1. ((blocks[current].size + blocks[r].size) + SIZEOF_BLOCK) % ALIGNMENT = 0
      BY <2>0, <2>2, <2>3
    <3> QED BY <1>2, <3>1
  <2>5. \A b \in Blocks' : b % ALIGNMENT = 0 /\ blocks'[b].size % ALIGNMENT = 0
    BY <1>2, <1>3, <2>1, <2>4
  <2> QED BY <2>5 DEF Aligned
<1> QED BY <1>8, <1>10, <1>11 DEF HeapInv

(* Setting a block's flag moves nothing.                                   *)
LEMMA FlagHeap ==
  ASSUME HeapInv, NEW x \in Blocks, NEW f \in BOOLEAN,
         blocks' = [blocks EXCEPT ![x].is_free = f]
  PROVE  /\ HeapInv' /\ Blocks' = Blocks
         /\ \A b \in Blocks : /\ blocks'[b].size = blocks[b].size
                              /\ blocks'[b].next = blocks[b].next
                              /\ blocks'[b].is_free = (IF b = x THEN f ELSE blocks[b].is_free)
<1>1. Blocks' = Blocks
  BY DEF Blocks
<1>2. \A b \in Blocks : blocks[b] \in Block
  BY DEF HeapInv, Shape
<1>3. ASSUME NEW b \in Blocks
      PROVE  /\ blocks'[b] \in Block /\ blocks'[b].size = blocks[b].size
             /\ blocks'[b].next = blocks[b].next /\ blocks'[b].prev = blocks[b].prev
             /\ blocks'[b].is_free = (IF b = x THEN f ELSE blocks[b].is_free)
  <2>1. blocks[b] \in Block /\ b \in DOMAIN blocks
    BY <1>2 DEF Blocks
  <2>2. CASE b = x
    <3>1. blocks'[b] = [blocks[b] EXCEPT !.is_free = f]
      BY <2>1, <2>2
    <3> QED BY <2>1, <2>2, <3>1 DEF Block
  <2>3. CASE b # x
    <3>1. blocks'[b] = blocks[b]
      BY <2>1, <2>3
    <3> QED BY <2>1, <2>3, <3>1
  <2> QED BY <2>2, <2>3
<1>4. \A b \in Blocks : EndOf(blocks', b) = EndOf(blocks, b)
  BY <1>3 DEF EndOf
<1>5. Shape'
  <2>1. Blocks' \subseteq Addresses /\ free_list \in Blocks'
    BY <1>1 DEF HeapInv, Shape
  <2>2. ASSUME NEW b \in Blocks', blocks'[b].prev # NULL
        PROVE  blocks'[b].prev \in Blocks' /\ EndOf(blocks', blocks'[b].prev) = b
    <3>1. b \in Blocks /\ blocks'[b].prev = blocks[b].prev
      BY <1>1, <1>3
    <3>2. blocks[b].prev \in Blocks /\ EndOf(blocks, blocks[b].prev) = b
      BY <2>2, <3>1 DEF HeapInv, Shape
    <3>3. EndOf(blocks', blocks[b].prev) = b
      BY <1>4, <3>2
    <3>4. EndOf(blocks', blocks'[b].prev) = b
      BY <3>1, <3>3
    <3> QED BY <1>1, <3>1, <3>2, <3>4
  <2>3. \A b \in Blocks' : address(b) < MEMORY_END
    BY <1>1 DEF HeapInv, Shape
  <2> QED BY <1>1, <1>3, <2>1, <2>2, <2>3 DEF Shape, Addresses, free_list, address
<1>6. Tiling'
  <2>1. ASSUME NEW b \in Blocks
        PROVE  /\ blocks'[b].next = (IF EndOf(blocks', b) = MEMORY_END THEN NULL
                                     ELSE EndOf(blocks', b))
               /\ EndOf(blocks', b) # MEMORY_END =>
                    EndOf(blocks', b) \in Blocks /\ blocks'[EndOf(blocks', b)].prev = b
               /\ blocks'[b].prev = NULL <=> b = free_list
               /\ \A c \in Blocks : c > b => c >= EndOf(blocks', b)
    <3>1. EndOf(blocks', b) = End(b) /\ blocks'[b].next = blocks[b].next
          /\ blocks'[b].prev = blocks[b].prev
      BY <1>3, <1>4 DEF End
    <3>2. End(b) # MEMORY_END => End(b) \in Blocks /\ blocks'[End(b)].prev = b
      <4>1. End(b) # MEMORY_END => End(b) \in Blocks /\ blocks[End(b)].prev = b
        BY BlockFacts
      <4> QED BY <1>3, <4>1
    <3>3. /\ blocks[b].next = (IF End(b) = MEMORY_END THEN NULL ELSE End(b))
          /\ blocks[b].prev = NULL <=> b = free_list
          /\ \A c \in Blocks : c > b => c >= End(b)
      BY BlockFacts
    <3> QED BY <3>1, <3>2, <3>3
  <2> QED BY <1>1, <2>1 DEF Tiling, EndOf, address, free_list
<1>7. Aligned'
  BY <1>1, <1>3 DEF HeapInv, Aligned
<1> QED BY <1>1, <1>3, <1>5, <1>6, <1>7 DEF HeapInv

(* One free block that spans the region.                                   *)
LEMMA InitHeap == Init => HeapInv /\ Blocks = {MEMORY_START} /\ InUse = {}
<1> SUFFICES ASSUME Init PROVE HeapInv /\ Blocks = {MEMORY_START} /\ InUse = {}
  OBVIOUS
<1> USE RegionAssumption
<1>1. Blocks = {MEMORY_START} /\ total_memory - SIZEOF_BLOCK \in Nat
  BY DEF Init, Blocks, total_memory
<1>2. blocks[MEMORY_START] = [size |-> total_memory - SIZEOF_BLOCK, is_free |-> TRUE,
                              next |-> NULL, prev |-> NULL]
  BY DEF Init
<1>3. /\ blocks[MEMORY_START] \in Block /\ blocks[MEMORY_START].prev = NULL
      /\ blocks[MEMORY_START].size = total_memory - SIZEOF_BLOCK
      /\ blocks[MEMORY_START].next = NULL /\ blocks[MEMORY_START].is_free
  BY <1>1, <1>2 DEF Block, NULL
<1>4. Shape
  BY <1>1, <1>3 DEF Shape, Addresses, free_list, address
<1>5. address(MEMORY_START) + blocks[MEMORY_START].size = MEMORY_END
  BY <1>3 DEF address, total_memory
<1>6. Tiling
  BY <1>1, <1>3, <1>5 DEF Tiling, free_list
<1>7. Aligned
  <2>1. (MEMORY_END - MEMORY_START) % ALIGNMENT = 0 /\ MEMORY_END - MEMORY_START \in Nat
    <3>1. MEMORY_END >= MEMORY_START /\ MEMORY_END \in Nat /\ MEMORY_START \in Nat
          /\ MEMORY_END % ALIGNMENT = 0 /\ MEMORY_START % ALIGNMENT = 0
          /\ ALIGNMENT \in Nat \ {0}
      OBVIOUS
    <3>2. (MEMORY_END - MEMORY_START) % ALIGNMENT = 0
      BY <3>1, ModZero
    <3> QED BY <3>1, <3>2
  <2>2. total_memory \in Nat /\ total_memory % ALIGNMENT = 0
    BY <2>1 DEF total_memory
  <2>3. (total_memory - SIZEOF_BLOCK) % ALIGNMENT = 0
    <3>1. total_memory >= SIZEOF_BLOCK /\ SIZEOF_BLOCK \in Nat /\ SIZEOF_BLOCK % ALIGNMENT = 0
          /\ ALIGNMENT \in Nat \ {0}
      BY <1>1, <2>2
    <3> QED BY <2>2, <3>1, ModZero
  <2> QED BY <1>1, <1>3, <2>3 DEF Aligned
<1> QED BY <1>1, <1>3, <1>4, <1>6, <1>7 DEF HeapInv, InUse

-----------------------------------------------------------------------------
(* The steps of a call.                                                    *)

(* Rounding yields a multiple of the alignment, which is no less than what *)
(* was asked for unless the addition wraps.                                *)
LEMMA AlignResult ==
  ASSUME NEW n \in Nat
  PROVE  /\ align_address(n, ALIGNMENT) \in 0 .. WORD - 1
         /\ align_address(n, ALIGNMENT) % ALIGNMENT = 0
         /\ n + (ALIGNMENT - 1) < WORD => n <= align_address(n, ALIGNMENT)
<1> USE RegionAssumption
<1> DEFINE x == (n + ALIGNMENT - 1) % WORD
<1>1. x \in 0 .. WORD - 1 /\ (n + (ALIGNMENT - 1) < WORD => x = n + (ALIGNMENT - 1))
  <2>1. n + ALIGNMENT - 1 \in Nat /\ WORD \in Nat \ {0}
    OBVIOUS
  <2> QED BY <2>1
<1>2. align_address(n, ALIGNMENT) = x - (x % ALIGNMENT)
  BY DEF align_address
<1> HIDE DEF x
<1>3. /\ x - (x % ALIGNMENT) \in 0 .. x /\ (x - (x % ALIGNMENT)) % ALIGNMENT = 0
      /\ x - (x % ALIGNMENT) >= x - (ALIGNMENT - 1)
  <2>1. x \in Nat /\ ALIGNMENT \in Nat \ {0}
    BY <1>1
  <2> QED BY <2>1, ModFloor
<1> DEFINE y == x - (x % ALIGNMENT)
<1> HIDE DEF y
<1>4. y \in 0 .. x /\ y % ALIGNMENT = 0 /\ y >= x - (ALIGNMENT - 1)
  BY <1>3 DEF y
<1>5. align_address(n, ALIGNMENT) = y
  BY <1>2 DEF y
<1> QED BY <1>1, <1>4, <1>5

(* A step that leaves the heap alone.                                      *)
LEMMA SameHeap ==
  ASSUME IInv, UNCHANGED <<blocks, owned>>
  PROVE  /\ HeapInv' /\ Pointers' /\ Blocks' = Blocks /\ InUse' = InUse
<1>1. HeapInv /\ Pointers
  BY DEF IInv
<1>2. Blocks' = Blocks /\ InUse' = InUse
  BY DEF Blocks, InUse
<1>3. Shape' /\ Tiling' /\ Aligned'
  BY <1>1, <1>2 DEF HeapInv, Shape, Tiling, Aligned, EndOf, address, Addresses, free_list
<1>4. Pointers'
  BY <1>1, <1>2 DEF Pointers, address
<1> QED BY <1>2, <1>3, <1>4 DEF HeapInv

(* The block of a client's pointer is in use.                              *)
LEMMA OwnedBlock ==
  ASSUME IInv, NEW p \in DOMAIN owned
  PROVE  p - SIZEOF_BLOCK \in InUse /\ p \in Addresses
<1>1. PICK b \in InUse : p = address(b)
  BY DEF IInv, Pointers
<1>2. HeapInv /\ b \in Blocks
  BY DEF IInv, InUse
<1> QED BY <1>1, <1>2, BlockFacts

(* A search that starts finds every block still ahead of it.               *)
LEMMA StartSearch ==
  ASSUME IInv, UNCHANGED <<blocks, owned>>, pc # "compact",
         NEW n \in Nat, NEW asked \in Nat, StartMalloc(n, asked),
         ptr' \in Addresses \cup {NULL},
         old_size' # 0 => /\ ptr' - SIZEOF_BLOCK \in InUse
                          /\ old_size' = blocks[ptr' - SIZEOF_BLOCK].size
  PROVE  IInv'
<1>1. HeapInv' /\ Pointers' /\ Blocks' = Blocks /\ InUse' = InUse
  BY SameHeap
<1>2. pc' = "search" /\ current' = free_list /\ req' = asked
      /\ aligned_size' = align_address(n, ALIGNMENT)
  BY DEF StartMalloc
<1>3. HeapInv /\ free_list \in Blocks
  BY DEF IInv, HeapInv, Shape
<1>4. CallTypes'
  BY <1>1, <1>2, <1>3, AlignResult DEF CallTypes, Addresses
<1>5. CallInv'
  BY <1>1, <1>2 DEF CallInv
<1>6. CoalescedInv'
  BY <1>1, <1>2 DEF IInv, CoalescedInv, Passed
<1>7. FirstFit'
  <2>1. \A b \in Blocks : free_list <= b /\ free_list # NULL
    BY <1>3, BlockFacts, RegionAssumption DEF free_list, NULL
  <2> QED BY <1>1, <1>2, <2>1 DEF FirstFit, free_list
<1> QED BY <1>1, <1>4, <1>5, <1>6, <1>7 DEF IInv

(* kmalloc() and kcalloc() start a search.                                 *)
LEMMA StepAllocate ==
  ASSUME IInv, NEW n \in Requests,
         kmalloc(n) \/ \E k \in Counts : kcalloc(k, n)
  PROVE  IInv'
<1> USE RegionAssumption
<1>1. n \in Nat /\ ptr \in Addresses \cup {NULL} /\ Counts \subseteq Nat
  BY RequestAssumption DEF IInv, CallTypes
<1>2. pc = "idle" => old_size = 0
  BY DEF IInv, CallInv
<1>3. CASE kmalloc(n)
  <2>1. /\ UNCHANGED <<blocks, owned>> /\ pc # "compact" /\ StartMalloc(n, n)
        /\ ptr' = ptr /\ old_size' = 0
    BY <1>2, <1>3 DEF kmalloc, heap
  <2> QED BY <1>1, <2>1, StartSearch
<1>4. ASSUME NEW k \in Counts, kcalloc(k, n) PROVE IInv'
  <2>1. /\ UNCHANGED <<blocks, owned>> /\ pc # "compact"
        /\ StartMalloc((k * n) % WORD, k * n)
        /\ ptr' = ptr /\ old_size' = 0
    BY <1>2, <1>4 DEF kcalloc, heap
  <2>2. k * n \in Nat /\ (k * n) % WORD \in Nat
    <3>1. k * n \in Nat
      BY <1>1
    <3>2. WORD \in Nat \ {0}
      OBVIOUS
    <3> DEFINE m == k * n
    <3> HIDE DEF m
    <3>3. m \in Nat => m % WORD \in Nat
      BY <3>2
    <3> QED BY <3>1, <3>3 DEF m
  <2> QED BY <1>1, <2>1, <2>2, StartSearch
<1> QED BY <1>3, <1>4

(* The search passes a block that does not fit.                            *)
LEMMA StepSearch ==
  ASSUME IInv, kmalloc_next \/ kmalloc_fails
  PROVE  IInv'
<1> USE RegionAssumption
<1>0. UNCHANGED <<blocks, owned>> /\ pc = "search" /\ HeapInv /\ CallTypes
  BY DEF kmalloc_next, kmalloc_fails, heap, IInv
<1>1. HeapInv' /\ Pointers' /\ Blocks' = Blocks /\ InUse' = InUse
  BY <1>0, SameHeap
<1>2. CASE kmalloc_next
  <2>1. /\ current \in Blocks /\ current' = blocks[current].next /\ pc' = "search"
        /\ UNCHANGED <<req, aligned_size, ptr, old_size>> /\ ~Fits
    BY <1>0, <1>2 DEF kmalloc_next, CallTypes
  <2>2. current' \in Blocks \cup {NULL}
    BY <1>0, <2>1, NextBlock
  <2>3. CallTypes'
    BY <1>0, <1>1, <2>1, <2>2 DEF CallTypes, Addresses
  <2>4. CallInv'
    BY <1>1, <1>0, <2>1 DEF IInv, CallInv
  <2>5. CoalescedInv'
    BY <1>0, <1>1, <2>1 DEF IInv, CoalescedInv, Passed
  <2>6. ASSUME NEW b \in Blocks \ InUse, blocks[b].size >= aligned_size
        PROVE  current' # NULL /\ current' <= b
    <3>1. b \in Blocks /\ current <= b /\ blocks[b].is_free
      BY <1>0, <2>6 DEF IInv, FirstFit, InUse
    <3>2. b # current
      BY <2>1, <2>6, <3>1 DEF Fits
    <3>3. b \in Nat /\ current \in Nat
      BY <1>0, <2>1, <3>1, BlockFacts
    <3>4. b >= End(current) /\ b < MEMORY_END
      BY <1>0, <2>1, <3>1, <3>2, <3>3, BlockFacts DEF HeapInv, Shape, Addresses
    <3>5. /\ blocks[current].next = (IF End(current) = MEMORY_END THEN NULL ELSE End(current))
          /\ End(current) \in Nat /\ current < End(current)
      BY <1>0, <2>1, BlockFacts
    <3> QED BY <2>1, <3>3, <3>4, <3>5 DEF NULL
  <2>7. FirstFit'
    BY <1>0, <1>1, <2>1, <2>6 DEF FirstFit
  <2> QED BY <1>1, <2>3, <2>4, <2>5, <2>7 DEF IInv
<1>3. CASE kmalloc_fails
  <2>1. /\ pc' = "idle" /\ req' = 0 /\ aligned_size' = 0 /\ ptr' = NULL /\ old_size' = 0
        /\ current' = NULL
    BY <1>0, <1>3 DEF kmalloc_fails
  <2>2. CallTypes'
    BY <1>1, <2>1 DEF CallTypes, Addresses
  <2>3. CallInv' /\ FirstFit'
    BY <1>1, <2>1 DEF CallInv, FirstFit
  <2>4. CoalescedInv'
    BY <1>0, <1>1, <2>1 DEF IInv, CoalescedInv, Passed
  <2> QED BY <1>1, <2>2, <2>3, <2>4 DEF IInv
<1> QED BY <1>2, <1>3

(* kfree() looks for the block; a call with nothing to free ends.          *)
LEMMA StepFind ==
  ASSUME IInv, (\E a \in Addresses : kfree(a)) \/ kfree_next \/ kfree_ignores
  PROVE  IInv'
<1> USE RegionAssumption
<1>0. /\ UNCHANGED <<blocks, owned, req, aligned_size, old_size>> /\ pc \in {"idle", "find"}
      /\ HeapInv /\ CallTypes /\ old_size = 0 /\ pc' \in {"find", "idle"}
  BY DEF kfree, kfree_next, kfree_ignores, heap, IInv, CallInv
<1>1. HeapInv' /\ Pointers' /\ Blocks' = Blocks /\ InUse' = InUse
  BY <1>0, SameHeap
<1>2. current' \in Blocks \cup {NULL} /\ ptr' \in Addresses \cup {NULL}
  <2>1. free_list \in Blocks
    BY <1>0 DEF HeapInv, Shape
  <2>2. CASE kfree_next
    <3>1. current \in Blocks /\ current' = blocks[current].next /\ ptr' = ptr
      BY <1>0, <2>2 DEF kfree_next, CallTypes
    <3>2. current' \in Blocks \cup {NULL}
      BY <1>0, <3>1, NextBlock
    <3> QED BY <1>0, <3>1, <3>2 DEF CallTypes
  <2> QED BY <2>1, <2>2 DEF kfree, kfree_ignores
<1>3. CallTypes'
  BY <1>0, <1>1, <1>2 DEF CallTypes, Addresses
<1>4. CallInv' /\ FirstFit'
  BY <1>0 DEF CallInv, FirstFit
<1>5. CoalescedInv'
  BY <1>0, <1>1 DEF IInv, CoalescedInv, Passed
<1> QED BY <1>1, <1>3, <1>4, <1>5 DEF IInv

(* krealloc() measures the old block before it searches for a new one, and *)
(* frees it after the copy.                                                *)
LEMMA StepRealloc ==
  ASSUME IInv,
         \/ \E n \in Requests, p \in DOMAIN owned : krealloc(p, n)
         \/ krealloc_measures \/ krealloc_copies
  PROVE  IInv'
<1> USE RegionAssumption
<1>0. UNCHANGED <<blocks, owned>> /\ HeapInv /\ CallTypes
  BY DEF krealloc, krealloc_measures, krealloc_copies, heap, IInv
<1>1. HeapInv' /\ Pointers' /\ Blocks' = Blocks /\ InUse' = InUse
  BY <1>0, SameHeap
<1>2. free_list \in Blocks
  BY <1>0 DEF HeapInv, Shape
<1>3. ASSUME NEW n \in Requests, NEW p \in DOMAIN owned, krealloc(p, n) PROVE IInv'
  <2>1. /\ pc = "idle" /\ pc' = "measure" /\ current' = free_list /\ ptr' = p /\ req' = n
        /\ UNCHANGED <<aligned_size, old_size>> /\ old_size = 0
    BY <1>3 DEF krealloc, IInv, CallInv
  <2>2. p - SIZEOF_BLOCK \in InUse /\ p \in Addresses /\ n \in Nat
    BY OwnedBlock, RequestAssumption
  <2>3. CallTypes'
    BY <1>0, <1>1, <1>2, <2>1, <2>2 DEF CallTypes, Addresses
  <2>4. CallInv' /\ FirstFit'
    BY <1>1, <2>1, <2>2 DEF CallInv, FirstFit
  <2>5. CoalescedInv'
    BY <1>0, <1>1, <2>1 DEF IInv, CoalescedInv, Passed
  <2> QED BY <1>1, <2>3, <2>4, <2>5 DEF IInv
<1>4. CASE krealloc_measures
  <2>0. /\ pc = "measure" /\ ptr' = ptr /\ ptr \in Addresses \cup {NULL}
        /\ ptr - SIZEOF_BLOCK \in InUse /\ old_size = 0
    BY <1>4 DEF krealloc_measures, IInv, CallInv, CallTypes
  <2>1. CASE current # NULL /\ address(current) # ptr
    <3>1. /\ current \in Blocks /\ current' = blocks[current].next
          /\ UNCHANGED <<pc, req, aligned_size, old_size>>
      BY <1>0, <1>4, <2>1 DEF krealloc_measures, CallTypes
    <3>2. current' \in Blocks \cup {NULL}
      BY <1>0, <3>1, NextBlock
    <3>3. CallTypes'
      BY <1>0, <1>1, <2>0, <3>1, <3>2 DEF CallTypes, Addresses
    <3>4. CallInv' /\ FirstFit'
      BY <1>1, <2>0, <3>1 DEF CallInv, FirstFit
    <3>5. CoalescedInv'
      BY <1>0, <1>1, <2>0, <3>1 DEF IInv, CoalescedInv, Passed
    <3> QED BY <1>1, <3>3, <3>4, <3>5 DEF IInv
  <2>2. CASE ~(current # NULL /\ address(current) # ptr)
    <3>1. /\ old_size' = (IF current # NULL THEN blocks[current].size ELSE 0)
          /\ StartMalloc(req, req)
      BY <1>4, <2>2 DEF krealloc_measures
    <3>2. current # NULL => ptr - SIZEOF_BLOCK = current
      BY <1>0, <2>2, BlockFacts DEF CallTypes
    <3>3. req \in Nat
      BY <1>0 DEF CallTypes
    <3> QED BY <1>0, <2>0, <3>1, <3>2, <3>3, StartSearch
  <2> QED BY <2>1, <2>2
<1>5. CASE krealloc_copies
  <2>1. /\ pc = "copy" /\ pc' = "find" /\ current' = free_list /\ req' = 0
        /\ aligned_size' = 0 /\ old_size' = 0 /\ ptr' = ptr
    BY <1>5 DEF krealloc_copies
  <2>2. CallTypes'
    BY <1>0, <1>1, <1>2, <2>1 DEF CallTypes, Addresses
  <2>3. CallInv' /\ FirstFit'
    BY <2>1 DEF CallInv, FirstFit
  <2>4. CoalescedInv'
    BY <1>0, <1>1, <2>1 DEF IInv, CoalescedInv, Passed
  <2> QED BY <1>1, <2>2, <2>3, <2>4 DEF IInv
<1> QED BY <1>3, <1>4, <1>5

(* The page table and the heap share no variable.                          *)
LEMMA StepOther ==
  ASSUME IInv, UNCHANGED <<blocks, pc, current, req, aligned_size, ptr, old_size, owned>>
  PROVE  IInv'
<1>1. HeapInv' /\ Pointers' /\ Blocks' = Blocks /\ InUse' = InUse
  BY SameHeap
<1>2. CallTypes'
  BY <1>1 DEF IInv, CallTypes, Addresses
<1>3. CallInv'
  BY <1>1 DEF IInv, CallInv
<1>4. CoalescedInv' /\ FirstFit'
  BY <1>1 DEF IInv, CoalescedInv, Passed, FirstFit
<1> QED BY <1>1, <1>2, <1>3, <1>4 DEF IInv

(* What taking a block does to the heap, whether or not it is split: every *)
(* other block keeps its size and flag, and a new one is free.             *)
Taken ==
  /\ HeapInv' /\ current \in Blocks /\ Blocks \subseteq Blocks'
  /\ blocks[current].is_free /\ InUse' = InUse \cup {current}
  /\ blocks'[current].size \in Nat /\ aligned_size <= blocks'[current].size
  /\ \A b \in Blocks \ {current} : blocks'[b].size = blocks[b].size

(* kmalloc's end with a block takes it.                                    *)
LEMMA TakeEffect ==
  ASSUME IInv, kmalloc_takes
  PROVE  /\ Taken
         /\ \A b \in Blocks' \ InUse' :
              blocks'[b].next # NULL => blocks'[b].next \in InUse'
<1> USE RegionAssumption
<1>0. /\ HeapInv /\ CallTypes /\ current \in Blocks /\ current # NULL /\ Fits
      /\ pc = "search" /\ aligned_size \in Nat
  BY DEF IInv, CallTypes, kmalloc_takes
<1>1. \A b \in Blocks \ InUse : blocks[b].next # NULL => blocks[b].next \in InUse
  BY <1>0 DEF IInv, CoalescedInv, Passed
<1>2. blocks[current].is_free /\ aligned_size <= blocks[current].size
      /\ blocks[current].size \in Nat
  BY <1>0, BlockFacts DEF Fits
<1>3. CASE Splits
  <2>0. blocks' = SplitBlock
    BY <1>3 DEF kmalloc_takes
  <2>1. PICK nb : nb = address(current) + aligned_size
    OBVIOUS
  <2>2. SplitResult(nb) /\ nb \notin Blocks /\ HeapInv'
    BY <1>0, <1>3, <2>0, <2>1, SplitEffect, SplitRoom, SplitHeap
  <2>3. /\ Blocks' = Blocks \cup {nb} /\ blocks'[nb].is_free /\ ~blocks'[current].is_free
        /\ blocks'[current].size = aligned_size
        /\ blocks'[nb].next = blocks[current].next
    BY <2>2 DEF SplitResult
  <2>4. \A b \in Blocks \ {current} :
          /\ blocks'[b].size = blocks[b].size /\ blocks'[b].is_free = blocks[b].is_free
          /\ blocks'[b].next = blocks[b].next
    BY <2>2 DEF SplitResult
  <2>5. InUse' = InUse \cup {current}
    BY <1>0, <2>2, <2>3, <2>4 DEF InUse
  <2>6. Taken
    BY <1>0, <1>2, <2>2, <2>3, <2>4, <2>5 DEF Taken
  <2>7. ASSUME NEW b \in Blocks' \ InUse', blocks'[b].next # NULL
        PROVE  blocks'[b].next \in InUse'
    <3>1. CASE b = nb
      <4>1. current \in Blocks \ InUse
        BY <1>0, <1>2 DEF InUse
      <4> QED BY <1>1, <2>3, <2>5, <2>7, <3>1, <4>1
    <3>2. CASE b # nb
      BY <1>1, <2>3, <2>4, <2>5, <2>7, <3>2
    <3> QED BY <3>1, <3>2
  <2> QED BY <2>6, <2>7
<1>4. CASE ~Splits
  <2>0. blocks' = [blocks EXCEPT ![current].is_free = FALSE]
    BY <1>4 DEF kmalloc_takes, TakeWhole
  <2>1. /\ HeapInv' /\ Blocks' = Blocks
        /\ \A b \in Blocks :
             /\ blocks'[b].size = blocks[b].size /\ blocks'[b].next = blocks[b].next
             /\ blocks'[b].is_free = (IF b = current THEN FALSE ELSE blocks[b].is_free)
    BY <1>0, <2>0, FlagHeap
  <2>2. InUse' = InUse \cup {current}
    BY <1>0, <2>1 DEF InUse
  <2>3. Taken
    BY <1>0, <1>2, <2>1, <2>2 DEF Taken
  <2> QED BY <1>1, <2>1, <2>2, <2>3
<1> QED BY <1>3, <1>4

(* The pointer handed out is that of a block that was free.                *)
LEMMA StepTakes ==
  ASSUME IInv, kmalloc_takes
  PROVE  IInv'
<1> USE RegionAssumption
<1>0. /\ HeapInv /\ CallTypes /\ current \in Blocks /\ pc = "search" /\ Pointers
  BY DEF IInv, CallTypes, kmalloc_takes
<1>1. /\ HeapInv' /\ Blocks \subseteq Blocks' /\ blocks[current].is_free
      /\ InUse' = InUse \cup {current}
      /\ aligned_size <= blocks'[current].size
      /\ \A b \in Blocks \ {current} : blocks'[b].size = blocks[b].size
      /\ \A b \in Blocks' \ InUse' : blocks'[b].next # NULL => blocks'[b].next \in InUse'
  BY TakeEffect DEF Taken
<1>2. Pointers'
  <2>1. DOMAIN owned' = DOMAIN owned \cup {address(current)}
    BY DEF kmalloc_takes
  <2>2. {address(b) : b \in InUse'} = {address(b) : b \in InUse} \cup {address(current)}
    BY <1>1
  <2> QED BY <1>0, <2>1, <2>2 DEF Pointers, address
<1>3. current \notin InUse /\ InUse \subseteq Blocks
  BY <1>1 DEF InUse
<1>4. CASE old_size > 0
  <2>1. pc' = "copy" /\ UNCHANGED <<current, req, aligned_size, ptr, old_size>>
    BY <1>4 DEF kmalloc_takes
  <2>2. /\ old_size # 0 /\ ptr - SIZEOF_BLOCK \in InUse
        /\ old_size = blocks[ptr - SIZEOF_BLOCK].size
    BY <1>4 DEF IInv, CallInv
  <2>3. /\ ptr - SIZEOF_BLOCK \in Blocks \ {current} /\ ptr - SIZEOF_BLOCK \in InUse'
        /\ blocks'[ptr - SIZEOF_BLOCK].size = blocks[ptr - SIZEOF_BLOCK].size
    BY <1>1, <1>3, <2>2
  <2>4. CallTypes'
    BY <1>0, <1>1, <2>1 DEF CallTypes, Addresses
  <2>5. CallInv'
    BY <1>1, <2>1, <2>2, <2>3 DEF CallInv
  <2>6. CoalescedInv' /\ FirstFit'
    BY <1>1, <2>1 DEF CoalescedInv, FirstFit
  <2> QED BY <1>1, <1>2, <2>4, <2>5, <2>6 DEF IInv
<1>5. CASE ~(old_size > 0)
  <2>1. /\ pc' = "idle" /\ current' = NULL /\ req' = 0 /\ aligned_size' = 0 /\ ptr' = NULL
        /\ old_size' = 0
    BY <1>5 DEF kmalloc_takes
  <2>2. CallTypes'
    BY <2>1 DEF CallTypes, Addresses
  <2>3. CallInv' /\ FirstFit' /\ CoalescedInv'
    BY <1>1, <2>1 DEF CallInv, FirstFit, CoalescedInv
  <2> QED BY <1>1, <1>2, <2>2, <2>3 DEF IInv
<1> QED BY <1>4, <1>5

(* kfree() takes the block out of use and moves nothing.                   *)
LEMMA FreeEffect ==
  ASSUME IInv, kfree_frees
  PROVE  /\ HeapInv' /\ Blocks' = Blocks /\ current \in InUse
         /\ InUse' = InUse \ {current} /\ ptr = address(current)
         /\ \A b \in Blocks : blocks'[b].size = blocks[b].size
<1>0. /\ HeapInv /\ CallTypes /\ current \in Blocks /\ ~blocks[current].is_free
      /\ ptr = address(current) /\ blocks' = [blocks EXCEPT ![current].is_free = TRUE]
  BY DEF IInv, CallTypes, kfree_frees
<1>1. /\ HeapInv' /\ Blocks' = Blocks
      /\ \A b \in Blocks :
           /\ blocks'[b].size = blocks[b].size
           /\ blocks'[b].is_free = (IF b = current THEN TRUE ELSE blocks[b].is_free)
  BY <1>0, FlagHeap
<1>2. current \in InUse /\ InUse' = InUse \ {current}
  BY <1>0, <1>1 DEF InUse
<1> QED BY <1>0, <1>1, <1>2

(* The compaction that follows kfree() starts at the first block.          *)
LEMMA StepFrees ==
  ASSUME IInv, kfree_frees
  PROVE  IInv'
<1> USE RegionAssumption
<1>0. HeapInv /\ CallTypes /\ Pointers /\ CallInv /\ InUse \subseteq Blocks
  BY DEF IInv, InUse
<1>1. /\ HeapInv' /\ Blocks' = Blocks /\ current \in InUse
      /\ InUse' = InUse \ {current} /\ ptr = address(current)
  BY FreeEffect
<1>2. /\ pc = "find" /\ pc' = "compact" /\ current' = free_list /\ ptr' = NULL
      /\ UNCHANGED <<req, aligned_size, old_size>> /\ old_size = 0
      /\ DOMAIN owned' = DOMAIN owned \ {ptr}
  BY <1>0 DEF kfree_frees, CallInv
<1>3. Pointers'
  <2>1. \A b, c \in InUse : address(b) = address(c) => b = c
    BY <1>0, BlockFacts
  <2>2. {address(b) : b \in InUse'} = {address(b) : b \in InUse} \ {address(current)}
    BY <1>1, <2>1
  <2> QED BY <1>0, <1>1, <1>2, <2>2 DEF Pointers, address
<1>4. free_list \in Blocks /\ \A b \in Blocks : ~(b < free_list) /\ b # NULL
  <2>1. free_list \in Blocks
    BY <1>0 DEF HeapInv, Shape
  <2> QED BY <1>0, <2>1, BlockFacts DEF free_list
<1>5. CallTypes'
  BY <1>0, <1>1, <1>2, <1>4 DEF CallTypes, Addresses
<1>6. CallInv' /\ FirstFit'
  BY <1>2 DEF CallInv, FirstFit
<1>7. CoalescedInv'
  BY <1>1, <1>2, <1>4 DEF CoalescedInv, Passed
<1> QED BY <1>1, <1>3, <1>5, <1>6, <1>7 DEF IInv

(* A merge concerns free blocks only.                                      *)
LEMMA MergeInUse ==
  ASSUME IInv, current \in Blocks, blocks[current].next # NULL, Mergeable,
         blocks' = MergeNext
  PROVE  /\ HeapInv' /\ current \in Blocks' /\ blocks[current].is_free
         /\ InUse' = InUse /\ MergeResult(blocks[current].next)
         /\ blocks[current].next \in Blocks \ InUse
         /\ \A b \in InUse : blocks'[b].size = blocks[b].size
<1>0. HeapInv
  BY DEF IInv
<1>1. PICK r : r = blocks[current].next
  OBVIOUS
<1>2. MergeResult(r) /\ HeapInv'
  BY <1>0, <1>1, MergeEffect, MergeHeap
<1>3. /\ r \in Blocks /\ current # r
  BY <1>0, <1>1, NextBlock, BlockFacts
<1>4. blocks[current].is_free /\ blocks[r].is_free
  BY <1>1 DEF Mergeable
<1>5. Blocks' = Blocks \ {r} /\ blocks'[current].is_free = blocks[current].is_free
  BY <1>2 DEF MergeResult
<1>6. \A b \in Blocks \ {current, r} :
        blocks'[b].size = blocks[b].size /\ blocks'[b].is_free = blocks[b].is_free
  BY <1>2 DEF MergeResult
<1>7. InUse' = InUse
  BY <1>3, <1>4, <1>5, <1>6 DEF InUse
<1> QED BY <1>1, <1>2, <1>3, <1>4, <1>5, <1>6, <1>7 DEF InUse

(* One pass is enough: a block the pass leaves behind has no free block    *)
(* after it, and keeps none while the pass goes on.                        *)
LEMMA StepCompact ==
  ASSUME IInv, compact_free_blocks
  PROVE  IInv'
<1> USE RegionAssumption
<1>0. /\ HeapInv /\ CallTypes /\ Pointers /\ pc = "compact" /\ old_size = 0
      /\ current \in Blocks \cup {NULL}
      /\ UNCHANGED <<req, aligned_size, ptr, old_size, owned>>
  BY DEF IInv, CallInv, CallTypes, compact_free_blocks
<1>1. \A b \in Blocks \ InUse :
        (current = NULL \/ b < current) /\ blocks[b].next # NULL => blocks[b].next \in InUse
  BY <1>0 DEF IInv, CoalescedInv, Passed
<1>2. CASE current # NULL /\ blocks[current].next # NULL /\ Mergeable
  <2>0. blocks' = MergeNext /\ current' = current /\ pc' = pc /\ current \in Blocks
    BY <1>0, <1>2 DEF compact_free_blocks
  <2>1. /\ HeapInv' /\ current \in Blocks' /\ blocks[current].is_free
        /\ InUse' = InUse /\ MergeResult(blocks[current].next)
        /\ blocks[current].next \in Blocks \ InUse
    BY <1>2, <2>0, MergeInUse
  <2>2. Pointers'
    BY <1>0, <2>1 DEF Pointers, address
  <2>3. CallTypes'
    BY <1>0, <2>0, <2>1 DEF CallTypes, Addresses
  <2>4. CallInv' /\ FirstFit'
    BY <1>0, <2>0 DEF CallInv, FirstFit
  <2>5. ASSUME NEW b \in Blocks' \ InUse', b < current, blocks'[b].next # NULL
        PROVE  blocks'[b].next \in InUse'
    <3>1. b \in Blocks \ InUse /\ b # current
      BY <1>0, <2>0, <2>1, <2>5, BlockFacts DEF MergeResult
    <3>2. b # blocks[current].next
      BY <2>1, <2>5 DEF MergeResult
    <3>3. blocks'[b].next = blocks[b].next
      BY <2>1, <3>1, <3>2 DEF MergeResult
    <3> QED BY <1>1, <2>1, <2>5, <3>1, <3>3
  <2>6. CoalescedInv'
    BY <1>0, <1>2, <2>0, <2>5 DEF CoalescedInv, Passed
  <2> QED BY <2>1, <2>2, <2>3, <2>4, <2>6 DEF IInv
<1>3. CASE ~(current # NULL /\ blocks[current].next # NULL /\ Mergeable)
  <2>0. UNCHANGED blocks
    BY <1>3 DEF compact_free_blocks
  <2>1. HeapInv' /\ Pointers' /\ Blocks' = Blocks /\ InUse' = InUse
    BY <1>0, <2>0, SameHeap
  <2>2. CASE current # NULL /\ blocks[current].next # NULL
    <3>0. /\ current \in Blocks /\ current' = blocks[current].next /\ pc' = "compact"
          /\ ~Mergeable
      BY <1>0, <1>3, <2>2 DEF compact_free_blocks
    <3>1. current' = End(current) /\ End(current) \in Blocks
      BY <1>0, <2>2, <3>0, NextBlock
    <3>2. blocks[current].is_free => blocks[current].next \in InUse
      <4>1. address(current) + blocks[current].size = End(current)
        BY DEF End, EndOf
      <4>2. address(End(current)) - SIZEOF_BLOCK = End(current)
        BY <1>0, <3>1, BlockFacts
      <4> QED BY <3>0, <3>1, <4>1, <4>2 DEF Mergeable, InUse
    <3>3. ASSUME NEW b \in Blocks \ InUse, b < End(current), blocks[b].next # NULL
          PROVE  blocks[b].next \in InUse
      <4>1. CASE b = current
        BY <3>2, <3>3, <4>1 DEF InUse
      <4>2. CASE b # current
        <5>1. b \in Nat /\ current \in Nat /\ End(current) \in Nat
              /\ (b > current => b >= End(current))
          BY <1>0, <3>0, BlockFacts
        <5>2. b < current
          BY <3>3, <4>2, <5>1
        <5> QED BY <1>1, <3>3, <5>2
      <4> QED BY <4>1, <4>2
    <3>4. CallTypes'
      BY <1>0, <2>1, <3>0, <3>1 DEF CallTypes, Addresses
    <3>5. CallInv' /\ FirstFit'
      BY <1>0, <3>0 DEF CallInv, FirstFit
    <3>6. End(current) # NULL
      BY <1>0, <3>1, BlockFacts
    <3>7. CoalescedInv'
      BY <2>0, <2>1, <3>0, <3>1, <3>3, <3>6 DEF CoalescedInv, Passed
    <3> QED BY <2>1, <3>4, <3>5, <3>7 DEF IInv
  <2>3. CASE ~(current # NULL /\ blocks[current].next # NULL)
    <3>0. pc' = "idle" /\ current' = NULL
      BY <2>3 DEF compact_free_blocks
    <3>1. ASSUME NEW b \in Blocks \ InUse, blocks[b].next # NULL
          PROVE  blocks[b].next \in InUse
      <4>1. CASE current = NULL
        BY <1>1, <3>1, <4>1
      <4>2. CASE current # NULL
        <5>1. current \in Blocks /\ blocks[current].next = NULL /\ b # current
          BY <1>0, <2>3, <3>1, <4>2
        <5>2. b \in Nat /\ current \in Nat /\ b < MEMORY_END
          BY <1>0, <5>1, BlockFacts DEF HeapInv, Shape, Addresses
        <5>3. End(current) = MEMORY_END /\ (b > current => b >= End(current))
          BY <1>0, <5>1, BlockFacts DEF NULL
        <5>4. b < current
          BY <5>1, <5>2, <5>3
        <5> QED BY <1>1, <3>1, <5>4
      <4> QED BY <4>1, <4>2
    <3>2. CallTypes'
      BY <1>0, <2>1, <3>0 DEF CallTypes, Addresses
    <3>3. CallInv' /\ FirstFit'
      BY <1>0, <3>0 DEF CallInv, FirstFit
    <3>4. CoalescedInv'
      BY <2>0, <2>1, <3>1 DEF CoalescedInv
    <3> QED BY <2>1, <3>2, <3>3, <3>4 DEF IInv
  <2> QED BY <2>2, <2>3
<1> QED BY <1>2, <1>3

-----------------------------------------------------------------------------
(* The heap theorems.                                                      *)

(* IInv holds in every reachable state.                                    *)
THEOREM HeapInductive == Spec => []IInv
<1>1. Init => IInv
  <2> SUFFICES ASSUME Init PROVE IInv
    OBVIOUS
  <2>1. HeapInv /\ Blocks = {MEMORY_START} /\ InUse = {}
    BY InitHeap
  <2>2. CallTypes
    <3>1. 0 % ALIGNMENT = 0 /\ 0 \in 0 .. WORD - 1
      BY RegionAssumption
    <3> QED BY <3>1 DEF Init, CallTypes, NULL
  <2>3. Pointers
    BY <2>1 DEF Init, Pointers
  <2>4. CallInv /\ FirstFit
    BY DEF Init, CallInv, FirstFit
  <2>5. CoalescedInv
    <3>1. blocks[MEMORY_START].next = NULL
      BY DEF Init
    <3> QED BY <2>1, <3>1 DEF CoalescedInv
  <2> QED BY <2>1, <2>2, <2>3, <2>4, <2>5 DEF IInv
<1>2. IInv /\ [Next]_vars => IInv'
  <2> SUFFICES ASSUME IInv, [Next]_vars PROVE IInv'
    OBVIOUS
  <2>1. ASSUME NEW n \in Requests, kmalloc(n) \/ \E k \in Counts : kcalloc(k, n)
        PROVE  IInv'
    BY <2>1, StepAllocate
  <2>2. ASSUME NEW n \in Requests, NEW p \in DOMAIN owned, krealloc(p, n) PROVE IInv'
    BY <2>2, StepRealloc
  <2>3. ASSUME NEW a \in Addresses, kfree(a) PROVE IInv'
    BY <2>3, StepFind
  <2>4. ASSUME alloc_page \/ (\E a \in Addresses : free_page(a)) \/ UNCHANGED vars
        PROVE  IInv'
    BY <2>4, StepOther DEF alloc_page, free_page, vars, heap
  <2>5. CASE kmalloc_next \/ kmalloc_fails
    BY <2>5, StepSearch
  <2>6. CASE kmalloc_takes
    BY <2>6, StepTakes
  <2>7. CASE kfree_next \/ kfree_ignores
    BY <2>7, StepFind
  <2>8. CASE kfree_frees
    BY <2>8, StepFrees
  <2>9. CASE compact_free_blocks
    BY <2>9, StepCompact
  <2>10. CASE krealloc_measures \/ krealloc_copies
    BY <2>10, StepRealloc
  <2> QED BY <2>1, <2>2, <2>3, <2>4, <2>5, <2>6, <2>7, <2>8, <2>9, <2>10 DEF Next, Call, Work
<1> QED BY <1>1, <1>2, PTL DEF Spec

(* The block list tiles the region at every step of every call.            *)
THEOREM HeapTiles == Spec => []Tiling
<1>1. IInv => Tiling
  BY DEF IInv, HeapInv
<1> QED BY <1>1, HeapInductive, PTL

(* Every header and every size stays on a word boundary.                   *)
THEOREM HeapAligned == Spec => []Aligned
<1>1. IInv => Aligned
  BY DEF IInv, HeapInv
<1> QED BY <1>1, HeapInductive, PTL

(* One forward pass of compact_free_blocks is enough: no two neighbours    *)
(* are free between two calls.                                             *)
THEOREM HeapCoalesced == Spec => []Coalesced
<1>1. IInv => Coalesced
  BY DEF IInv, CoalescedInv, Passed, Coalesced
<1> QED BY <1>1, HeapInductive, PTL

(* kmalloc is first fit, and fails only when no block fits.                *)
THEOREM SearchIsFirstFit == Spec => []FirstFit
<1>1. IInv => FirstFit
  BY DEF IInv
<1> QED BY <1>1, HeapInductive, PTL

-----------------------------------------------------------------------------
(* What steps do to the clients' blocks.                                   *)

(* A step that allocates and frees nothing: blocks in use stay as they     *)
(* are.                                                                    *)
Keeps ==
  /\ UNCHANGED <<owned, free_memory, memory_stats>> /\ HeapInv' /\ InUse' = InUse
  /\ \A b \in InUse : b \in Blocks' /\ blocks'[b].size = blocks[b].size

(* Only kmalloc and kfree change what is in use.                           *)
LEMMA HeapStep ==
  ASSUME IInv, [Next]_vars
  PROVE  Keeps \/ kmalloc_takes \/ kfree_frees
<1>0. HeapInv /\ InUse \subseteq Blocks
  BY DEF IInv, InUse
<1>1. ASSUME UNCHANGED <<blocks, owned, free_memory, memory_stats>> PROVE Keeps
  BY <1>0, <1>1, SameHeap DEF Keeps
<1>2. ASSUME NEW n \in Requests, kmalloc(n) \/ \E k \in Counts : kcalloc(k, n) PROVE Keeps
  BY <1>1, <1>2 DEF kmalloc, kcalloc, heap
<1>3. ASSUME NEW n \in Requests, NEW p \in DOMAIN owned, krealloc(p, n) PROVE Keeps
  BY <1>1, <1>3 DEF krealloc, heap
<1>4. ASSUME NEW a \in Addresses, kfree(a) \/ free_page(a) PROVE Keeps
  BY <1>1, <1>4 DEF kfree, free_page, heap
<1>5. ASSUME alloc_page \/ UNCHANGED vars PROVE Keeps
  BY <1>1, <1>5 DEF alloc_page, vars, heap
<1>6. CASE kmalloc_next \/ kmalloc_fails \/ kfree_next \/ kfree_ignores
  BY <1>1, <1>6 DEF kmalloc_next, kmalloc_fails, kfree_next, kfree_ignores, heap
<1>7. CASE krealloc_measures \/ krealloc_copies
  BY <1>1, <1>7 DEF krealloc_measures, krealloc_copies, heap
<1>8. CASE compact_free_blocks
  <2>1. UNCHANGED <<owned, free_memory, memory_stats>> /\ current \in Blocks \cup {NULL}
    BY <1>8 DEF compact_free_blocks, IInv, CallTypes
  <2>2. CASE current # NULL /\ blocks[current].next # NULL /\ Mergeable
    <3>1. blocks' = MergeNext /\ current \in Blocks
      BY <1>8, <2>1, <2>2 DEF compact_free_blocks
    <3>2. /\ HeapInv' /\ InUse' = InUse
          /\ \A b \in InUse : blocks'[b].size = blocks[b].size
      BY <2>2, <3>1, MergeInUse
    <3>3. InUse' \subseteq Blocks'
      BY DEF InUse
    <3> QED BY <2>1, <3>2, <3>3 DEF Keeps
  <2>3. CASE ~(current # NULL /\ blocks[current].next # NULL /\ Mergeable)
    <3>1. UNCHANGED blocks
      BY <1>8, <2>3 DEF compact_free_blocks
    <3> QED BY <1>1, <2>1, <3>1
  <2> QED BY <2>2, <2>3
<1> QED BY <1>2, <1>3, <1>4, <1>5, <1>6, <1>7, <1>8 DEF Next, Call, Work

(* A block its client keeps stays where it is, with its size.              *)
LEMMA KeptBlocks ==
  ASSUME IInv, [Next]_vars, NEW p \in DOMAIN owned \cap DOMAIN owned'
  PROVE  /\ p - SIZEOF_BLOCK \in Blocks'
         /\ blocks'[p - SIZEOF_BLOCK].size = blocks[p - SIZEOF_BLOCK].size
<1>0. p - SIZEOF_BLOCK \in InUse /\ InUse \subseteq Blocks
  BY OwnedBlock DEF InUse
<1>1. CASE Keeps
  BY <1>0, <1>1 DEF Keeps
<1>2. CASE kmalloc_takes
  <2>1. /\ blocks[current].is_free /\ Blocks \subseteq Blocks'
        /\ \A b \in Blocks \ {current} : blocks'[b].size = blocks[b].size
    BY <1>2, TakeEffect DEF Taken
  <2> QED BY <1>0, <2>1 DEF InUse
<1>3. CASE kfree_frees
  BY <1>0, <1>3, FreeEffect
<1> QED BY <1>1, <1>2, <1>3, HeapStep

(* No call moves or resizes a block that its client keeps.                 *)
THEOREM BlocksAreStable == Spec => BlocksStayPut
<1>1. IInv /\ [Next]_vars =>
        [\A p \in DOMAIN owned \cap DOMAIN owned' :
           /\ p - SIZEOF_BLOCK \in DOMAIN blocks'
           /\ blocks'[p - SIZEOF_BLOCK].size = blocks[p - SIZEOF_BLOCK].size]_vars
  BY KeptBlocks DEF Blocks
<1> QED BY <1>1, HeapInductive, PTL DEF Spec, BlocksStayPut

-----------------------------------------------------------------------------
(* Clients whose requests do not wrap.                                     *)

(* SizesInv after a step that starts a search.                             *)
LEMMA SearchSizes ==
  ASSUME NoOverflow, NEW n \in Requests, NEW k \in Counts \cup {1}, NEW m, m = k * n
  PROVE  m % WORD = m /\ m <= align_address(m, ALIGNMENT)
<1> USE RegionAssumption
<1>1. m + (ALIGNMENT - 1) < WORD /\ m \in Nat
  BY RequestAssumption DEF NoOverflow
<1>2. m <= align_address(m, ALIGNMENT)
  BY <1>1, AlignResult
<1>3. m \in 0 .. WORD - 1
  BY <1>1
<1> QED BY <1>2, <1>3

(* SizesInv is preserved as long as nothing wraps.                         *)
LEMMA SizesStep ==
  ASSUME NoOverflow, IInv, SizesInv, [Next]_vars
  PROVE  SizesInv'
<1> USE RegionAssumption
<1>0. /\ \A p \in DOMAIN owned : owned[p] <= blocks[p - SIZEOF_BLOCK].size
      /\ pc = "measure" => req \in Requests
      /\ pc \in {"search", "copy"} => req <= aligned_size
      /\ \A n \in Requests : n \in Nat /\ 1 * n = n
  BY RequestAssumption DEF SizesInv
<1>1. \A n \in Requests : n <= align_address(n, ALIGNMENT)
  BY <1>0, SearchSizes
<1>2. ASSUME UNCHANGED owned
      PROVE  \A p \in DOMAIN owned' : owned'[p] <= blocks'[p - SIZEOF_BLOCK].size
  BY <1>0, <1>2, KeptBlocks
<1>3. CASE kmalloc_takes
  <2>1. /\ blocks'[current].size \in Nat /\ aligned_size <= blocks'[current].size
        /\ current \in Blocks
    BY <1>3, TakeEffect DEF Taken
  <2>2. req <= aligned_size /\ req \in Nat /\ aligned_size \in Nat
    BY <1>0, <1>3 DEF kmalloc_takes, IInv, CallTypes
  <2>3. address(current) - SIZEOF_BLOCK = current
    BY <2>1, BlockFacts DEF IInv
  <2>4. owned' = [p \in DOMAIN owned \cup {address(current)} |->
                    IF p = address(current) THEN req ELSE owned[p]]
    BY <1>3 DEF kmalloc_takes
  <2>5. ASSUME NEW p \in DOMAIN owned' PROVE owned'[p] <= blocks'[p - SIZEOF_BLOCK].size
    <3>1. CASE p = address(current)
      BY <2>1, <2>2, <2>3, <2>4, <3>1
    <3>2. CASE p # address(current)
      <4>1. p \in DOMAIN owned /\ owned'[p] = owned[p]
        BY <2>4, <3>2
      <4> QED BY <1>0, <4>1, KeptBlocks
    <3> QED BY <3>1, <3>2
  <2>6. /\ pc' # "measure"
        /\ pc' \in {"search", "copy"} => UNCHANGED <<req, aligned_size>>
    BY <1>3 DEF kmalloc_takes
  <2> QED BY <2>2, <2>5, <2>6 DEF SizesInv
<1>4. CASE kfree_frees
  <2>1. /\ owned' = [p \in DOMAIN owned \ {ptr} |-> owned[p]]
        /\ pc' = "compact"
    BY <1>4 DEF kfree_frees
  <2>2. \A p \in DOMAIN owned' : p \in DOMAIN owned /\ owned'[p] = owned[p]
    BY <2>1
  <2> QED BY <1>0, <2>1, <2>2, KeptBlocks DEF SizesInv
<1>5. ASSUME NEW n \in Requests, kmalloc(n) PROVE SizesInv'
  <2>1. pc' = "search" /\ req' = n /\ aligned_size' = align_address(n, ALIGNMENT)
        /\ UNCHANGED owned
    BY <1>5 DEF kmalloc, StartMalloc
  <2> QED BY <1>1, <1>2, <2>1 DEF SizesInv
<1>6. ASSUME NEW n \in Requests, NEW k \in Counts, kcalloc(k, n) PROVE SizesInv'
  <2>0. PICK m : m = k * n
    OBVIOUS
  <2>1. pc' = "search" /\ req' = m /\ aligned_size' = align_address(m % WORD, ALIGNMENT)
        /\ UNCHANGED owned
    BY <1>6, <2>0 DEF kcalloc, StartMalloc
  <2>2. m % WORD = m /\ m <= align_address(m, ALIGNMENT)
    BY <2>0, SearchSizes
  <2> QED BY <1>2, <2>1, <2>2 DEF SizesInv
<1>7. ASSUME NEW n \in Requests, NEW p \in DOMAIN owned, krealloc(p, n) PROVE SizesInv'
  <2>1. pc' = "measure" /\ req' = n /\ UNCHANGED owned
    BY <1>7 DEF krealloc
  <2> QED BY <1>2, <2>1 DEF SizesInv
<1>8. CASE krealloc_measures
  <2>1. UNCHANGED owned /\ pc = "measure" /\ req \in Requests
    BY <1>0, <1>8 DEF krealloc_measures
  <2>2. \/ UNCHANGED <<pc, req>>
        \/ pc' = "search" /\ req' = req /\ aligned_size' = align_address(req, ALIGNMENT)
    BY <1>8 DEF krealloc_measures, StartMalloc
  <2> QED BY <1>1, <1>2, <2>1, <2>2 DEF SizesInv
<1>9. ASSUME UNCHANGED <<owned, pc, req, aligned_size>> PROVE SizesInv'
  BY <1>0, <1>2, <1>9 DEF SizesInv
<1>10. ASSUME UNCHANGED owned, pc' \in {"idle", "find"} PROVE SizesInv'
  BY <1>2, <1>10 DEF SizesInv
<1>11. ASSUME NEW a \in Addresses, kfree(a) \/ free_page(a) PROVE SizesInv'
  BY <1>9, <1>10, <1>11 DEF kfree, free_page
<1>12. CASE alloc_page \/ UNCHANGED vars
  BY <1>9, <1>12 DEF alloc_page, vars
<1>13. CASE kmalloc_next \/ kmalloc_fails \/ kfree_next \/ kfree_ignores
  BY <1>9, <1>10, <1>13 DEF kmalloc_next, kmalloc_fails, kfree_next, kfree_ignores
<1>14. CASE compact_free_blocks
  <2>1. UNCHANGED <<owned, req, aligned_size>> /\ (pc' = pc \/ pc' = "idle")
    BY <1>14 DEF compact_free_blocks
  <2> QED BY <1>9, <1>10, <2>1
<1>15. CASE krealloc_copies
  BY <1>10, <1>15 DEF krealloc_copies
<1> QED BY <1>3, <1>4, <1>5, <1>6, <1>7, <1>8, <1>11, <1>12, <1>13, <1>14, <1>15
        DEF Next, Call, Work

(* SizesInv holds in every reachable state when no request wraps.          *)
LEMMA SizesHold ==
  ASSUME NoOverflow
  PROVE  Spec => []SizesInv
<1>1. Init => SizesInv
  BY DEF Init, SizesInv
<1>2. IInv /\ SizesInv /\ [Next]_vars => SizesInv'
  BY SizesStep
<1> QED BY <1>1, <1>2, HeapInductive, PTL DEF Spec

(* What a client holds is what the heap has in use, as long as it asked    *)
(* for: nothing leaks when krealloc or kmalloc fails half way.  That a     *)
(* block is as long as its client asked for needs NoOverflow: kcalloc and  *)
(* align_address do not check.                                             *)
THEOREM ClientsHaveBlocks ==
  ASSUME NoOverflow
  PROVE  Spec => []ClientsBlocks
<1>1. IInv /\ SizesInv => ClientsBlocks
  BY DEF IInv, Pointers, SizesInv, ClientsBlocks
<1> QED BY <1>1, HeapInductive, SizesHold, PTL

(* The memcpy of krealloc reads and writes within its two blocks, unless   *)
(* the size it was asked for wrapped when align_address rounded it.        *)
THEOREM ReallocCopiesInBounds ==
  ASSUME NoOverflow
  PROVE  Spec => []CopyInBounds
<1>1. IInv /\ SizesInv => CopyInBounds
  <2> SUFFICES ASSUME IInv, SizesInv, pc = "copy"
               PROVE  LET old == ptr - SIZEOF_BLOCK
                      IN /\ {old, current} \subseteq InUse /\ old # current
                         /\ copy_size <= blocks[old].size
                         /\ copy_size <= blocks[current].size
    BY DEF CopyInBounds
  <2>1. PICK old : old = ptr - SIZEOF_BLOCK
    OBVIOUS
  <2>2. /\ old \in InUse /\ old_size = blocks[old].size /\ current \in InUse
        /\ current # old /\ aligned_size <= blocks[current].size
    BY <2>1 DEF IInv, CallInv
  <2>3. /\ req <= aligned_size /\ req \in Nat /\ aligned_size \in Nat
    BY DEF IInv, CallTypes, SizesInv
  <2>4. blocks[old].size \in Nat /\ blocks[current].size \in Nat
    BY <2>2, BlockFacts DEF IInv, InUse
  <2>5. copy_size <= old_size /\ copy_size <= req /\ copy_size \in Nat
    BY <2>2, <2>3, <2>4 DEF copy_size
  <2> QED BY <2>1, <2>2, <2>3, <2>4, <2>5
<1> QED BY <1>1, HeapInductive, SizesHold, PTL

-----------------------------------------------------------------------------
(* The page table.                                                         *)

PageInv ==
  /\ status \in [Pages -> {"PAGE_FREE", "PAGE_USED"}] /\ ref_count \in [Pages -> 0 .. 1]
  /\ PagesCounted

(* The counters stay within the table.                                     *)
LEMMA PageBounds ==
  ASSUME PageInv
  PROVE  /\ MAX_PAGES \in Nat /\ IsFiniteSet(FreePages)
         /\ free_pages \in 0 .. MAX_PAGES /\ used_pages \in 0 .. MAX_PAGES
<1> USE RegionAssumption
<1>1. MAX_PAGES \in Nat
  BY DEF MAX_PAGES, total_memory
<1>2. IsFiniteSet(Pages) /\ Cardinality(Pages) = MAX_PAGES
  <2>1. \A n \in Nat : 0 <= n - 1 + 1 /\ n - 1 \in Int
    OBVIOUS
  <2>2. \A n \in Nat : /\ IsFiniteSet(0 .. n - 1)
                       /\ Cardinality(0 .. n - 1) = IF 0 > n - 1 THEN 0 ELSE n - 1 - 0 + 1
    BY <2>1, FS_Interval
  <2>3. \A n \in Nat : Cardinality(0 .. n - 1) = n
    BY <2>2
  <2> QED BY <1>1, <2>2, <2>3 DEF Pages
<1>3. IsFiniteSet(FreePages) /\ Cardinality(FreePages) <= Cardinality(Pages)
  BY <1>2, FS_Subset DEF FreePages
<1>4. Cardinality(FreePages) \in Nat
  BY <1>3, FS_CardinalityType
<1>5. free_pages = Cardinality(FreePages) /\ used_pages = MAX_PAGES - free_pages
  BY DEF PageInv, PagesCounted
<1> QED BY <1>1, <1>2, <1>3, <1>4, <1>5

(* alloc_page() takes a free page.                                         *)
LEMMA AllocPage ==
  ASSUME PageInv, alloc_page
  PROVE  PageInv'
<1>0. MAX_PAGES \in Nat /\ IsFiniteSet(FreePages) /\ free_pages \in Nat /\ used_pages \in Nat
  BY PageBounds
<1>1. PICK i \in FreePages :
        /\ status' = [status EXCEPT ![i] = "PAGE_USED"]
        /\ ref_count' = [ref_count EXCEPT ![i] = 1]
  <2>1. FreePages # {} /\ FreePages \subseteq Nat
    BY <1>0 DEF alloc_page, FreePages, Pages
  <2>2. \E j \in FreePages : \A k \in FreePages : j <= k
    BY <2>1, LeastNatural
  <2> QED BY <2>2 DEF alloc_page
<1>2. /\ status \in [Pages -> {"PAGE_FREE", "PAGE_USED"}] /\ ref_count \in [Pages -> 0 .. 1]
      /\ free_pages = Cardinality(FreePages) /\ used_pages = MAX_PAGES - free_pages
      /\ \A j \in Pages : ref_count[j] = 0 <=> j \in FreePages
      /\ i \in Pages
  BY DEF PageInv, PagesCounted, FreePages
<1>3. FreePages' = FreePages \ {i}
  BY <1>1, <1>2 DEF FreePages, Pages, MAX_PAGES, total_memory
<1>4. Cardinality(FreePages') = free_pages - 1
  BY <1>0, <1>1, <1>2, <1>3, FS_RemoveElement
<1>5. free_pages' = free_pages - 1 /\ used_pages' = used_pages + 1
  BY DEF alloc_page
<1>6. \A j \in Pages : ref_count'[j] = 0 <=> j \in FreePages'
  BY <1>1, <1>2, <1>3
<1>7. /\ status' \in [Pages -> {"PAGE_FREE", "PAGE_USED"}]
      /\ ref_count' \in [Pages -> 0 .. 1]
  BY <1>1, <1>2
<1>8. used_pages' = MAX_PAGES - free_pages'
  BY <1>0, <1>2, <1>5
<1> QED BY <1>4, <1>5, <1>6, <1>7, <1>8 DEF PageInv, PagesCounted, Pages, MAX_PAGES, total_memory

(* free_page() gives a page back when its last reference goes.             *)
LEMMA FreePage ==
  ASSUME PageInv, NEW addr, free_page(addr)
  PROVE  PageInv'
<1>0. MAX_PAGES \in Nat /\ IsFiniteSet(FreePages) /\ free_pages \in Nat /\ used_pages \in Nat
  BY PageBounds
<1>1. PICK i \in Pages :
        /\ status[i] = "PAGE_USED"
        /\ ref_count' = [ref_count EXCEPT ![i] = @ - 1]
        /\ IF ref_count[i] = 1
           THEN /\ status' = [status EXCEPT ![i] = "PAGE_FREE"]
                /\ free_pages' = free_pages + 1 /\ used_pages' = used_pages - 1
           ELSE UNCHANGED <<status, free_pages, used_pages>>
  BY DEF free_page
<1>2. /\ status \in [Pages -> {"PAGE_FREE", "PAGE_USED"}] /\ ref_count \in [Pages -> 0 .. 1]
      /\ free_pages = Cardinality(FreePages) /\ used_pages = MAX_PAGES - free_pages
      /\ \A j \in Pages : ref_count[j] = 0 <=> j \in FreePages
  BY DEF PageInv, PagesCounted
<1>3. i \notin FreePages /\ ref_count[i] = 1
  BY <1>1, <1>2 DEF FreePages
<1>a. /\ status' = [status EXCEPT ![i] = "PAGE_FREE"]
      /\ free_pages' = free_pages + 1 /\ used_pages' = used_pages - 1
  BY <1>1, <1>3
<1>4. FreePages' = FreePages \cup {i}
  BY <1>1, <1>2, <1>a DEF FreePages, Pages, MAX_PAGES, total_memory
<1>5. Cardinality(FreePages') = free_pages + 1
  BY <1>0, <1>2, <1>3, <1>4, FS_AddElement
<1>6. \A j \in Pages : ref_count'[j] = 0 <=> j \in FreePages'
  BY <1>1, <1>2, <1>3, <1>4
<1>7. /\ status' \in [Pages -> {"PAGE_FREE", "PAGE_USED"}]
      /\ ref_count' \in [Pages -> 0 .. 1]
  BY <1>1, <1>2, <1>3, <1>a
<1>8. used_pages' = MAX_PAGES - free_pages'
  BY <1>0, <1>2, <1>a
<1> QED BY <1>5, <1>6, <1>7, <1>8, <1>a DEF PageInv, PagesCounted, Pages, MAX_PAGES, total_memory

(* PageInv holds in every reachable state.                                 *)
LEMMA PagesHold == Spec => []PageInv
<1>1. Init => PageInv
  <2> SUFFICES ASSUME Init PROVE PageInv
    OBVIOUS
  <2>1. FreePages = 0 .. MAX_PAGES - 1 /\ MAX_PAGES \in Nat
    BY RegionAssumption DEF Init, FreePages, Pages, MAX_PAGES, total_memory
  <2>2. \A n \in Nat : n - 1 \in Int
    OBVIOUS
  <2>3. \A n \in Nat : Cardinality(0 .. n - 1) = IF 0 > n - 1 THEN 0 ELSE n - 1 - 0 + 1
    BY <2>2, FS_Interval
  <2>4. \A n \in Nat : Cardinality(0 .. n - 1) = n /\ 0 = n - n
    BY <2>3
  <2>5. free_pages = Cardinality(FreePages) /\ used_pages = MAX_PAGES - free_pages
    BY <2>1, <2>4 DEF Init
  <2> QED BY <2>1, <2>5 DEF Init, PageInv, PagesCounted, Pages
<1>2. PageInv /\ [Next]_vars => PageInv'
  <2> SUFFICES ASSUME PageInv, [Next]_vars PROVE PageInv'
    OBVIOUS
  <2>1. ASSUME UNCHANGED pages PROVE PageInv'
    BY <2>1 DEF pages, PageInv, PagesCounted, FreePages, Pages, MAX_PAGES, total_memory
  <2>2. ASSUME NEW n \in Requests, kmalloc(n) \/ \E k \in Counts : kcalloc(k, n) PROVE PageInv'
    BY <2>1, <2>2 DEF kmalloc, kcalloc
  <2>3. ASSUME NEW n \in Requests, NEW p \in DOMAIN owned, krealloc(p, n) PROVE PageInv'
    BY <2>1, <2>3 DEF krealloc
  <2>4. ASSUME NEW a \in Addresses, kfree(a) \/ free_page(a) PROVE PageInv'
    BY <2>1, <2>4, FreePage DEF kfree
  <2>5. CASE alloc_page \/ UNCHANGED vars
    BY <2>1, <2>5, AllocPage DEF vars
  <2>6. CASE Work
    BY <2>1, <2>6 DEF Work, kmalloc_next, kmalloc_fails, kmalloc_takes, kfree_next,
       kfree_ignores, kfree_frees, compact_free_blocks, krealloc_measures, krealloc_copies
  <2> QED BY <2>2, <2>3, <2>4, <2>5, <2>6 DEF Next, Call
<1> QED BY <1>1, <1>2, PTL DEF Spec

(* The page counters agree with the table, and free_page cannot free a     *)
(* page twice.                                                             *)
THEOREM PagesAreCounted == Spec => []PagesCounted
<1>1. PageInv => PagesCounted
  BY DEF PageInv
<1> QED BY <1>1, PagesHold, PTL

-----------------------------------------------------------------------------
(* The statistics.                                                         *)

SizeIn(B, S) == [b \in S |-> B[b].size]

StatTypes ==
  /\ memory_stats \in [total_allocations : 0 .. MaxAllocations, total_frees : Nat,
                       current_allocated : Nat, peak_allocated : 0 .. total_memory]
  /\ pc = "search" => memory_stats.total_allocations < MaxAllocations

AccountInv == StatTypes /\ Accounting

(* The blocks in use are finitely many, and their sizes are numbers.       *)
Sized ==
  /\ IsFiniteSet(InUse) /\ Cardinality(InUse) \in Nat
  /\ \A b \in InUse : blocks[b].size \in Nat

(* The bytes in use, as a sum, fit in the region.                          *)
Summed ==
  /\ SizesOf(InUse) \in 0 .. total_memory
  /\ SizesOf(InUse) = SumOn(SizeIn(blocks, InUse), InUse)

(* The heap has finitely many blocks in use.                               *)
LEMMA InUseFinite == HeapInv => Sized
<1> SUFFICES ASSUME HeapInv PROVE Sized
  OBVIOUS
<1>1. InUse \subseteq Addresses
  BY DEF HeapInv, Shape, InUse
<1>2. IsFiniteSet(Addresses)
  <2>1. MEMORY_START \in Int /\ MEMORY_END - 1 \in Int
    BY RegionAssumption
  <2> QED BY <2>1, FS_Interval DEF Addresses
<1>3. IsFiniteSet(InUse)
  BY <1>1, <1>2, FS_Subset
<1>4. \A b \in InUse : blocks[b].size \in Nat
  BY BlockFacts DEF InUse
<1> QED BY <1>3, <1>4, FS_CardinalityType DEF Sized

(* The data of the blocks in use, which do not overlap, fit in the region. *)
LEMMA SizesBound == HeapInv => Summed
<1> SUFFICES ASSUME HeapInv PROVE Summed
  OBVIOUS
<1> USE RegionAssumption
<1> DEFINE f == SizeIn(blocks, InUse)
<1> DEFINE g == [b \in InUse |-> address(b) .. End(b) - 1]
<1>1. SizesOf(InUse) = SumOn(f, InUse)
  BY DEF SizesOf, SumOn, SizeIn
<1>2. IsFiniteSet(InUse) /\ \A b \in InUse : f[b] = blocks[b].size /\ f[b] \in Nat
  BY InUseFinite DEF SizeIn, Sized
<1>3. \A b \in InUse : g[b] = address(b) .. End(b) - 1
  OBVIOUS
<1> HIDE DEF f, g
<1>4. \A b \in InUse :
        /\ b \in Blocks /\ b \in Nat /\ End(b) \in Nat /\ MEMORY_START <= b
        /\ address(b) = b + SIZEOF_BLOCK
        /\ End(b) = address(b) + f[b] /\ End(b) <= MEMORY_END /\ b < End(b)
        /\ \A c \in Blocks : c > b => c >= End(b)
  BY <1>2, BlockFacts DEF InUse, address, End, EndOf
<1>5. Apart(g, f, InUse)
  <2>1. ASSUME NEW b \in InUse
        PROVE  f[b] \in Nat /\ IsFiniteSet(g[b]) /\ Cardinality(g[b]) = f[b]
    <3>1. \A n, k \in Nat :
            /\ IsFiniteSet(n .. (n + k) - 1)
            /\ Cardinality(n .. (n + k) - 1) = IF n > (n + k) - 1 THEN 0 ELSE ((n + k) - 1) - n + 1
      <4>1. \A n, k \in Nat : n \in Int /\ (n + k) - 1 \in Int
        OBVIOUS
      <4> QED BY <4>1, FS_Interval
    <3>2. \A n, k \in Nat : Cardinality(n .. (n + k) - 1) = k
      BY <3>1
    <3>3. g[b] = address(b) .. (address(b) + f[b]) - 1 /\ address(b) \in Nat /\ f[b] \in Nat
      BY <1>2, <1>3, <1>4
    <3> QED BY <3>1, <3>2, <3>3
  <2>2. ASSUME NEW b \in InUse, NEW c \in InUse, b < c PROVE g[b] \cap g[c] = {}
    <3>1. c >= End(b)
      BY <1>4, <2>2
    <3>2. \A n \in g[b] : n < End(b) /\ n \in Int
      BY <1>3, <1>4
    <3>3. \A n \in g[c] : n >= address(c) /\ n \in Int
      BY <1>3, <1>4
    <3>4. c \in Nat /\ address(c) = c + SIZEOF_BLOCK /\ End(b) \in Nat
      BY <1>4
    <3> QED BY <3>1, <3>2, <3>3, <3>4
  <2>3. ASSUME NEW b \in InUse, NEW c \in InUse, b # c PROVE g[b] \cap g[c] = {}
    <3>1. b < c \/ c < b
      BY <1>4, <2>3
    <3> QED BY <2>2, <3>1
  <2> QED BY <2>1, <2>3 DEF Apart
<1>6. Gather(g, InUse) \subseteq Addresses
  <2>1. \A b \in InUse : g[b] \subseteq Addresses
    BY <1>3, <1>4 DEF Addresses
  <2> QED BY <2>1 DEF Gather
<1>7. IsFiniteSet(Addresses) /\ Cardinality(Addresses) = total_memory /\ total_memory \in Nat
  <2>1. MEMORY_START \in Int /\ MEMORY_END - 1 \in Int
    OBVIOUS
  <2>2. /\ IsFiniteSet(MEMORY_START .. MEMORY_END - 1)
        /\ Cardinality(MEMORY_START .. MEMORY_END - 1)
             = IF MEMORY_START > MEMORY_END - 1 THEN 0 ELSE MEMORY_END - 1 - MEMORY_START + 1
    BY <2>1, FS_Interval
  <2> QED BY <2>2 DEF Addresses, total_memory
<1>8. SumOn(f, InUse) = Cardinality(Gather(g, InUse)) /\ IsFiniteSet(Gather(g, InUse))
  BY <1>2, <1>5, SumGathers
<1>9. Cardinality(Gather(g, InUse)) <= total_memory
  BY <1>6, <1>7, FS_Subset
<1>10. Cardinality(Gather(g, InUse)) \in Nat
  BY <1>8, FS_CardinalityType
<1> QED BY <1>1, <1>7, <1>8, <1>9, <1>10 DEF Summed, f

(* What a step adds to the bytes in use, or takes away.                    *)
LEMMA SizesSteps ==
  ASSUME HeapInv, HeapInv'
  PROVE  /\ SizesOf(InUse) \in Nat /\ SizesOf(InUse)' \in 0 .. total_memory
         /\ InUse' = InUse /\ (\A b \in InUse : blocks'[b].size = blocks[b].size)
              => SizesOf(InUse)' = SizesOf(InUse)
         /\ \A c : /\ c \notin InUse /\ InUse' = InUse \cup {c}
                   /\ \A b \in InUse : blocks'[b].size = blocks[b].size
                   => SizesOf(InUse)' = SizesOf(InUse) + blocks'[c].size
         /\ \A c : /\ c \in InUse /\ InUse' = InUse \ {c}
                   /\ \A b \in InUse : blocks'[b].size = blocks[b].size
                   => SizesOf(InUse) = SizesOf(InUse)' + blocks[c].size
<1> DEFINE f == SizeIn(blocks, InUse)
<1> DEFINE g == SizeIn(blocks', InUse')
<1>1. SizesOf(InUse) = SumOn(f, InUse) /\ SizesOf(InUse)' = SumOn(g, InUse')
  <2>1. Summed /\ Summed'
    BY SizesBound, PTL
  <2> QED BY <2>1 DEF Summed
<1>2. /\ IsFiniteSet(InUse) /\ \A b \in InUse : blocks[b].size \in Nat
      /\ IsFiniteSet(InUse') /\ \A b \in InUse' : blocks'[b].size \in Nat
  <2>1. Sized /\ Sized'
    BY InUseFinite, PTL
  <2> QED BY <2>1 DEF Sized
<1>3. SizesOf(InUse) \in 0 .. total_memory /\ SizesOf(InUse)' \in 0 .. total_memory
  <2>1. Summed /\ Summed'
    BY SizesBound, PTL
  <2> QED BY <2>1 DEF Summed, total_memory
<1>4. /\ \A b \in InUse : f[b] = blocks[b].size
      /\ \A b \in InUse' : g[b] = blocks'[b].size
  BY DEF SizeIn
<1> HIDE DEF f, g
<1>5. ASSUME InUse' = InUse, \A b \in InUse : blocks'[b].size = blocks[b].size
      PROVE  SizesOf(InUse)' = SizesOf(InUse)
  <2>1. SumOn(g, InUse) = SumOn(f, InUse)
    BY <1>2, <1>4, <1>5, SumSteps
  <2> QED BY <1>1, <1>5, <2>1
<1>6. ASSUME NEW c, c \notin InUse, InUse' = InUse \cup {c},
             \A b \in InUse : blocks'[b].size = blocks[b].size
      PROVE  SizesOf(InUse)' = SizesOf(InUse) + blocks'[c].size
  <2>1. SumOn(g, InUse \cup {c}) = SumOn(f, InUse) + g[c]
    BY <1>2, <1>4, <1>6, SumSteps
  <2> QED BY <1>1, <1>4, <1>6, <2>1
<1>7. ASSUME NEW c, c \in InUse, InUse' = InUse \ {c},
             \A b \in InUse : blocks'[b].size = blocks[b].size
      PROVE  SizesOf(InUse) = SizesOf(InUse)' + blocks[c].size
  <2>1. c \notin InUse' /\ InUse = InUse' \cup {c} /\ f[c] \in Nat
        /\ \A b \in InUse' : g[b] \in Nat /\ f[b] = g[b]
    BY <1>2, <1>4, <1>7
  <2>2. SumOn(f, InUse' \cup {c}) = SumOn(g, InUse') + f[c]
    BY <1>2, <2>1, SumSteps
  <2> QED BY <1>1, <1>4, <1>7, <2>1, <2>2
<1> QED BY <1>3, <1>5, <1>6, <1>7

(* The statistics follow what is in use: allocations.                      *)
LEMMA AccountTakes ==
  ASSUME IInv, AccountInv, kmalloc_takes
  PROVE  AccountInv'
<1> USE RegionAssumption, RequestAssumption
<1> DEFINE taken == blocks'[current].size
<1> DEFINE allocated == memory_stats.current_allocated + taken
<1>1. /\ HeapInv /\ HeapInv' /\ current \notin InUse /\ InUse' = InUse \cup {current}
      /\ \A b \in InUse : blocks'[b].size = blocks[b].size
      /\ taken \in Nat
  <2>1. Taken /\ HeapInv
    BY TakeEffect DEF IInv
  <2> QED BY <2>1 DEF Taken, InUse
<1>2. /\ SizesOf(InUse)' \in 0 .. total_memory
      /\ SizesOf(InUse)' = SizesOf(InUse) + taken
  BY <1>1, SizesSteps
<1>3. /\ memory_stats \in [total_allocations : 0 .. MaxAllocations, total_frees : Nat,
                           current_allocated : Nat, peak_allocated : 0 .. total_memory]
      /\ memory_stats.total_allocations < MaxAllocations
      /\ memory_stats.current_allocated = SizesOf(InUse)
      /\ free_memory = total_memory - memory_stats.current_allocated
      /\ memory_stats.peak_allocated >= memory_stats.current_allocated
      /\ memory_stats.total_allocations - memory_stats.total_frees = Cardinality(InUse)
  BY DEF AccountInv, StatTypes, Accounting, kmalloc_takes
<1>4. free_memory' = free_memory - taken /\ pc' # "search"
  BY DEF kmalloc_takes
<1>5. memory_stats' = [memory_stats EXCEPT
        !.total_allocations = @ + 1, !.current_allocated = allocated,
        !.peak_allocated = IF allocated > @ THEN allocated ELSE @]
  BY DEF kmalloc_takes, StatsAfter
<1>6. allocated \in 0 .. total_memory /\ total_memory \in Nat
      /\ allocated = SizesOf(InUse)' /\ allocated \in Nat
      /\ total_memory - allocated = total_memory - memory_stats.current_allocated - taken
  BY <1>1, <1>2, <1>3 DEF total_memory
<1> HIDE DEF taken, allocated
<1>7. /\ memory_stats'.total_allocations = memory_stats.total_allocations + 1
      /\ memory_stats'.total_frees = memory_stats.total_frees
      /\ memory_stats'.current_allocated = allocated
      /\ memory_stats'.peak_allocated = (IF allocated > memory_stats.peak_allocated
                                         THEN allocated ELSE memory_stats.peak_allocated)
  BY <1>3, <1>5
<1>8. memory_stats' \in [total_allocations : 0 .. MaxAllocations, total_frees : Nat,
                         current_allocated : Nat, peak_allocated : 0 .. total_memory]
  <2>1. PICK n : n = memory_stats.total_allocations + 1
    OBVIOUS
  <2>2. PICK p : p = IF allocated > memory_stats.peak_allocated
                     THEN allocated ELSE memory_stats.peak_allocated
    OBVIOUS
  <2>3. n \in 0 .. MaxAllocations /\ p \in 0 .. total_memory
    BY <1>3, <1>6, <2>1, <2>2
  <2>4. memory_stats' = [memory_stats EXCEPT !.total_allocations = n,
                           !.current_allocated = allocated, !.peak_allocated = p]
    BY <1>5, <2>1, <2>2
  <2> QED BY <1>3, <1>6, <2>3, <2>4
<1>9. StatTypes'
  BY <1>4, <1>8 DEF StatTypes, total_memory
<1>10. memory_stats'.peak_allocated >= memory_stats'.current_allocated
  BY <1>3, <1>6, <1>7
<1>11. memory_stats'.total_allocations - memory_stats'.total_frees = Cardinality(InUse')
  <2>1. IsFiniteSet(InUse) /\ Cardinality(InUse) \in Nat
    BY <1>1, InUseFinite DEF Sized
  <2>2. Cardinality(InUse') = Cardinality(InUse) + 1
    BY <1>1, <2>1, FS_AddElement
  <2> QED BY <1>3, <1>7, <2>1, <2>2
<1>12. free_memory' = total_memory - memory_stats'.current_allocated
  BY <1>3, <1>4, <1>6, <1>7
<1>13. Accounting'
  BY <1>6, <1>7, <1>10, <1>11, <1>12 DEF Accounting, total_memory
<1> QED BY <1>9, <1>13 DEF AccountInv

(* The statistics follow what is in use: frees.                            *)
LEMMA AccountFrees ==
  ASSUME IInv, AccountInv, kfree_frees
  PROVE  AccountInv'
<1> USE RegionAssumption, RequestAssumption
<1> DEFINE size == blocks[current].size
<1>1. /\ HeapInv /\ HeapInv' /\ current \in InUse /\ InUse' = InUse \ {current}
      /\ \A b \in InUse : blocks'[b].size = blocks[b].size
      /\ size \in Nat
  BY FreeEffect, BlockFacts DEF InUse, IInv
<1>2. /\ SizesOf(InUse)' \in 0 .. total_memory
      /\ SizesOf(InUse) = SizesOf(InUse)' + size
  BY <1>1, SizesSteps
<1>3. /\ memory_stats \in [total_allocations : 0 .. MaxAllocations, total_frees : Nat,
                           current_allocated : Nat, peak_allocated : 0 .. total_memory]
      /\ memory_stats.current_allocated = SizesOf(InUse)
      /\ free_memory = total_memory - memory_stats.current_allocated
      /\ memory_stats.peak_allocated >= memory_stats.current_allocated
      /\ memory_stats.total_allocations - memory_stats.total_frees = Cardinality(InUse)
  BY DEF AccountInv, StatTypes, Accounting
<1>4. free_memory' = free_memory + size /\ pc' # "search"
  BY DEF kfree_frees
<1>5. memory_stats' = [memory_stats EXCEPT !.total_frees = @ + 1,
                                           !.current_allocated = @ - size]
  BY DEF kfree_frees
<1> HIDE DEF size
<1>6. /\ memory_stats.current_allocated - size = SizesOf(InUse)'
      /\ memory_stats.current_allocated - size \in Nat /\ total_memory \in Nat
      /\ memory_stats.current_allocated \in Nat
  BY <1>1, <1>2, <1>3 DEF total_memory
<1>7. /\ memory_stats'.total_allocations = memory_stats.total_allocations
      /\ memory_stats'.total_frees = memory_stats.total_frees + 1
      /\ memory_stats'.current_allocated = memory_stats.current_allocated - size
      /\ memory_stats'.peak_allocated = memory_stats.peak_allocated
  BY <1>3, <1>5
<1>8. memory_stats' \in [total_allocations : 0 .. MaxAllocations, total_frees : Nat,
                         current_allocated : Nat, peak_allocated : 0 .. total_memory]
  <2>1. PICK n : n = memory_stats.total_frees + 1
    OBVIOUS
  <2>2. PICK c : c = memory_stats.current_allocated - size
    OBVIOUS
  <2>3. n \in Nat /\ c \in Nat
    BY <1>3, <1>6, <2>1, <2>2
  <2>4. memory_stats' = [memory_stats EXCEPT !.total_frees = n, !.current_allocated = c]
    BY <1>5, <2>1, <2>2
  <2> QED BY <1>3, <2>3, <2>4
<1>9. StatTypes'
  BY <1>4, <1>8 DEF StatTypes, total_memory
<1>10. memory_stats'.peak_allocated >= memory_stats'.current_allocated
  BY <1>1, <1>3, <1>6, <1>7
<1>11. memory_stats'.total_allocations - memory_stats'.total_frees = Cardinality(InUse')
  <2>1. IsFiniteSet(InUse) /\ Cardinality(InUse) \in Nat
    BY <1>1, InUseFinite DEF Sized
  <2>2. Cardinality(InUse') = Cardinality(InUse) - 1
    BY <1>1, <2>1, FS_RemoveElement
  <2> QED BY <1>3, <1>7, <2>1, <2>2
<1>12. free_memory' = total_memory - memory_stats'.current_allocated
  BY <1>1, <1>3, <1>4, <1>6, <1>7
<1>13. Accounting'
  BY <1>6, <1>7, <1>10, <1>11, <1>12 DEF Accounting, total_memory
<1> QED BY <1>9, <1>13 DEF AccountInv

(* A search starts only below the bound on allocations.                    *)
LEMMA SearchBounded ==
  ASSUME AccountInv, [Next]_vars, UNCHANGED memory_stats
  PROVE  pc' = "search" => memory_stats.total_allocations < MaxAllocations
<1>1. pc = "search" => memory_stats.total_allocations < MaxAllocations
  BY DEF AccountInv, StatTypes
<1>2. ASSUME NEW n \in Requests, kmalloc(n) \/ \E k \in Counts : kcalloc(k, n)
      PROVE  memory_stats.total_allocations < MaxAllocations
  BY <1>2 DEF kmalloc, kcalloc, StartMalloc
<1>3. ASSUME NEW n \in Requests, NEW p \in DOMAIN owned, krealloc(p, n) PROVE pc' # "search"
  BY <1>3 DEF krealloc
<1>4. ASSUME NEW a \in Addresses, kfree(a) \/ free_page(a) PROVE pc' # "search"
  BY <1>4 DEF kfree, free_page
<1>5. CASE alloc_page \/ UNCHANGED vars
  BY <1>1, <1>5 DEF alloc_page, vars
<1>6. CASE Work
  BY <1>1, <1>6 DEF Work, kmalloc_next, kmalloc_fails, kmalloc_takes, kfree_next,
     kfree_ignores, kfree_frees, compact_free_blocks, krealloc_measures, krealloc_copies,
     StartMalloc
<1> QED BY <1>2, <1>3, <1>4, <1>5, <1>6 DEF Next, Call

(* AccountInv holds in every reachable state.                              *)
LEMMA AccountHolds == Spec => []AccountInv
<1> USE RegionAssumption, RequestAssumption
<1>1. Init => AccountInv
  <2> SUFFICES ASSUME Init PROVE AccountInv
    OBVIOUS
  <2>1. HeapInv /\ InUse = {}
    BY InitHeap
  <2>2. SizesOf(InUse) = 0
    <3>1. SizesOf(InUse) = SumOn(SizeIn(blocks, {}), {})
      BY <2>1, SizesBound DEF Summed
    <3>2. Accumulates([s \in SUBSET {} |-> 0], SizeIn(blocks, {}), {})
      <4> DEFINE h == [s \in SUBSET {} |-> 0]
      <4>1. \A s \in SUBSET {} : h[s] = 0 /\ s = {}
        OBVIOUS
      <4>2. h = [s \in SUBSET {} |-> h[s]]
        OBVIOUS
      <4>3. {} \in SUBSET {}
        OBVIOUS
      <4> HIDE DEF h
      <4>4. Accumulates(h, SizeIn(blocks, {}), {})
        BY <4>1, <4>2, <4>3 DEF Accumulates
      <4> QED BY <4>4 DEF h
    <3>3. SumOn(SizeIn(blocks, {}), {}) = [s \in SUBSET {} |-> 0][{}]
      BY <3>2, FoldIsSum, FS_EmptySet
    <3> QED BY <3>1, <3>3
  <2>3. Cardinality(InUse) = 0
    BY <2>1, FS_EmptySet
  <2>4. memory_stats = [total_allocations |-> 0, total_frees |-> 0,
                        current_allocated |-> 0, peak_allocated |-> 0]
        /\ free_memory = total_memory /\ pc # "search" /\ total_memory \in Nat
    BY DEF Init, total_memory
  <2>5. StatTypes
    BY <2>4 DEF StatTypes
  <2>6. Accounting
    BY <2>2, <2>3, <2>4 DEF Accounting
  <2> QED BY <2>5, <2>6 DEF AccountInv
<1>2. IInv /\ AccountInv /\ [Next]_vars => AccountInv'
  <2> SUFFICES ASSUME IInv, AccountInv, [Next]_vars PROVE AccountInv'
    OBVIOUS
  <2>1. CASE Keeps
    <3>1. /\ UNCHANGED <<free_memory, memory_stats>> /\ HeapInv' /\ InUse' = InUse /\ HeapInv
          /\ \A b \in InUse : blocks'[b].size = blocks[b].size
      BY <2>1 DEF Keeps, IInv
    <3>2. SizesOf(InUse)' = SizesOf(InUse)
      BY <3>1, SizesSteps
    <3>3. StatTypes'
      BY <3>1, SearchBounded DEF AccountInv, StatTypes, total_memory
    <3>4. Accounting'
      BY <3>1, <3>2 DEF AccountInv, Accounting, total_memory
    <3> QED BY <3>3, <3>4 DEF AccountInv
  <2> QED BY <2>1, HeapStep, AccountTakes, AccountFrees
<1> QED BY <1>1, <1>2, HeapInductive, PTL DEF Spec

(* The statistics agree with the heap between any two steps.               *)
THEOREM StatisticsAgreeWithHeap == Spec => []Accounting
<1>1. AccountInv => Accounting
  BY DEF AccountInv
<1> QED BY <1>1, AccountHolds, PTL

(* No size, counter or address wraps or goes below zero.                   *)
THEOREM MemoryTypeOK == Spec => []TypeOK
<1>1. IInv /\ AccountInv /\ PageInv => TypeOK
  <2> SUFFICES ASSUME IInv, AccountInv, PageInv PROVE TypeOK
    OBVIOUS
  <2> USE RegionAssumption, RequestAssumption
  <2>0. HeapInv /\ Blocks \subseteq Addresses /\ total_memory \in Nat
    BY DEF IInv, HeapInv, Shape, total_memory
  <2>1. ASSUME NEW b \in Blocks
        PROVE  /\ blocks[b] \in [size : 0 .. total_memory, is_free : BOOLEAN,
                                 next : Blocks \cup {NULL}, prev : Blocks \cup {NULL}]
               /\ blocks[b].size \in 0 .. total_memory
    <3>1. blocks[b] \in Block
      BY <2>0 DEF HeapInv, Shape
    <3>2. blocks[b].size \in 0 .. total_memory
      <4>1. /\ b \in Nat /\ MEMORY_START <= b /\ blocks[b].size \in Nat
            /\ b + SIZEOF_BLOCK + blocks[b].size = End(b) /\ End(b) <= MEMORY_END
        BY <2>0, BlockFacts
      <4> QED BY <4>1 DEF total_memory
    <3>3. blocks[b].next \in Blocks \cup {NULL} /\ blocks[b].prev \in Blocks \cup {NULL}
      BY <2>0, BlockFacts
    <3> QED BY <3>1, <3>2, <3>3 DEF Block
  <2>2. free_memory \in 0 .. total_memory
        /\ memory_stats \in [total_allocations : 0 .. MaxAllocations,
                             total_frees : 0 .. MaxAllocations,
                             current_allocated : 0 .. total_memory,
                             peak_allocated : 0 .. total_memory]
    <3>1. /\ memory_stats \in [total_allocations : 0 .. MaxAllocations, total_frees : Nat,
                               current_allocated : Nat, peak_allocated : 0 .. total_memory]
          /\ memory_stats.current_allocated = SizesOf(InUse)
          /\ free_memory = total_memory - memory_stats.current_allocated
          /\ memory_stats.total_allocations - memory_stats.total_frees = Cardinality(InUse)
      BY DEF AccountInv, StatTypes, Accounting
    <3>2. SizesOf(InUse) \in 0 .. total_memory
      BY <2>0, SizesBound DEF Summed
    <3>3. Cardinality(InUse) \in Nat
      BY <2>0, InUseFinite DEF Sized
    <3>4. memory_stats.total_frees \in 0 .. MaxAllocations
      BY <3>1, <3>3
    <3>5. memory_stats.current_allocated \in 0 .. total_memory
      BY <3>1, <3>2
    <3> QED BY <2>0, <3>1, <3>4, <3>5
  <2>3. /\ free_pages \in 0 .. MAX_PAGES /\ used_pages \in 0 .. MAX_PAGES
        /\ status \in [Pages -> {"PAGE_FREE", "PAGE_USED"}]
        /\ ref_count \in [Pages -> 0 .. 1]
    BY PageBounds DEF PageInv
  <2>4. old_size \in 0 .. total_memory
    <3>1. CASE old_size = 0
      BY <2>0, <3>1
    <3>2. CASE old_size # 0
      <4>1. /\ ptr - SIZEOF_BLOCK \in Blocks
            /\ old_size = blocks[ptr - SIZEOF_BLOCK].size
        BY <3>2 DEF IInv, CallInv, InUse
      <4> QED BY <2>1, <4>1
    <3> QED BY <3>1, <3>2
  <2> QED BY <2>0, <2>1, <2>2, <2>3, <2>4 DEF TypeOK, IInv, CallTypes
<1> QED BY <1>1, HeapInductive, AccountHolds, PagesHold, PTL

-----------------------------------------------------------------------------
(* How long a call takes.                                                  *)

(* How far the block a loop is at is from the end of the region.           *)
Left(b) == IF b = NULL THEN 0 ELSE MEMORY_END - b

(* The block after the current one.                                        *)
Following == IF current = NULL THEN NULL ELSE blocks[current].next

(* A bound on the steps that are left of a call that is at step p, with    *)
(* its loop at block b and n the block after it.  compact_free_blocks      *)
(* moves b on, or n when it merges.                                        *)
StepsAt(p, b, n) ==
  CASE p = "idle"    -> 0
    [] p = "compact" -> 1 + Left(b) + Left(n)
    [] p = "find"    -> 2 + 2 * total_memory + Left(b)
    [] p = "copy"    -> 3 + 3 * total_memory
    [] p = "search"  -> 4 + 3 * total_memory + Left(b)
    [] OTHER         -> 5 + 4 * total_memory + Left(b)

StepsLeft == StepsAt(pc, current, Following)

(* A call in progress has a number of steps left.                          *)
BoundedSteps ==
  StepsLeft \in 0 .. 5 + 5 * total_memory /\ (StepsLeft = 0 <=> pc = "idle")

(* Every step of the call uses some up.                                    *)
StepsFall == Work => StepsLeft' < StepsLeft

(* The bound at each step.                                                 *)
LEMMA StepsAre ==
  ASSUME NEW b, NEW n
  PROVE  /\ StepsAt("idle", b, n) = 0
         /\ StepsAt("compact", b, n) = 1 + Left(b) + Left(n)
         /\ StepsAt("find", b, n) = 2 + 2 * total_memory + Left(b)
         /\ StepsAt("copy", b, n) = 3 + 3 * total_memory
         /\ StepsAt("search", b, n) = 4 + 3 * total_memory + Left(b)
         /\ StepsAt("measure", b, n) = 5 + 4 * total_memory + Left(b)
BY DEF StepsAt

(* A link leads to a block nearer to the end of the region, or to none.    *)
LEMMA NextIsNearer ==
  ASSUME HeapInv, NEW b \in Blocks
  PROVE  /\ blocks[b].next \in Blocks \cup {NULL}
         /\ Left(blocks[b].next) < Left(b)
<1>1. /\ b \in Nat /\ b # NULL /\ b < End(b) /\ End(b) <= MEMORY_END /\ End(b) \in Nat
      /\ blocks[b].next = (IF End(b) = MEMORY_END THEN NULL ELSE End(b))
      /\ End(b) # MEMORY_END => End(b) \in Blocks
  BY BlockFacts
<1> QED BY <1>1, RegionAssumption DEF Left

(* The distances of a call's loop.                                         *)
Near ==
  /\ Left(current) \in 0 .. total_memory /\ Left(Following) \in 0 .. total_memory
  /\ Left(free_list) \in 0 .. total_memory

(* They are within the region.                                             *)
LEMMA NearBlocks == IInv => Near
<1> SUFFICES ASSUME IInv PROVE Near
  OBVIOUS
<1>1. /\ HeapInv /\ Blocks \subseteq Addresses /\ free_list \in Blocks
      /\ current \in Blocks \cup {NULL}
  BY DEF IInv, HeapInv, Shape, CallTypes
<1>2. Following \in Blocks \cup {NULL}
  BY <1>1, NextIsNearer DEF Following
<1>3. ASSUME NEW b \in Blocks \cup {NULL} PROVE Left(b) \in 0 .. total_memory
  BY <1>1, RegionAssumption DEF Left, Addresses, total_memory
<1> QED BY <1>1, <1>2, <1>3 DEF Near

(* Every call ends after at most 5 + 5 * total_memory steps, whatever the  *)
(* block list looks like when it is made: the loops go from a block to one *)
(* at a higher address, and compact_free_blocks, which stays at a block    *)
(* when it merges, moves the end of that block.                            *)
THEOREM CallsAreBounded == Spec => []BoundedSteps /\ [][StepsFall]_vars
<1>m. total_memory \in Nat
  BY RegionAssumption DEF total_memory
<1>1. IInv => BoundedSteps
  <2>1. IInv => pc \in {"idle", "search", "find", "compact", "measure", "copy"}
    BY DEF IInv, CallTypes
  <2> QED BY <1>m, <2>1, NearBlocks, StepsAre DEF BoundedSteps, StepsLeft, Near
<1>p. IInv' => Near'
  BY NearBlocks, PTL
<1>2. IInv /\ IInv' => StepsFall
  <2> SUFFICES ASSUME IInv, IInv', Work PROVE StepsLeft' < StepsLeft
    BY DEF StepsFall
  <2>1. /\ Left(current) \in 0 .. total_memory /\ Left(Following) \in 0 .. total_memory
        /\ Left(free_list) \in 0 .. total_memory
        /\ Left(current') \in 0 .. total_memory /\ Left(Following') \in 0 .. total_memory
    BY <1>p, NearBlocks DEF Near
  <2>2. HeapInv /\ current \in Blocks \cup {NULL}
    BY DEF IInv, CallTypes
  <2>3. ASSUME current # NULL
        PROVE  /\ Following = blocks[current].next
               /\ Left(Following) < Left(current)
    BY <2>2, <2>3, NextIsNearer DEF Following
  <2>4. CASE kmalloc_next
    BY <1>m, <2>1, <2>3, <2>4, StepsAre DEF kmalloc_next, StepsLeft
  <2>5. CASE kmalloc_fails
    BY <1>m, <2>1, <2>5, StepsAre DEF kmalloc_fails, StepsLeft
  <2>6. CASE kmalloc_takes
    BY <1>m, <2>1, <2>6, StepsAre DEF kmalloc_takes, StepsLeft
  <2>7. CASE kfree_next
    BY <1>m, <2>1, <2>3, <2>7, StepsAre DEF kfree_next, StepsLeft
  <2>8. CASE kfree_ignores
    BY <1>m, <2>1, <2>8, StepsAre DEF kfree_ignores, StepsLeft
  <2>9. CASE kfree_frees
    BY <1>m, <2>1, <2>9, StepsAre DEF kfree_frees, StepsLeft
  <2>10. CASE compact_free_blocks
    <3>1. pc = "compact"
      BY <2>10 DEF compact_free_blocks
    <3>2. CASE ~(current # NULL /\ blocks[current].next # NULL)
      <4>1. pc' = "idle"
        BY <2>10, <3>2 DEF compact_free_blocks
      <4> QED BY <1>m, <2>1, <3>1, <4>1, StepsAre DEF StepsLeft
    <3>3. CASE current # NULL /\ blocks[current].next # NULL
      <4>0. /\ current \in Blocks /\ Following = blocks[current].next /\ Following # NULL
            /\ Following \in Blocks /\ Left(Following) < Left(current)
        BY <2>2, <2>3, <3>3, NextIsNearer
      <4>1. Left(blocks[Following].next) < Left(Following)
        BY <2>2, <4>0, NextIsNearer
      <4>2. pc' = "compact"
        BY <2>10, <3>1, <3>3 DEF compact_free_blocks
      <4>3. CASE Mergeable
        <5>1. blocks' = MergeNext /\ current' = current
          BY <2>10, <3>3, <4>3 DEF compact_free_blocks
        <5>2. blocks'[current].next = blocks[Following].next
          BY <2>2, <3>3, <4>0, <5>1, MergeEffect DEF MergeResult
        <5>3. Following' = blocks[Following].next
          BY <3>3, <5>1, <5>2 DEF Following
        <5> QED BY <1>m, <2>1, <3>1, <4>1, <4>2, <5>1, <5>3, StepsAre DEF StepsLeft
      <4>4. CASE ~Mergeable
        <5>1. blocks' = blocks /\ current' = Following
          BY <2>10, <3>3, <4>0, <4>4 DEF compact_free_blocks
        <5>2. Following' = blocks[Following].next
          BY <4>0, <5>1 DEF Following
        <5> QED BY <1>m, <2>1, <3>1, <4>0, <4>1, <4>2, <5>1, <5>2, StepsAre DEF StepsLeft
      <4> QED BY <4>3, <4>4
    <3> QED BY <3>2, <3>3
  <2>11. CASE krealloc_measures
    <3>1. pc = "measure"
      BY <2>11 DEF krealloc_measures
    <3>2. CASE pc' = "measure" /\ current # NULL /\ current' = blocks[current].next
      BY <1>m, <2>1, <2>3, <3>1, <3>2, StepsAre DEF StepsLeft
    <3>3. CASE pc' = "search" /\ current' = free_list
      BY <1>m, <2>1, <3>1, <3>3, StepsAre DEF StepsLeft
    <3> QED BY <2>11, <3>1, <3>2, <3>3 DEF krealloc_measures, StartMalloc
  <2>12. CASE krealloc_copies
    BY <1>m, <2>1, <2>12, StepsAre DEF krealloc_copies, StepsLeft
  <2> QED BY <2>4, <2>5, <2>6, <2>7, <2>8, <2>9, <2>10, <2>11, <2>12 DEF Work
<1> QED BY <1>1, <1>2, HeapInductive, PTL DEF Spec
=============================================================================
