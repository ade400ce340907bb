-------------------------------- MODULE Heap --------------------------------
(***************************************************************************)
(* std::heap (std/heap/heap.qu): the first-fit allocator that the compiled *)
(* programs use, on top of chunks obtained with mmap.  std/win/heap is the *)
(* same code on VirtualAlloc.                                              *)
(*                                                                         *)
(* Addresses and block sizes are counted in units of 16 bytes: every one   *)
(* of them is a multiple of 16 in the code.  Requests are in bytes, and    *)
(* align16 turns them into units.  The header word of a block is its size  *)
(* and bit 0, held here in size and used; headers of blocks that were      *)
(* merged away stay in memory as they were.  The links of the free blocks  *)
(* are the sequence free.                                                  *)
(*                                                                         *)
(* heap_malloc is a loop, so a call takes several steps; heap_realloc ends *)
(* some of its paths with a call of heap_free.  op says what is still to   *)
(* be done of the call that is under way.                                  *)
(***************************************************************************)
EXTENDS Naturals, Sequences, SequencesExt

CONSTANTS
  Word,        \* 2^64: u64 arithmetic is modulo Word
  ChunkUnits,  \* units in one mmap'd chunk (65536 bytes)
  Bases,       \* the addresses mmap can return
  Requests,    \* the sizes in bytes a program asks for
  Idle         \* no call of the allocator is under way

Tail2 == 4                         \* the last 64 bytes of a chunk
Usable == ChunkUnits - Tail2       \* size of the block refill makes

ASSUME ChunkAssumption ==
  /\ Word \in Nat /\ Word > 32
  /\ ChunkUnits \in Nat /\ ChunkUnits >= 6
  /\ Bases \subseteq Nat \ {0}
  /\ \A c, d \in Bases : c < d => c + ChunkUnits <= d
  /\ Requests \subseteq 0..(Word - 1)

(* No call has the same name as any that is under way. *)
ASSUME IdleAssumption ==
  Idle \notin [stage : {"alloc"}, bytes : Nat, old : Nat] \cup [stage : {"release"}, blk : Nat]

VARIABLES
  free,    \* the free list, from heap_head on
  size,    \* the size in the header at an address
  used,    \* the addresses whose header has bit 0 set
  chunks,  \* the chunks mapped so far
  asked,   \* for the blocks the program holds: the bytes it asked for
  op       \* the call under way

vars == <<free, size, used, chunks, asked, op>>
heapVars == <<free, size, used>>

Addr == UNION {c..(c + ChunkUnits - 1) : c \in Bases}
Guards == {c + Usable : c \in chunks}
Live == DOMAIN asked

Init ==
  /\ free = <<>>
  /\ size = [a \in Addr |-> 0]
  /\ used = {}
  /\ chunks = {}
  /\ asked = <<>>
  /\ op = Idle

-----------------------------------------------------------------------------
(* align16: room for the header, rounded up, at least two units.  The      *)
(* addition wraps around.                                                  *)
align16(n) ==
  LET a == ((n + 31) % Word) \div 16
  IN  IF a < 2 THEN 2 ELSE a

(* The block alloc_from_list stops at: the first that is big enough. *)
FirstFit(i, need) ==
  /\ i \in 1..Len(free)
  /\ size[free[i]] >= need
  /\ \A j \in 1..(i - 1) : size[free[j]] < need

Fits(need) == \E i \in 1..Len(free) : FirstFit(i, need)

(* Faults: the rest of a split block keeps its size; the bit of the block  *)
(* that is taken is not set.                                               *)
TakeUnshrunk(i, need, blk) ==
  LET rest == size[free[i]] - need
  IN  /\ blk = free[i] + (IF rest < 2 THEN 0 ELSE rest)
      /\ used' = used \cup {blk}
      /\ free' = IF rest < 2 THEN RemoveAt(free, i) ELSE free
      /\ size' = IF rest < 2 THEN size ELSE [size EXCEPT ![blk] = need]
TakeUnmarked(i, need, blk) ==
  LET rest == size[free[i]] - need
  IN  /\ blk = free[i] + (IF rest < 2 THEN 0 ELSE rest)
      /\ free' = IF rest < 2 THEN RemoveAt(free, i) ELSE free
      /\ size' = IF rest < 2 THEN size ELSE [size EXCEPT ![free[i]] = rest, ![blk] = need]
      /\ UNCHANGED used

(* alloc_from_list takes the whole block, or splits it and takes the top.  *)
(* blk is the block it returns.                                            *)
TakeFrom(i, need, blk) ==
  LET b == free[i]
      rest == size[b] - need
  IN  \/ /\ rest < 2
         /\ blk = b
         /\ used' = used \cup {b}
         /\ free' = RemoveAt(free, i)
         /\ UNCHANGED size
      \/ /\ rest >= 2
         /\ blk = b + rest
         /\ size' = [size EXCEPT ![b] = rest, ![b + rest] = need]
         /\ used' = used \cup {b + rest}
         /\ UNCHANGED free

(* Fault: the merged block keeps its size. *)
FreeWithoutMerge(b) ==
  LET next == b + size[b]
      listed == {i \in 1..Len(free) : free[i] = next}
  IN  /\ used' = used \ {b}
      /\ \/ next \notin used /\ \E i \in listed : free' = <<b>> \o RemoveAt(free, i)
         \/ (next \in used \/ listed = {}) /\ free' = <<b>> \o free
      /\ UNCHANGED size

(* heap_free: clear the bit, merge with the next physical block when that  *)
(* is free and could be unlinked, and put the block at the head.           *)
heap_free(b) ==
  LET next == b + size[b]
      listed == {i \in 1..Len(free) : free[i] = next}
  IN  /\ used' = used \ {b}
      /\ \/ /\ next \notin used
            /\ listed # {}
            /\ \E i \in listed : free' = <<b>> \o RemoveAt(free, i)
            /\ size' = [size EXCEPT ![b] = @ + size[next]]
         \/ /\ next \in used \/ listed = {}
            /\ free' = <<b>> \o free
            /\ UNCHANGED size

Forget(b) == [c \in Live \ {b} |-> asked[c]]
Hold(f, b, n) == [c \in DOMAIN f \cup {b} |-> IF c = b THEN n ELSE f[c]]

(* What is left to do of a call: allocate n bytes, to move the block old   *)
(* there unless old is 0; or give a block back with heap_free.             *)
Allocating(n, old) == [stage |-> "alloc", bytes |-> n, old |-> old]
Releasing(b) == [stage |-> "release", blk |-> b]

-----------------------------------------------------------------------------
(* heap_malloc(n), and heap_realloc(NULL, n). *)
Malloc(n) ==
  /\ op = Idle
  /\ op' = Allocating(n, 0)
  /\ UNCHANGED <<heapVars, chunks, asked>>

(* heap_free(p) of a block the program holds, and heap_realloc(p, 0). *)
Free(b) ==
  /\ op = Idle
  /\ heap_free(b)
  /\ asked' = Forget(b)
  /\ UNCHANGED <<chunks, op>>

(* heap_realloc when the new size fits: the rest is given back when it is  *)
(* a block of its own.                                                     *)
ReallocShrink(b, n) ==
  LET need == align16(n)
      rest == size[b] - need
  IN  /\ op = Idle
      /\ n # 0
      /\ need <= size[b]
      /\ \/ /\ rest >= 2
            /\ size' = [size EXCEPT ![b] = need, ![b + need] = rest]
            /\ used' = used \ {b + need}
            /\ op' = Releasing(b + need)
         \/ /\ rest < 2
            /\ UNCHANGED <<size, used, op>>
      /\ asked' = [asked EXCEPT ![b] = n]
      /\ UNCHANGED <<free, chunks>>

(* heap_realloc when the new size does not fit and the next physical block *)
(* is free: it is merged if both together are enough and it is listed;     *)
(* the old pointer is returned in any case.                                *)
ReallocExtend(b, n) ==
  LET need == align16(n)
      next == b + size[b]
      both == size[b] + size[next]
      listed == {i \in 1..Len(free) : free[i] = next}
  IN  /\ op = Idle
      /\ n # 0
      /\ need > size[b]
      /\ next \notin used
      /\ \/ /\ both >= need
            /\ listed # {}
            /\ \E i \in listed : free' = RemoveAt(free, i)
            /\ \/ /\ both - need >= 2
                  /\ size' = [size EXCEPT ![b] = need, ![b + need] = both - need]
                  /\ used' = used \ {b + need}
                  /\ op' = Releasing(b + need)
               \/ /\ both - need < 2
                  /\ size' = [size EXCEPT ![b] = both]
                  /\ UNCHANGED <<used, op>>
         \/ /\ both < need \/ listed = {}
            /\ UNCHANGED <<heapVars, op>>
      /\ asked' = [asked EXCEPT ![b] = n]
      /\ UNCHANGED chunks

(* heap_realloc when neither helps: a new block, by heap_malloc. *)
ReallocMove(b, n) ==
  /\ op = Idle
  /\ n # 0
  /\ align16(n) > size[b]
  /\ b + size[b] \in used
  /\ op' = Allocating(n, b)
  /\ UNCHANGED <<heapVars, chunks, asked>>

-----------------------------------------------------------------------------
(* Fault: heap_realloc gives the new block back instead of the old one. *)
AllocReleasesNew ==
  /\ op # Idle /\ op.stage = "alloc"
  /\ \E i \in 1..Len(free) :
       /\ FirstFit(i, align16(op.bytes))
       /\ \E blk \in {free[i], free[i] + size[free[i]] - align16(op.bytes)} :
            /\ TakeFrom(i, align16(op.bytes), blk)
            /\ asked' = Hold(asked, blk, op.bytes)
            /\ op' = IF op.old = 0 THEN Idle ELSE Releasing(blk)
  /\ UNCHANGED chunks

(* The loop of heap_malloc: take a block.  heap_realloc then copies the    *)
(* data and goes on to free the old block.                                 *)
AllocFromList ==
  /\ op # Idle /\ op.stage = "alloc"
  /\ \E i \in 1..Len(free) :
       /\ FirstFit(i, align16(op.bytes))
       /\ \E blk \in {free[i], free[i] + size[free[i]] - align16(op.bytes)} :
            /\ TakeFrom(i, align16(op.bytes), blk)
            /\ \/ /\ op.old = 0
                  /\ asked' = Hold(asked, blk, op.bytes)
                  /\ op' = Idle
               \/ /\ op.old # 0
                  /\ asked' = Hold(Forget(op.old), blk, op.bytes)
                  /\ op' = Releasing(op.old)
  /\ UNCHANGED chunks

(* ... or refill: a new chunk, wherever mmap puts it, as one free block    *)
(* with the guard block behind it. *)
Refill ==
  /\ op # Idle /\ op.stage = "alloc"
  /\ ~Fits(align16(op.bytes))
  /\ \E c \in Bases \ chunks :
       /\ chunks' = chunks \cup {c}
       /\ size' = [size EXCEPT ![c] = Usable, ![c + Usable] = 0]
       /\ used' = used \cup {c + Usable}
       /\ free' = <<c>> \o free
  /\ UNCHANGED <<asked, op>>

(* Fault: a failing mmap is tried again. *)
RetryForever ==
  /\ op # Idle /\ op.stage = "alloc"
  /\ ~Fits(align16(op.bytes))
  /\ UNCHANGED vars

(* ... or mmap fails and the result is NULL: a block that was to be moved  *)
(* stays where it is.                                                      *)
OutOfMemory ==
  /\ op # Idle /\ op.stage = "alloc"
  /\ ~Fits(align16(op.bytes))
  /\ op' = Idle
  /\ UNCHANGED <<heapVars, chunks, asked>>

(* The heap_free at the end of heap_realloc. *)
Release ==
  /\ op # Idle /\ op.stage = "release"
  /\ heap_free(op.blk)
  /\ op' = Idle
  /\ UNCHANGED <<chunks, asked>>

Call ==
  \/ \E n \in Requests : Malloc(n)
  \/ \E b \in Live : Free(b)
  \/ \E b \in Live, n \in Requests :
       ReallocShrink(b, n) \/ ReallocExtend(b, n) \/ ReallocMove(b, n)

Work == AllocFromList \/ Refill \/ OutOfMemory \/ Release

Next == Call \/ Work

Spec == Init /\ [][Next]_vars

(* A call runs on until it returns; the program need not make another. *)
FairSpec == Spec /\ WF_vars(Work)

-----------------------------------------------------------------------------
Listed == {free[i] : i \in 1..Len(free)}
Underway == IF op # Idle /\ op.stage = "release" THEN {op.blk} ELSE {}
Blocks == Live \cup Listed \cup Underway

(***************************************************************************)
(* The blocks tile the chunks: a chunk begins with a block and each block  *)
(* is followed by a block or by the guard, so that heap_free and           *)
(* heap_realloc find a header, and never one outside the mapping, where    *)
(* they look for the next physical block.                                  *)
(***************************************************************************)
ChunksTiled ==
  /\ chunks \subseteq Blocks
  /\ \A b \in Blocks : size[b] >= 2 /\ b + size[b] \in Blocks \cup Guards

(***************************************************************************)
(* No two blocks overlap, whoever holds them: the program never gets       *)
(* memory that is free, that it holds already, or that is a header.        *)
(***************************************************************************)
BlocksDisjoint ==
  \A b, c \in Blocks \cup Guards : b < c => b + size[b] <= c

(***************************************************************************)
(* Bit 0 tells the truth: a block is on the free list, once, exactly when  *)
(* its bit is clear (or it is about to be put there), so a merge always    *)
(* finds the block it unlinks and never takes one that is in use.          *)
(***************************************************************************)
BitIsTruth ==
  /\ Live \cup Guards \subseteq used
  /\ \A i, j \in 1..Len(free) : free[i] = free[j] => i = j
  /\ \A b \in Listed : b \notin used
  /\ Live \cap Underway = {} /\ Listed \cap Underway = {}

(***************************************************************************)
(* What the comments say of heap_malloc, "allocate `size` bytes", and of   *)
(* heap_realloc, "resize an allocation": the block that the program holds  *)
(* has the room that was asked for behind its header (std/heap/heap.qu).   *)
(***************************************************************************)
RoomAsAsked ==
  \A b \in Live : asked[b] <= (size[b] - 1) * 16

(***************************************************************************)
(* A block keeps its place and at least its size while the program holds   *)
(* it, unless it is the one that is resized or freed: no call disturbs     *)
(* another allocation.                                                     *)
(***************************************************************************)
OthersUndisturbed ==
  [][\A b \in Live : b \in DOMAIN asked' /\ asked'[b] = asked[b] => size'[b] >= size[b]]_vars

(* Every call of the allocator returns, once mmap has no more to give. *)
CallsReturn == op # Idle ~> op = Idle
=============================================================================
