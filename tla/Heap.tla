-------------------------------- MODULE Heap --------------------------------
(***************************************************************************)
(* The kernel heap of ke/memory/heap: a table with one byte per block      *)
(* (heap.c) and the kmalloc / kfree interface over it (kheap.c).  Kernel   *)
(* code calls it with interrupts disabled or from the single kernel        *)
(* thread, so a call is one step.                                          *)
(*                                                                         *)
(* The loops over the table are given by what they compute; HeapLoops      *)
(* holds them step by step, and the heap run compares the two.             *)
(***************************************************************************)
EXTENDS Integers, FiniteSetsExt, Status

CONSTANTS Total,        \* blocks in the heap: entries of the table
          BlockSize,    \* LIBREWIN_HEAP_BLOCK_SIZE
          SAddr,        \* LIBREWIN_HEAP_ADDRESS
          Word,         \* 2^32, the modulus of a uint32_t
          Sizes         \* the sizes asked of kmalloc

VARIABLES entries,      \* the table
          spill,        \* indexes past the table's end the heap has written
          live          \* the allocations its callers hold

vars == <<entries, spill, live>>

Blocks == 0 .. Total - 1
Flag   == {"TAKEN", "IS_FIRST", "HAS_NEXT"}
FREE   == {}            \* HEAP_BLOCK_TABLE_ENTRY_FREE
NULL   == 0

-----------------------------------------------------------------------------
(* Setting the heap up *)

heap_validate_table(ptr, end, total) ==
    IF total # (end - ptr) \div BlockSize THEN -EINVARG ELSE LIBREWIN_ALL_OK

heap_validate_alignment(ptr) == ptr % BlockSize = 0

heap_create(ptr, end, total) ==
    IF heap_validate_alignment(ptr) /\ heap_validate_alignment(end)
    THEN heap_validate_table(ptr, end, total)
    ELSE -EINVARG

ASSUME SizeAssumption ==
    /\ Total \in Nat \ {0}
    /\ BlockSize \in Nat \ {0}
    /\ SAddr \in Nat \ {0}
    /\ Word \in Nat \ {0}
    /\ Sizes \subseteq 0 .. Word - 1

\* kheap_init's call of heap_create succeeds: otherwise no table is cleared.
ASSUME CreateAssumption ==
    heap_create(SAddr, SAddr + Total * BlockSize, Total) = LIBREWIN_ALL_OK

-----------------------------------------------------------------------------
(* The table *)

heap_align_value_to_upper(val) ==
    IF val % BlockSize = 0 THEN val
    ELSE ((val - (val % BlockSize)) + BlockSize) % Word

heap_get_entry_type(entry) == entry \cap {"TAKEN"}

IsFree(i) == heap_get_entry_type(entries[i]) = FREE

\* Slip: the last block of the run is not looked at.
Fits_ShortByOne(n) == {s \in Blocks : s + n <= Total /\ \A i \in s .. s + n - 2 : IsFree(i)}

\* Where n free blocks in a row start, and where the free blocks that reach
\* the end of the table start.
Fits(n)     == {s \in Blocks : s + n <= Total /\ \A i \in s .. s + n - 1 : IsFree(i)}
TrailingRun == {s \in Blocks : \A i \in s .. Total - 1 : IsFree(i)}

\* Slip: the count is checked after the loop, and a short run refused.
heap_get_start_block_Checked(n) == IF n > 0 /\ Fits(n) # {} THEN Min(Fits(n)) ELSE -ENOMEM

\* The loop stops at the first run of n free blocks.  When it does not stop,
\* it leaves in bs the start of the run it was counting at the table's end,
\* and that is returned whatever its length; a count never equals zero, so
\* a request of no blocks never stops the loop.
heap_get_start_block(n) ==
    IF n > 0 /\ Fits(n) # {} THEN Min(Fits(n))
    ELSE IF TrailingRun # {} THEN Min(TrailingRun)
    ELSE -ENOMEM

heap_block_to_address(block) == SAddr + block * BlockSize

heap_address_to_block(address) == (address - SAddr) \div BlockSize

\* Slip: the last block is marked as having a next one.
TakenEntry_NextOnLast(i, start, n) ==
    {"TAKEN"} \cup (IF i = start THEN {"IS_FIRST"} ELSE {})
              \cup (IF i <= start + n - 1 THEN {"HAS_NEXT"} ELSE {})

TakenEntry(i, start, n) ==
    {"TAKEN"} \cup (IF i = start THEN {"IS_FIRST"} ELSE {})
              \cup (IF i < start + n - 1 THEN {"HAS_NEXT"} ELSE {})

\* Slip: the loop runs to the end block exclusive.
heap_mark_blocks_taken_ShortByOne(start, n) ==
    /\ entries' = [i \in Blocks |-> IF i \in start .. start + n - 2
                                    THEN TakenEntry(i, start, n)
                                    ELSE entries[i]]
    /\ spill' = spill \cup (Total .. start + n - 2)

\* The table and the bytes past its end after blocks start .. start+n-1 are
\* marked; the loop does not stop at the table's end.
heap_mark_blocks_taken(start, n) ==
    /\ entries' = [i \in Blocks |-> IF i \in start .. start + n - 1
                                    THEN TakenEntry(i, start, n)
                                    ELSE entries[i]]
    /\ spill' = spill \cup (Total .. start + n - 1)

\* Slip: the loop leaves before it clears the last block.
Chain_WithoutLast(start) == {i \in start .. Total - 1 :
                                \A j \in start .. i : "HAS_NEXT" \in entries[j]}

\* The blocks the freeing loop visits: up to the first without HAS_NEXT.
Chain(start) == {i \in start .. Total - 1 :
                    \A j \in start .. i - 1 : "HAS_NEXT" \in entries[j]}

heap_mark_blocks_free(start) ==
    entries' = [i \in Blocks |-> IF i \in Chain(start) THEN FREE ELSE entries[i]]

-----------------------------------------------------------------------------
(* The interface *)

\* An allocation a caller holds: the pointer and the blocks reserved for it.
Allocation(start, n) == [ptr |-> heap_block_to_address(start), blocks |-> n]

FirstBlock(a) == heap_address_to_block(a.ptr)
Owned(a)      == FirstBlock(a) .. FirstBlock(a) + a.blocks - 1

TotalBlocks(size) == heap_align_value_to_upper(size) \div BlockSize

Init == /\ entries = [i \in Blocks |-> FREE]
        /\ spill = {}
        /\ live = {}

\* Slip: the start block's sign is not looked at.
heap_malloc_blocks_Unchecked(n) ==
    LET start == heap_get_start_block(n) IN
    /\ heap_mark_blocks_taken(start, n)
    /\ live' = IF n = 0 THEN live ELSE live \cup {Allocation(start, n)}

\* A request of no blocks marks nothing: its caller owns no block.
heap_malloc_blocks(n) ==
    LET start == heap_get_start_block(n) IN
    IF start < 0
    THEN UNCHANGED vars
    ELSE /\ heap_mark_blocks_taken(start, n)
         /\ live' = IF n = 0 THEN live ELSE live \cup {Allocation(start, n)}

Kmalloc(size) == heap_malloc_blocks(TotalBlocks(size))

\* kfree is called on pointers kmalloc returned, once for each.
Kfree(a) == /\ a \in live
            /\ heap_mark_blocks_free(heap_address_to_block(a.ptr))
            /\ live' = live \ {a}
            /\ UNCHANGED spill

Next == \/ \E size \in Sizes : Kmalloc(size)
        \/ \E a \in live : Kfree(a)

Spec == Init /\ [][Next]_vars

-----------------------------------------------------------------------------
(* Properties *)

TypeOK == /\ entries \in [Blocks -> SUBSET Flag]
          /\ spill \subseteq Nat \ Blocks
          /\ live \subseteq [ptr : {heap_block_to_address(i) : i \in Blocks}, blocks : 1 .. Word]

\* No two callers hold the same block: first fit and the marks of
\* heap_mark_blocks_taken keep every two live allocations apart, also the one
\* that runs past the end of the table.
LiveDisjoint == \A a, b \in live : a # b => Owned(a) \cap Owned(b) = {}

\* The table tells of each block exactly whether, and at which place, it lies
\* in a live allocation: nothing leaks, nothing is free while it is held, and
\* heap_mark_blocks_free finds the end of each allocation from its marks.
TableMatchesLive ==
    /\ \A a \in live : /\ FirstBlock(a) \in Blocks
                       /\ \A i \in Owned(a) \cap Blocks :
                             entries[i] = TakenEntry(i, FirstBlock(a), a.blocks)
    /\ \A i \in Blocks : entries[i] # FREE => \E a \in live : i \in Owned(a)

\* Freeing an allocation frees its blocks and changes no other entry, so a
\* chain of HAS_NEXT marks never leads kfree into a neighbour.
FreeReleasesExactly ==
    [][\A a \in live \ live' : \A i \in Blocks :
            entries'[i] = IF i \in Owned(a) THEN FREE ELSE entries[i]]_vars

\* The heap implements the allocator its callers rely on.
Abstract == INSTANCE Allocator WITH
                Addresses <- {heap_block_to_address(i) : i \in Blocks},
                Lengths   <- 1 .. Word

ImplementsAllocator == Abstract!Spec

\* The block table and the blocks handed out stay inside the heap's 100 MB
\* ("100MB heap size", ke/config.h:9): every live allocation ends before the
\* heap does.
LiveInsideHeap == \A a \in live : Owned(a) \subseteq Blocks
=============================================================================
