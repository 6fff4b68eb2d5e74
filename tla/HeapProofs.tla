----------------------------- MODULE HeapProofs -----------------------------
(***************************************************************************)
(* For a heap of any size, with blocks of any size and requests of any     *)
(* size a uint32_t holds: the table always describes the live allocations, *)
(* they never overlap, kfree releases exactly its own blocks, and the heap *)
(* implements module Allocator.                                            *)
(***************************************************************************)
EXTENDS HeapLoops, NumberLemmas, TLAPS

-----------------------------------------------------------------------------
(* Numbers *)

\* A non-empty set of blocks has a least member, the one Min chooses.
LEMMA MinBlock ==
  ASSUME NEW S \in SUBSET Blocks, S # {}
  PROVE  Min(S) \in S /\ \A y \in S : Min(S) <= y
<1>1. S \subseteq Nat
  BY SizeAssumption DEF Blocks
<1>2. PICK x \in S : \A y \in S : ~(<<y, x>> \in OpToRel(<, Nat))
  BY <1>1, NatLessThanWellFounded, WFMin, Zenon
<1>3. \A y \in S : ~(y < x)
  BY <1>1, <1>2, Zenon DEF OpToRel
<1>4. \A y \in S : x <= y
  BY <1>1, <1>3
<1> QED
  BY <1>4 DEF Min

\* The address of a block leads back to the block.
LEMMA BlockOfAddress ==
  \A s \in Nat : heap_address_to_block(heap_block_to_address(s)) = s
<1> TAKE s \in Nat
<1>1. (s * BlockSize) \div BlockSize = s
  BY SizeAssumption
<1>2. heap_block_to_address(s) - SAddr = s * BlockSize
  BY SizeAssumption DEF heap_block_to_address
<1> QED
  BY <1>1, <1>2 DEF heap_address_to_block

\* Rounding a size up, wrap included, leaves a number of blocks a uint32_t holds.
LEMMA TotalBlocksType == \A size \in Sizes : TotalBlocks(size) \in 0 .. Word
<1> TAKE size \in Sizes
<1>1. size \in 0 .. Word - 1
  BY SizeAssumption
<1>2. size % BlockSize \in 0 .. BlockSize - 1
  BY <1>1, SizeAssumption
<1>3. heap_align_value_to_upper(size) \in 0 .. Word - 1
  BY <1>1, <1>2, SizeAssumption DEF heap_align_value_to_upper
<1>4. \A x \in Nat : x \div BlockSize \in Nat /\ x \div BlockSize <= x
  BY SizeAssumption
<1> QED
  BY <1>3, <1>4, SizeAssumption DEF TotalBlocks

-----------------------------------------------------------------------------
(* The inductive invariant *)

HeapInv == TypeOK /\ TableMatchesLive /\ LiveDisjoint

\* A live allocation starts at a block of the heap.
LEMMA LivePlaced ==
  ASSUME TypeOK, NEW a \in live
  PROVE  /\ FirstBlock(a) \in Blocks
         /\ a = Allocation(FirstBlock(a), a.blocks)
         /\ a.blocks \in 1 .. Word
<1>1. PICK s \in Blocks : a.ptr = heap_block_to_address(s)
  BY DEF TypeOK
<1>2. FirstBlock(a) = s
  BY <1>1, BlockOfAddress, SizeAssumption DEF FirstBlock, Blocks
<1> QED
  BY <1>1, <1>2 DEF TypeOK, Allocation

\* An allocation that kmalloc makes at block s starts there.
LEMMA FirstBlockOfNew ==
  ASSUME NEW s \in Blocks, NEW n
  PROVE  FirstBlock(Allocation(s, n)) = s /\ Owned(Allocation(s, n)) = s .. s + n - 1
BY BlockOfAddress, SizeAssumption DEF FirstBlock, Owned, Allocation, Blocks

\* heap_get_start_block fails or gives a block from which every block of the
\* request that lies in the table is free.
LEMMA StartBlockIsFree ==
  ASSUME NEW n \in 0 .. Word
  PROVE  \/ heap_get_start_block(n) = -ENOMEM
         \/ /\ heap_get_start_block(n) \in Blocks
            /\ \A i \in (heap_get_start_block(n) .. heap_get_start_block(n) + n - 1) \cap Blocks :
                  IsFree(i)
<1>1. CASE n > 0 /\ Fits(n) # {}
  <2>1. Min(Fits(n)) \in Fits(n)
    BY <1>1, MinBlock DEF Fits
  <2> QED
    BY <1>1, <2>1 DEF Fits, heap_get_start_block
<1>2. CASE ~(n > 0 /\ Fits(n) # {}) /\ TrailingRun # {}
  <2>1. Min(TrailingRun) \in TrailingRun
    BY <1>2, MinBlock DEF TrailingRun
  <2>2. heap_get_start_block(n) = Min(TrailingRun)
    BY <1>2 DEF heap_get_start_block
  <2> QED
    BY <2>1, <2>2, SizeAssumption DEF TrailingRun, Blocks
<1> QED
  BY <1>1, <1>2 DEF heap_get_start_block

\* A block kmalloc finds free lies in no live allocation.
LEMMA FreeIsUnowned ==
  ASSUME HeapInv, NEW i \in Blocks, IsFree(i), NEW a \in live
  PROVE  i \notin Owned(a)
<1>1. "TAKEN" \notin entries[i]
  BY DEF IsFree, heap_get_entry_type, FREE
<1>2. "TAKEN" \in TakenEntry(i, FirstBlock(a), a.blocks)
  BY DEF TakenEntry
<1> QED
  BY <1>1, <1>2 DEF HeapInv, TableMatchesLive

\* Two intervals that both start in the table and share a block share a block
\* of the table: so at most one allocation runs past its end.
LEMMA OverlapInTable ==
  ASSUME NEW s \in Blocks, NEW t \in Blocks, NEW n \in Nat, NEW m \in Nat,
         NEW i \in (s .. s + n - 1) \cap (t .. t + m - 1)
  PROVE  \E j \in Blocks : j \in (s .. s + n - 1) \cap (t .. t + m - 1)
<1>1. CASE i \in Blocks
  BY <1>1
<1>2. CASE i \notin Blocks
  <2>1. Total - 1 \in Blocks /\ Total - 1 \in (s .. s + n - 1) \cap (t .. t + m - 1)
    BY <1>2, SizeAssumption DEF Blocks
  <2> QED
    BY <2>1
<1> QED
  BY <1>1, <1>2

\* The blocks the freeing loop visits are those of the allocation it frees.
LEMMA ChainIsOwned ==
  ASSUME HeapInv, NEW a \in live
  PROVE  Chain(FirstBlock(a)) = Owned(a) \cap Blocks
<1> DEFINE f == FirstBlock(a)
           e == f + a.blocks - 1
<1>1. f \in Blocks /\ a.blocks \in 1 .. Word /\ e \in Nat /\ f <= e
  BY LivePlaced, SizeAssumption DEF HeapInv, Blocks
<1>2. \A i \in f .. e : i \in Blocks => entries[i] = TakenEntry(i, f, a.blocks)
  BY DEF HeapInv, TableMatchesLive, Owned
<1>3. \A i \in Int : "HAS_NEXT" \in TakenEntry(i, f, a.blocks) <=> i < e
  BY DEF TakenEntry
<1> HIDE DEF f, e
<1>4. ASSUME NEW i \in Chain(f) PROVE i \in f .. e /\ i \in Blocks
  <2>1. i \in f .. Total - 1 /\ \A j \in f .. i - 1 : "HAS_NEXT" \in entries[j]
    BY <1>4 DEF Chain
  <2>2. ASSUME i > e PROVE FALSE
    <3>1. e \in f .. i - 1 /\ e \in Blocks /\ e \in f .. e
      BY <1>1, <2>1, <2>2, SizeAssumption DEF Blocks
    <3>2. "HAS_NEXT" \in entries[e] /\ entries[e] = TakenEntry(e, f, a.blocks)
      BY <1>2, <2>1, <3>1
    <3> QED
      BY <1>1, <1>3, <3>2
  <2> QED
    BY <1>1, <2>1, <2>2, SizeAssumption DEF Blocks
<1>5. ASSUME NEW i \in f .. e, i \in Blocks PROVE i \in Chain(f)
  <2>1. \A j \in f .. i - 1 : j \in f .. e /\ j \in Blocks /\ j < e
    BY <1>1, <1>5, SizeAssumption DEF Blocks
  <2>2. \A j \in f .. i - 1 : "HAS_NEXT" \in entries[j]
    BY <1>1, <1>2, <1>3, <2>1
  <2> QED
    BY <1>1, <1>5, <2>2, SizeAssumption DEF Chain, Blocks
<1>6. Owned(a) = f .. e
  BY DEF Owned, f, e
<1> QED
  BY <1>4, <1>5, <1>6 DEF f

-----------------------------------------------------------------------------
(* One step *)

\* What a step of kmalloc does to a heap that satisfies the invariant: nothing,
\* a request of no blocks, or a new allocation apart from all others.
LEMMA KmallocStep ==
  ASSUME HeapInv, NEW size \in Sizes, Kmalloc(size)
  PROVE  \/ UNCHANGED <<entries, live>> /\ spill' \subseteq Nat \ Blocks
         \/ \E s \in Blocks, n \in 1 .. Word :
               /\ \A a \in live : Owned(a) \cap (s .. s + n - 1) = {}
               /\ heap_mark_blocks_taken(s, n)
               /\ live' = live \cup {Allocation(s, n)}
<1> DEFINE n == TotalBlocks(size)
           s == heap_get_start_block(n)
<1>1. n \in 0 .. Word
  BY TotalBlocksType
<1> HIDE DEF n
<1>2. heap_malloc_blocks(n)
  BY DEF Kmalloc, n
<1>3. CASE s = -ENOMEM
  <2>1. UNCHANGED vars
    BY <1>2, <1>3 DEF heap_malloc_blocks, ENOMEM
  <2> QED
    BY <2>1 DEF vars, HeapInv, TypeOK
<1>4. CASE s \in Blocks /\ \A i \in (s .. s + n - 1) \cap Blocks : IsFree(i)
  <2>1. s \in Nat /\ ~(s < 0)
    BY <1>4, SizeAssumption DEF Blocks
  <2>2. /\ heap_mark_blocks_taken(s, n)
        /\ live' = IF n = 0 THEN live ELSE live \cup {Allocation(s, n)}
    BY <1>2, <2>1 DEF heap_malloc_blocks
  <2> HIDE DEF s
  <2>3. CASE n = 0
    <3>1. s .. s + n - 1 = {} /\ Total .. s + n - 1 = {}
      BY <1>4, <2>1, <2>3, SizeAssumption DEF Blocks
    <3>2. entries' = [i \in Blocks |-> entries[i]] /\ spill' = spill
      BY <2>2, <3>1 DEF heap_mark_blocks_taken
    <3> QED
      BY <2>2, <2>3, <3>2 DEF HeapInv, TypeOK
  <2>4. CASE n \in 1 .. Word
    <3>1. ASSUME NEW a \in live PROVE Owned(a) \cap (s .. s + n - 1) = {}
      <4>1. SUFFICES ASSUME NEW i \in Owned(a) \cap (s .. s + n - 1) PROVE FALSE
        OBVIOUS
      <4>2. FirstBlock(a) \in Blocks /\ a.blocks \in Nat
        BY LivePlaced, SizeAssumption DEF HeapInv
      <4>3. PICK j \in Blocks : j \in Owned(a) \cap (s .. s + n - 1)
        BY <4>2, <2>4, <1>4, <4>1, OverlapInTable, SizeAssumption DEF Owned
      <4> QED
        BY <4>3, <1>4, FreeIsUnowned
    <3> QED
      BY <1>4, <2>2, <2>4, <3>1, SizeAssumption
  <2> QED
    BY <1>1, <2>3, <2>4, SizeAssumption
<1> QED
  BY <1>1, <1>3, <1>4, StartBlockIsFree

\* What a step of kfree does: it clears the allocation's blocks and no other.
LEMMA KfreeStep ==
  ASSUME HeapInv, NEW a \in live, Kfree(a)
  PROVE  /\ entries' = [i \in Blocks |-> IF i \in Owned(a) THEN FREE ELSE entries[i]]
         /\ live' = live \ {a}
         /\ spill' = spill
BY ChainIsOwned DEF Kfree, heap_mark_blocks_free, FirstBlock

\* The heap's initial state satisfies the invariant.
LEMMA InitInv == Init => HeapInv
BY SizeAssumption DEF Init, HeapInv, TypeOK, TableMatchesLive, LiveDisjoint, FREE

\* Every step preserves the invariant.
LEMMA StepInv == HeapInv /\ [Next]_vars => HeapInv'
<1> SUFFICES ASSUME HeapInv, [Next]_vars PROVE HeapInv'
  OBVIOUS
<1>1. CASE UNCHANGED <<entries, live>> /\ spill' \subseteq Nat \ Blocks
  BY <1>1 DEF HeapInv, TypeOK, TableMatchesLive, LiveDisjoint, Owned, FirstBlock
<1>2. ASSUME NEW size \in Sizes, Kmalloc(size) PROVE HeapInv'
  <2>1. CASE UNCHANGED <<entries, live>> /\ spill' \subseteq Nat \ Blocks
    BY <2>1, <1>1
  <2>2. ASSUME NEW s \in Blocks, NEW n \in 1 .. Word,
               \A a \in live : Owned(a) \cap (s .. s + n - 1) = {},
               heap_mark_blocks_taken(s, n),
               live' = live \cup {Allocation(s, n)}
        PROVE  HeapInv'
    <3> DEFINE b == Allocation(s, n)
    <3>1. FirstBlock(b) = s /\ Owned(b) = s .. s + n - 1 /\ b.blocks = n
      BY FirstBlockOfNew DEF Allocation
    <3>2. \A i \in Blocks : entries'[i] = IF i \in s .. s + n - 1 THEN TakenEntry(i, s, n)
                                                                 ELSE entries[i]
      BY <2>2 DEF heap_mark_blocks_taken
    <3>3. TypeOK'
      <4>1. \A i \in Blocks : TakenEntry(i, s, n) \in SUBSET Flag
        BY DEF TakenEntry, Flag
      <4>2. entries' \in [Blocks -> SUBSET Flag]
        BY <2>2, <4>1 DEF heap_mark_blocks_taken, HeapInv, TypeOK
      <4>3. spill' \subseteq Nat \ Blocks
        BY <2>2, SizeAssumption DEF heap_mark_blocks_taken, HeapInv, TypeOK, Blocks
      <4>4. b \in [ptr : {heap_block_to_address(i) : i \in Blocks}, blocks : 1 .. Word]
        BY DEF Allocation
      <4> QED
        BY <2>2, <4>2, <4>3, <4>4 DEF HeapInv, TypeOK
    <3>4. TableMatchesLive'
      <4>1. ASSUME NEW a \in live
            PROVE /\ FirstBlock(a) \in Blocks
                  /\ \A i \in Owned(a) \cap Blocks :
                        entries'[i] = TakenEntry(i, FirstBlock(a), a.blocks)
        BY <2>2, <3>2 DEF HeapInv, TableMatchesLive
      <4>2. \A i \in Owned(b) \cap Blocks : entries'[i] = TakenEntry(i, FirstBlock(b), b.blocks)
        BY <3>1, <3>2
      <4>3. ASSUME NEW i \in Blocks, entries'[i] # FREE PROVE \E a \in live' : i \in Owned(a)
        BY <2>2, <3>1, <3>2, <4>3 DEF HeapInv, TableMatchesLive
      <4> HIDE DEF b
      <4>4. \A a \in live' : a \in live \/ a = b
        BY <2>2 DEF b
      <4> QED
        BY <3>1, <4>1, <4>2, <4>3, <4>4 DEF TableMatchesLive, Owned, FirstBlock, heap_address_to_block
    <3>5. LiveDisjoint'
      <4>1. \A a \in live' : a \in live \/ a = b
        BY <2>2
      <4>2. \A a \in live : Owned(a) \cap Owned(b) = {}
        BY <2>2, <3>1
      <4>3. \A a, c \in live : a # c => Owned(a) \cap Owned(c) = {}
        BY DEF HeapInv, LiveDisjoint
      <4> HIDE DEF b
      <4>4. \A a, c \in live' : a # c => Owned(a) \cap Owned(c) = {}
        BY <4>1, <4>2, <4>3
      <4> QED
        BY <4>4 DEF LiveDisjoint, Owned, FirstBlock, heap_address_to_block
    <3> QED
      BY <3>3, <3>4, <3>5 DEF HeapInv
  <2> QED
    BY <1>2, <2>1, <2>2, KmallocStep
<1>3. ASSUME NEW a \in live, Kfree(a) PROVE HeapInv'
  <2>1. /\ entries' = [i \in Blocks |-> IF i \in Owned(a) THEN FREE ELSE entries[i]]
        /\ live' = live \ {a}
        /\ spill' = spill
    BY <1>3, KfreeStep
  <2>2. TypeOK'
    BY <2>1 DEF HeapInv, TypeOK, FREE
  <2>3. ASSUME NEW c \in live'
        PROVE /\ FirstBlock(c) \in Blocks
              /\ \A i \in Owned(c) \cap Blocks :
                    entries'[i] = TakenEntry(i, FirstBlock(c), c.blocks)
    BY <2>1 DEF HeapInv, TableMatchesLive, LiveDisjoint
  <2>4. ASSUME NEW i \in Blocks, entries'[i] # FREE PROVE \E c \in live' : i \in Owned(c)
    BY <2>1, <2>4 DEF HeapInv, TableMatchesLive
  <2>5. TableMatchesLive'
    BY <2>3, <2>4 DEF TableMatchesLive, Owned, FirstBlock, heap_address_to_block
  <2>6. LiveDisjoint'
    BY <2>1 DEF HeapInv, LiveDisjoint, Owned, FirstBlock, heap_address_to_block
  <2> QED
    BY <2>2, <2>5, <2>6 DEF HeapInv
<1>4. CASE UNCHANGED vars
  BY <1>1, <1>4 DEF vars, HeapInv, TypeOK
<1> QED
  BY <1>2, <1>3, <1>4 DEF Next

-----------------------------------------------------------------------------
(* The results *)

\* The heap always satisfies the inductive invariant.
LEMMA Invariance == Spec => []HeapInv
BY InitInv, StepInv, PTL DEF Spec

\* The table stays well typed and every pointer kmalloc has handed out is the
\* address of a block of the heap.
THEOREM HeapTypeOK == Spec => []TypeOK
<1>1. HeapInv => TypeOK
  BY DEF HeapInv
<1> QED
  BY <1>1, Invariance, PTL

\* No block is ever held by two callers of kmalloc.
THEOREM NoDoubleAllocation == Spec => []LiveDisjoint
<1>1. HeapInv => LiveDisjoint
  BY DEF HeapInv
<1> QED
  BY <1>1, Invariance, PTL

\* The block table always describes exactly the live allocations.
THEOREM TableIsAccurate == Spec => []TableMatchesLive
<1>1. HeapInv => TableMatchesLive
  BY DEF HeapInv
<1> QED
  BY <1>1, Invariance, PTL

\* kfree releases the blocks of its argument and touches no other entry.
THEOREM FreeIsExact == Spec => FreeReleasesExactly
<1> DEFINE Exact == \A a \in live \ live' : \A i \in Blocks :
                       entries'[i] = IF i \in Owned(a) THEN FREE ELSE entries[i]
<1>1. HeapInv /\ [Next]_vars => [Exact]_vars
  <2> SUFFICES ASSUME HeapInv, Next PROVE Exact
    OBVIOUS
  <2>1. ASSUME NEW size \in Sizes, Kmalloc(size) PROVE live \ live' = {}
    <3>1. live \subseteq live'
      BY <2>1, KmallocStep
    <3> QED
      BY <3>1
  <2>2. ASSUME NEW a \in live, Kfree(a) PROVE Exact
    BY <2>2, KfreeStep
  <2> QED
    BY <2>1, <2>2 DEF Next
<1> QED
  BY <1>1, Invariance, PTL DEF Spec, FreeReleasesExactly

\* Allocations that share no block share no byte.
LEMMA DisjointBytes ==
  ASSUME NEW s \in Nat, NEW t \in Nat, NEW n \in Nat \ {0}, NEW m \in Nat \ {0},
         (s .. s + n - 1) \cap (t .. t + m - 1) = {}
  PROVE  Abstract!Bytes(Allocation(s, n)) \cap Abstract!Bytes(Allocation(t, m)) = {}
<1>1. s + n <= t \/ t + m <= s
  <2>1. CASE s <= t
    <3>1. t \notin s .. s + n - 1
      OBVIOUS
    <3> QED
      BY <2>1, <3>1
  <2>2. CASE t <= s
    <3>1. s \notin t .. t + m - 1
      OBVIOUS
    <3> QED
      BY <2>2, <3>1
  <2> QED
    BY <2>1, <2>2
<1>2. \A x, y \in Nat : x <= y => x * BlockSize <= y * BlockSize
  BY SizeAssumption
<1>3. \A x, y \in Nat : SAddr + x * BlockSize + y * BlockSize = SAddr + (x + y) * BlockSize
  BY SizeAssumption
<1>4. \A x \in Nat : x * BlockSize \in Nat
  BY SizeAssumption
<1>5. (s + n) * BlockSize <= t * BlockSize \/ (t + m) * BlockSize <= s * BlockSize
  BY <1>1, <1>2
<1>6. /\ Abstract!Bytes(Allocation(s, n)) = SAddr + s * BlockSize .. SAddr + (s + n) * BlockSize - 1
      /\ Abstract!Bytes(Allocation(t, m)) = SAddr + t * BlockSize .. SAddr + (t + m) * BlockSize - 1
  BY <1>3, SizeAssumption DEF Abstract!Bytes, Allocation, heap_block_to_address
<1>7. s + n \in Nat /\ t + m \in Nat
  OBVIOUS
<1> QED
  BY <1>4, <1>5, <1>6, <1>7, SizeAssumption

\* The heap implements the allocator: a kmalloc that returns blocks is an
\* Alloc, a kfree is a Free, and every other call changes nothing callers see.
THEOREM HeapImplementsAllocator == Spec => ImplementsAllocator
<1>1. Init => Abstract!Init
  BY DEF Init, Abstract!Init
<1>2. HeapInv /\ [Next]_vars => [Abstract!Next]_live
  <2> SUFFICES ASSUME HeapInv, [Next]_vars PROVE [Abstract!Next]_live
    OBVIOUS
  <2>1. ASSUME NEW size \in Sizes, Kmalloc(size) PROVE [Abstract!Next]_live
    <3>1. CASE UNCHANGED live
      BY <3>1
    <3>2. ASSUME NEW s \in Blocks, NEW n \in 1 .. Word,
                 \A a \in live : Owned(a) \cap (s .. s + n - 1) = {},
                 live' = live \cup {Allocation(s, n)}
          PROVE  Abstract!Next
      <4>1. Allocation(s, n) \in [ptr : {heap_block_to_address(i) : i \in Blocks}, blocks : 1 .. Word]
        BY DEF Allocation
      <4>2. ASSUME NEW a \in live
            PROVE  Abstract!Bytes(Allocation(s, n)) \cap Abstract!Bytes(a) = {}
        <5>1. /\ FirstBlock(a) \in Nat
              /\ a.blocks \in Nat \ {0}
              /\ a = Allocation(FirstBlock(a), a.blocks)
          BY LivePlaced, SizeAssumption DEF HeapInv, Blocks
        <5>2. (s .. s + n - 1) \cap (FirstBlock(a) .. FirstBlock(a) + a.blocks - 1) = {}
          BY <3>2 DEF Owned
        <5>3. s \in Nat /\ n \in Nat \ {0}
          BY SizeAssumption DEF Blocks
        <5> QED
          BY <5>1, <5>2, <5>3, DisjointBytes
      <4>3. Abstract!Alloc(Allocation(s, n))
        BY <3>2, <4>2 DEF Abstract!Alloc
      <4> QED
        BY <4>1, <4>3 DEF Abstract!Next
    <3> QED
      BY <2>1, <3>1, <3>2, KmallocStep
  <2>2. ASSUME NEW a \in live, Kfree(a) PROVE Abstract!Next
    BY <2>2, KfreeStep DEF Abstract!Next, Abstract!Free
  <2>3. CASE UNCHANGED vars
    BY <2>3 DEF vars
  <2> QED
    BY <2>1, <2>2, <2>3 DEF Next
<1> QED
  BY <1>1, <1>2, Invariance, PTL DEF Spec, ImplementsAllocator, Abstract!Spec

-----------------------------------------------------------------------------
(* The loops *)

\* What the locals of heap_get_start_block's loop say after i iterations.
Counting(l, i, n) ==
  /\ n > 0 => \A s \in Fits(n) : s + n > i
  /\ \/ l.bs = -1 /\ l.bc = 0 /\ (i > 0 => ~IsFree(i - 1))
     \/ /\ l.bs \in 0 .. i - 1 /\ l.bc = i - l.bs
        /\ \A j \in l.bs .. i - 1 : IsFree(j)
        /\ l.bs > 0 => ~IsFree(l.bs - 1)

Stopped(l, n) == n > 0 /\ l.bs \in Fits(n) /\ \A s \in Fits(n) : l.bs <= s

StartInv(l, i, n) == IF l.break THEN Stopped(l, n) ELSE Counting(l, i, n)

Locals == [bc : Nat, bs : Int, break : BOOLEAN]

\* Where a run of n free blocks begins it has room in the table.
LEMMA FitsAre ==
  ASSUME NEW n \in Nat
  PROVE  \A s \in Fits(n) : s \in Nat /\ s + n <= Total /\ \A j \in s .. s + n - 1 : IsFree(j)
BY SizeAssumption DEF Fits, Blocks

\* While the loop counts, no run that is long enough has ended.
LEMMA NoneBefore ==
  ASSUME NEW n \in Nat, NEW i, NEW l, Counting(l, i, n), n > 0
  PROVE  \A s \in Fits(n) : s + n > i
BY Zenon DEF Counting

\* An iteration keeps them.
LEMMA StartIteration ==
  ASSUME NEW n \in Nat, NEW i \in 1 .. Total, NEW l \in Locals, StartInv(l, i - 1, n)
  PROVE  StartInv(StartBody(l, i - 1, n), i, n)
<1>1. Total \in Nat /\ i - 1 \in Blocks
  BY SizeAssumption DEF Blocks
<1>2. CASE l.break
  BY <1>2 DEF StartBody, StartInv
<1>3. CASE ~l.break /\ ~IsFree(i - 1)
  <2>1. StartBody(l, i - 1, n) = [bc |-> 0, bs |-> -1, break |-> FALSE]
    BY <1>3 DEF StartBody, IsFree
  <2>2. Counting(l, i - 1, n)
    BY <1>3 DEF StartInv
  <2>3. ASSUME n > 0, NEW s \in Fits(n) PROVE s + n > i
    <3>1. s \in Nat /\ s + n > i - 1 /\ \A j \in s .. s + n - 1 : IsFree(j)
      BY <2>2, <2>3, FitsAre, NoneBefore
    <3> QED
      BY <1>1, <1>3, <2>3, <3>1
  <2> QED
    BY <1>3, <2>1, <2>3 DEF StartInv, Counting
<1>4. CASE ~l.break /\ IsFree(i - 1)
  <2> DEFINE b == IF l.bs = -1 THEN i - 1 ELSE l.bs
             m == StartBody(l, i - 1, n)
  <2>1. m = [bc |-> l.bc + 1, bs |-> b, break |-> l.bc + 1 = n]
    BY <1>4 DEF StartBody, IsFree
  <2>2. Counting(l, i - 1, n)
    BY <1>4 DEF StartInv
  <2>3. /\ b \in 0 .. i - 1 /\ l.bc + 1 = i - b
        /\ \A j \in b .. i - 1 : IsFree(j)
        /\ b > 0 => ~IsFree(b - 1)
    <3>1. CASE l.bs = -1
      BY <1>1, <1>4, <2>2, <3>1 DEF Counting
    <3>2. CASE l.bs # -1
      BY <1>1, <1>4, <2>2, <3>2 DEF Counting
    <3> QED
      BY <3>1, <3>2
  <2> HIDE DEF b, m
  <2>4. ASSUME l.bc + 1 = n PROVE StartInv(m, i, n)
    <3>1. b \in Fits(n) /\ n > 0
      BY <1>1, <2>3, <2>4 DEF Fits, Blocks
    <3>2. \A s \in Fits(n) : s \in Nat /\ s + n > i - 1
      BY <2>2, <3>1, FitsAre, NoneBefore
    <3>3. \A s \in Fits(n) : b <= s
      BY <2>3, <2>4, <3>2
    <3>4. m.break /\ m.bs = b
      BY <2>1, <2>4
    <3>5. Stopped(m, n)
      BY <3>1, <3>3, <3>4 DEF Stopped
    <3> QED
      BY <3>4, <3>5 DEF StartInv
  <2>5. ASSUME l.bc + 1 # n PROVE StartInv(m, i, n)
    <3>1. ASSUME n > 0, NEW s \in Fits(n) PROVE s + n > i
      <4>1. s \in Nat /\ s + n > i - 1 /\ \A j \in s .. s + n - 1 : IsFree(j)
        BY <2>2, <3>1, FitsAre, NoneBefore
      <4>2. ASSUME s + n = i PROVE FALSE
        <5>1. s >= b
          BY <2>3, <3>1, <4>1, <4>2
        <5>2. n < i - b
          BY <2>3, <2>5, <4>1, <4>2, <5>1
        <5>3. b \in Fits(n)
          BY <1>1, <2>3, <5>2 DEF Fits, Blocks
        <5>4. b + n > i - 1
          BY <2>2, <3>1, <5>3 DEF Counting
        <5> QED
          BY <2>3, <5>2, <5>4
      <4> QED
        BY <4>1, <4>2
    <3>2. ~m.break /\ m.bs = b /\ m.bc = i - b
      BY <2>1, <2>3, <2>5
    <3>3. Counting(m, i, n)
      <4>1. n > 0 => \A s \in Fits(n) : s + n > i
        BY <3>1
      <4>2. m.bs \in 0 .. i - 1 /\ m.bc = i - m.bs
        BY <2>3, <3>2
      <4>3. (\A j \in m.bs .. i - 1 : IsFree(j)) /\ (m.bs > 0 => ~IsFree(m.bs - 1))
        BY <2>3, <3>2, Zenon
      <4> QED
        BY <4>1, <4>2, <4>3, Zenon DEF Counting
    <3> QED
      BY <3>2, <3>3 DEF StartInv
  <2>6. StartInv(m, i, n)
    BY <2>4, <2>5
  <2> QED
    BY <2>6 DEF m
<1> QED
  BY <1>2, <1>3, <1>4

\* The loop has a state after every iteration, and the invariant holds of each.
LEMMA StartLoop ==
  ASSUME NEW n \in Nat
  PROVE  \E l \in Locals : /\ StartInv(l, Total, n)
                            /\ StartBlockByLoop(n) = IF l.bs = -1 THEN -ENOMEM ELSE l.bs
<1> DEFINE base == [bc |-> 0, bs |-> -1, break |-> FALSE]
           F(g) == [i \in 0 .. Total |-> IF i = 0 THEN base ELSE StartBody(g[i - 1], i - 1, n)]
           Loop == CHOOSE g : g = F(g)
           body == [i \in 1 .. Total |-> [l \in Locals |-> StartBody(l, i - 1, n)]]
<1>1. Total \in Nat /\ base \in Locals
  BY SizeAssumption DEF Locals
<1>2. \A i \in 1 .. Total, l \in Locals : StartBody(l, i - 1, n) \in Locals
  BY <1>1 DEF Locals, StartBody
<1>3. body \in Bodies(Total, Locals)
  BY <1>2 DEF Bodies
<1>4. PICK g \in States(Total, Locals) : g[0] = base /\ \A i \in 1 .. Total : g[i] = body[i][g[i - 1]]
  <2> HIDE DEF body, base
  <2> QED
    BY <1>1, <1>3, LoopExists
<1>5. g = F(g)
  <2>1. g \in [0 .. Total -> Locals]
    BY <1>4 DEF States
  <2>2. ASSUME NEW i \in 0 .. Total PROVE g[i] = IF i = 0 THEN base ELSE StartBody(g[i - 1], i - 1, n)
    <3>1. CASE i = 0
      BY <1>4, <3>1
    <3>2. CASE i # 0
      <4>1. i \in 1 .. Total /\ i - 1 \in 0 .. Total
        BY <1>1, <3>2
      <4>2. g[i - 1] \in Locals
        BY <2>1, <4>1
      <4> QED
        BY <1>4, <3>2, <4>1, <4>2, Zenon
    <3> QED
      BY <3>1, <3>2
  <2> QED
    BY <2>1, <2>2
<1>6. Loop = F(Loop)
  BY <1>5, Zenon
<1>7. StartBlockByLoop(n) = IF Loop[Total].bs = -1 THEN -ENOMEM ELSE Loop[Total].bs
  BY Zenon DEF StartBlockByLoop
<1> HIDE DEF Loop
<1>8. /\ Loop[0] = base
      /\ \A i \in 1 .. Total : Loop[i] = StartBody(Loop[i - 1], i - 1, n)
  <2>1. 0 \in 0 .. Total /\ \A i \in 1 .. Total : i \in 0 .. Total /\ i # 0
    BY <1>1
  <2> QED
    BY <1>6, <2>1, Zenon
<1> DEFINE S == {i \in 0 .. Total : Loop[i] \in Locals /\ StartInv(Loop[i], i, n)}
<1>9. 0 \in S
  <2>1. Counting(base, 0, n)
    BY <1>1 DEF Counting, Fits, Blocks
  <2>2. StartInv(base, 0, n)
    BY <2>1 DEF StartInv
  <2> HIDE DEF base
  <2> QED
    BY <1>1, <1>8, <2>2
<1>10. ASSUME NEW i \in 1 .. Total, i - 1 \in S PROVE i \in S
  <2>1. Loop[i] = StartBody(Loop[i - 1], i - 1, n) /\ i \in 0 .. Total
    BY <1>1, <1>8
  <2>2. Loop[i - 1] \in Locals /\ StartInv(Loop[i - 1], i - 1, n)
    BY <1>10
  <2> QED
    BY <1>2, <2>1, <2>2, StartIteration
<1> HIDE DEF S
<1>11. \A i \in 1 .. Total : i - 1 \in S => i \in S
  BY <1>10
<1>12. \A i \in 0 .. Total : i \in S
  BY <1>1, <1>9, <1>11, Induction, Zenon
<1>13. Total \in S
  BY <1>1, <1>12
<1> QED
  BY <1>7, <1>13 DEF S

\* The loop's start block is the first of the first run that is long enough, or
\* of the run at the end of the table.
LEMMA StartLoopAgrees ==
  ASSUME NEW n \in Nat
  PROVE  StartBlockByLoop(n) = heap_get_start_block(n)
<1>1. PICK l \in Locals : /\ StartInv(l, Total, n)
                          /\ StartBlockByLoop(n) = IF l.bs = -1 THEN -ENOMEM ELSE l.bs
  BY StartLoop
<1>2. Total \in Nat /\ Fits(n) \in SUBSET Blocks /\ TrailingRun \in SUBSET Blocks
  BY SizeAssumption DEF Fits, TrailingRun
<1>3. CASE l.break
  <2>1. Stopped(l, n)
    BY <1>1, <1>3 DEF StartInv
  <2>2. Min(Fits(n)) \in Fits(n) /\ Min(Fits(n)) <= l.bs /\ l.bs <= Min(Fits(n))
    BY <1>2, <2>1, MinBlock DEF Stopped
  <2>3. l.bs # -1 /\ l.bs = Min(Fits(n))
    BY <1>2, <2>1, <2>2 DEF Stopped, Blocks
  <2> QED
    BY <1>1, <2>1, <2>3 DEF Stopped, heap_get_start_block
<1>4. CASE ~l.break
  <2>1. Counting(l, Total, n)
    BY <1>1, <1>4 DEF StartInv
  <2>2. n > 0 => Fits(n) = {}
    <3>1. ASSUME n > 0, NEW s \in Fits(n) PROVE FALSE
      <4>1. s \in Nat /\ s + n <= Total /\ s + n > Total
        BY <2>1, <3>1, FitsAre, NoneBefore
      <4> QED
        BY <1>2, <4>1
    <3> QED
      BY <3>1
  <2>3. CASE l.bs = -1
    <3>1. Total > 0 /\ ~IsFree(Total - 1)
      BY <2>1, <2>3, SizeAssumption DEF Counting
    <3>2. TrailingRun = {}
      BY <1>2, <3>1 DEF TrailingRun, Blocks
    <3> QED
      BY <1>1, <2>2, <2>3, <3>2 DEF heap_get_start_block
  <2>4. CASE l.bs # -1
    <3>1. /\ l.bs \in 0 .. Total - 1 /\ \A j \in l.bs .. Total - 1 : IsFree(j)
          /\ l.bs > 0 => ~IsFree(l.bs - 1)
      BY <2>1, <2>4 DEF Counting
    <3>2. l.bs \in TrailingRun
      BY <3>1 DEF TrailingRun, Blocks
    <3>3. ASSUME NEW s \in TrailingRun PROVE l.bs <= s
      BY <1>2, <3>1 DEF TrailingRun, Blocks
    <3>4. Min(TrailingRun) \in TrailingRun /\ Min(TrailingRun) <= l.bs
      BY <1>2, <3>2, MinBlock
    <3>5. l.bs = Min(TrailingRun)
      <4>1. PICK t \in TrailingRun : t = Min(TrailingRun)
        BY <3>4
      <4>2. t \in Int /\ l.bs <= t /\ t <= l.bs
        BY <1>2, <3>3, <3>4, <4>1 DEF Blocks
      <4> QED
        BY <3>1, <4>1, <4>2
    <3> QED
      BY <1>1, <2>2, <2>4, <3>2, <3>5 DEF heap_get_start_block
  <2> QED
    BY <2>3, <2>4
<1> QED
  BY <1>3, <1>4

\* The entries heap_mark_blocks_taken writes are those of their places.
LEMMA TakeLoopAgrees ==
  ASSUME NEW n \in Nat, NEW s \in Blocks
  PROVE  TakenByLoop(s, n) = [k \in 1 .. n |-> <<s + k - 1, TakenEntry(s + k - 1, s, n)>>]
<1>1. s \in Nat
  BY SizeAssumption DEF Blocks
<1>2. ASSUME NEW k \in 1 .. n
      PROVE  (IF s + k - 1 = s
              THEN {"TAKEN", "IS_FIRST"} \cup (IF n > 1 THEN {"HAS_NEXT"} ELSE {})
              ELSE {"TAKEN"} \cup (IF (s + k - 1) - 1 # (s + n - 1) - 1 THEN {"HAS_NEXT"} ELSE {}))
             = TakenEntry(s + k - 1, s, n)
  <2>1. CASE s + k - 1 = s
    <3>1. (n > 1) <=> (s + k - 1 < s + n - 1)
      BY <1>1, <2>1
    <3> QED
      BY <2>1, <3>1 DEF TakenEntry
  <2>2. CASE s + k - 1 # s
    <3>1. ((s + k - 1) - 1 # (s + n - 1) - 1) <=> (s + k - 1 < s + n - 1)
      BY <1>1
    <3> QED
      BY <2>2, <3>1 DEF TakenEntry
  <2> QED
    BY <2>1, <2>2
<1> QED
  BY <1>2, Zenon DEF TakenByLoop

\* What heap_mark_blocks_free's loop has cleared after k iterations, while it
\* follows the marks and when it has come to the last.
FreeInv(l, start, k) ==
  IF l.break THEN l.cleared = Chain(start)
  ELSE /\ l.cleared = start .. start + k - 1
       /\ \A j \in start .. start + k - 1 : "HAS_NEXT" \in entries[j]

Cleared == [cleared : SUBSET Blocks, break : BOOLEAN]

\* An iteration of the loop that frees keeps this.
LEMMA FreeIteration ==
  ASSUME NEW start \in Blocks, NEW k \in 1 .. Total - start, NEW l \in Cleared,
         FreeInv(l, start, k - 1)
  PROVE  FreeInv(FreeBody(l, start + k - 1), start, k)
<1>1. Total \in Nat /\ start \in Nat /\ start + k - 1 \in Blocks
  BY SizeAssumption DEF Blocks
<1>2. CASE l.break
  BY <1>2 DEF FreeBody, FreeInv
<1>3. CASE ~l.break
  <2> DEFINE i == start + k - 1
             m == FreeBody(l, i)
  <2>1. /\ l.cleared = start .. start + (k - 1) - 1
        /\ \A j \in start .. start + (k - 1) - 1 : "HAS_NEXT" \in entries[j]
    BY <1>3 DEF FreeInv
  <2>2. l.cleared = start .. i - 1 /\ \A j \in start .. i - 1 : "HAS_NEXT" \in entries[j]
    BY <1>1, <2>1
  <2>3. m.cleared = l.cleared \cup {i} /\ (m.break <=> "HAS_NEXT" \notin entries[i])
    BY <1>3 DEF FreeBody
  <2>4. m.cleared = start .. i
    <3>1. start .. i = (start .. i - 1) \cup {i}
      BY <1>1
    <3> QED
      BY <2>2, <2>3, <3>1, Zenon
  <2> HIDE DEF m
  <2>5. ASSUME "HAS_NEXT" \notin entries[i] PROVE Chain(start) = start .. i
    <3>1. ASSUME NEW x \in start .. i PROVE x \in Chain(start)
      <4>1. x \in start .. Total - 1 /\ x - 1 \in Int /\ \A j \in start .. x - 1 : j \in start .. i - 1
        BY <1>1
      <4> QED
        BY <2>2, <4>1 DEF Chain
    <3>2. ASSUME NEW x \in Chain(start) PROVE x \in start .. i
      <4>1. x \in start .. Total - 1 /\ \A j \in start .. x - 1 : "HAS_NEXT" \in entries[j]
        BY DEF Chain
      <4>2. i \notin start .. x - 1
        BY <2>5, <4>1
      <4> QED
        BY <1>1, <4>1, <4>2
    <3> QED
      BY <3>1, <3>2
  <2>6. CASE "HAS_NEXT" \notin entries[i]
    <3>1. m.break /\ m.cleared = Chain(start)
      BY <2>3, <2>4, <2>5, <2>6
    <3> QED
      BY <3>1 DEF FreeInv, m
  <2>7. CASE "HAS_NEXT" \in entries[i]
    <3>1. \A j \in start .. i : "HAS_NEXT" \in entries[j]
      BY <1>1, <2>2, <2>7
    <3>2. ~m.break /\ m.cleared = start .. start + k - 1
      BY <2>3, <2>4, <2>7
    <3> QED
      BY <3>1, <3>2 DEF FreeInv, m
  <2> QED
    BY <2>6, <2>7
<1> QED
  BY <1>2, <1>3

\* The blocks heap_mark_blocks_free clears are the chain of marks.
LEMMA FreeLoopAgrees ==
  ASSUME NEW start \in Blocks
  PROVE  FreedByLoop(start) = Chain(start)
<1>1. PICK n \in Nat : n = Total - start
  BY SizeAssumption DEF Blocks
<1>2. Total \in Nat /\ start \in Nat /\ n > 0 /\ start + n = Total
  BY <1>1, SizeAssumption DEF Blocks
<1> DEFINE base == [cleared |-> {}, break |-> FALSE]
           F(g) == [k \in 0 .. Total - start |-> IF k = 0 THEN base ELSE FreeBody(g[k - 1], start + k - 1)]
           Loop == CHOOSE g : g = F(g)
           body == [k \in 1 .. n |-> [l \in Cleared |-> FreeBody(l, start + k - 1)]]
<1>3. base \in Cleared
  BY DEF Cleared
<1>4. ASSUME NEW k \in 1 .. n, NEW l \in Cleared PROVE FreeBody(l, start + k - 1) \in Cleared
  <2>1. start + k - 1 \in Blocks
    BY <1>2 DEF Blocks
  <2> QED
    BY <2>1 DEF Cleared, FreeBody
<1>5. body \in Bodies(n, Cleared)
  BY <1>4 DEF Bodies
<1>6. PICK g \in States(n, Cleared) : g[0] = base /\ \A k \in 1 .. n : g[k] = body[k][g[k - 1]]
  <2> HIDE DEF body, base
  <2> QED
    BY <1>3, <1>5, LoopExists
<1>7. g = F(g)
  <2>1. g \in [0 .. Total - start -> Cleared]
    BY <1>1, <1>6 DEF States
  <2>2. ASSUME NEW k \in 0 .. Total - start
        PROVE  g[k] = IF k = 0 THEN base ELSE FreeBody(g[k - 1], start + k - 1)
    <3>1. CASE k = 0
      BY <1>6, <3>1
    <3>2. CASE k # 0
      <4>1. k \in 1 .. n /\ k - 1 \in 0 .. Total - start
        BY <1>1, <3>2
      <4>2. g[k - 1] \in Cleared
        BY <2>1, <4>1
      <4> QED
        BY <1>6, <3>2, <4>1, <4>2, Zenon
    <3> QED
      BY <3>1, <3>2
  <2> QED
    BY <2>1, <2>2
<1>8. Loop = F(Loop)
  BY <1>7, Zenon
<1>9. FreedByLoop(start) = Loop[n].cleared
  BY <1>1, Zenon DEF FreedByLoop
<1> HIDE DEF Loop
<1>10. /\ Loop[0] = base
       /\ \A k \in 1 .. n : Loop[k] = FreeBody(Loop[k - 1], start + k - 1)
  <2>1. 0 \in 0 .. Total - start /\ \A k \in 1 .. n : k \in 0 .. Total - start /\ k # 0
    BY <1>1
  <2> QED
    BY <1>8, <2>1, Zenon
<1> DEFINE S == {k \in 0 .. n : Loop[k] \in Cleared /\ FreeInv(Loop[k], start, k)}
<1>11. 0 \in S
  <2>1. start .. start + 0 - 1 = {}
    BY <1>2
  <2>2. FreeInv(base, start, 0)
    BY <2>1 DEF FreeInv
  <2> HIDE DEF base
  <2> QED
    BY <1>3, <1>10, <2>2
<1>12. ASSUME NEW k \in 1 .. n, k - 1 \in S PROVE k \in S
  <2>1. Loop[k] = FreeBody(Loop[k - 1], start + k - 1) /\ k \in 0 .. n
    BY <1>10
  <2>2. Loop[k - 1] \in Cleared /\ FreeInv(Loop[k - 1], start, k - 1)
    BY <1>12
  <2>3. k \in 1 .. Total - start
    BY <1>1
  <2> QED
    BY <1>4, <2>1, <2>2, <2>3, FreeIteration
<1> HIDE DEF S
<1>13. \A k \in 1 .. n : k - 1 \in S => k \in S
  BY <1>12
<1>14. \A k \in 0 .. n : k \in S
  BY <1>11, <1>13, Induction, Zenon
<1>15. FreeInv(Loop[n], start, n)
  BY <1>14 DEF S
<1>16. CASE Loop[n].break
  BY <1>9, <1>15, <1>16 DEF FreeInv
<1>17. CASE ~Loop[n].break
  <2>1. /\ Loop[n].cleared = start .. start + n - 1
        /\ \A j \in start .. start + n - 1 : "HAS_NEXT" \in entries[j]
    BY <1>15, <1>17 DEF FreeInv
  <2>2. start .. start + n - 1 = start .. Total - 1
    BY <1>2
  <2>3. \A i \in start .. Total - 1 : \A j \in start .. i - 1 : j \in start .. Total - 1
    BY <1>2
  <2>4. Chain(start) = start .. Total - 1
    BY <2>1, <2>2, <2>3 DEF Chain
  <2> QED
    BY <1>9, <2>1, <2>2, <2>4
<1> QED
  BY <1>16, <1>17

\* On every table the loops of heap.c compute what module Heap says of them, in
\* a heap of any size and for any request and any block.
THEOREM LoopsCompute == Spec => []LoopsAgree
<1>1. LoopsAgree
  <2>1. \A n \in 0 .. Total + 2 : n \in Nat
    BY SizeAssumption
  <2> QED
    BY <2>1, StartLoopAgrees, TakeLoopAgrees, FreeLoopAgrees DEF LoopsAgree
<1> QED
  BY <1>1, PTL
=============================================================================
