------------------------------- MODULE Paging -------------------------------
(***************************************************************************)
(* Page directories (ke/memory/paging/paging.c): building a directory that *)
(* maps the address space to itself, changing single pages, switching to a *)
(* directory and giving it back to the heap.                               *)
(*                                                                         *)
(* A directory has Entries tables of Entries pages.  An entry is a number: *)
(* an address, a multiple of PageSize, plus flags below PageSize.  The     *)
(* heap is the set of its blocks that are in use; a block is one page, and *)
(* kzalloc takes the lowest (module Heap).  Who makes directories, and     *)
(* when, is module Process's.                                              *)
(***************************************************************************)
EXTENDS Integers, FiniteSetsExt, Status

CONSTANTS Entries,      \* PAGING_TOTAL_ENTRIES_PER_TABLE
          PageSize,     \* PAGING_PAGE_SIZE
          HeapBlocks,   \* the addresses of the heap's blocks
          FlagSets,     \* the flags directories and pages are made with
          Virtual,      \* the addresses callers map
          Physical      \* the addresses callers map them to

AllFlags == 0 .. PageSize - 1
Writeable == 2          \* PAGING_IS_WRITEABLE
TableSpan == Entries * PageSize
Index == 0 .. Entries - 1

\* The flag bits with PAGING_IS_WRITEABLE set.
OrWriteable(f) == IF (f \div Writeable) % 2 = 1 THEN f ELSE f + Writeable

ASSUME PagingAssumption ==
    /\ Entries \in Nat \ {0} /\ PageSize \in Nat \ {0}
    /\ FlagSets \subseteq AllFlags
    /\ \A v \in Virtual : v < Entries * TableSpan
    /\ \A f \in FlagSets : OrWriteable(f) \in AllFlags
    /\ Virtual \cup Physical \subseteq Nat
    /\ HeapBlocks \subseteq Nat \ {0} /\ IsFiniteSet(HeapBlocks)
    /\ \A b \in HeapBlocks : b % PageSize = 0

VARIABLES used,         \* the heap blocks in use
          chunk,        \* the directories: the block of each one's chunk record
          directory,    \* the entries of each directory, by the directory's block
          table,        \* the entries of each table, by the table's block
          current,      \* current_directory, 0 before the first switch
          remapped      \* auxiliary: the pages set since their directory was made

pagingVars == <<used, chunk, directory, table, current, remapped>>

Dirs == DOMAIN directory

PagingInit == /\ used = {} /\ current = 0 /\ remapped = {}
              /\ chunk = <<>> /\ directory = <<>> /\ table = <<>>

-----------------------------------------------------------------------------
(* Addresses *)

\* Slip: every address passes.
paging_is_aligned_Any(addr) == TRUE

paging_is_aligned(addr) == addr % PageSize = 0

AddressOf(entry) == entry - (entry % PageSize)   \* entry & 0xfffff000

\* paging_get_indexes
DirectoryIndex(virt) == virt \div TableSpan

\* Slip: the remainder is taken by the wrong divisor.
TableIndex_WrongSpan(virt) == (virt % PageSize) \div PageSize

TableIndex(virt) == (virt % TableSpan) \div PageSize

TableOf(d, virt) == AddressOf(directory[d][DirectoryIndex(virt)])

\* What the processor makes of an address: the number of its page, split in two.
Entry(d, virt) ==
    LET page == virt \div PageSize
    IN  table[AddressOf(directory[d][page \div Entries])][page % Entries]

Pages == {i * PageSize : i \in 0 .. Entries * Entries - 1}

-----------------------------------------------------------------------------
(* Operations *)

\* The blocks kzalloc returns when it is called n times: the lowest free ones
\* in order, the k-th having k - 1 free ones below it.
Lowest(n) ==
    LET free == HeapBlocks \ used
        Below(b) == Cardinality({c \in free : c < b})
    IN  [k \in 1 .. n |-> CHOOSE b \in free : Below(b) = k - 1]

\* Slip: offset is not moved on to the next table.
TablePage_NoOffset(i, j) == j * PageSize

\* Where page j of table i goes: offset + b * PAGING_PAGE_SIZE.
TablePage(i, j) == i * TableSpan + j * PageSize

\* Slip: one table is allocated, before the loop.
NewTables_One(b) == [i \in Index |-> b[2]]

NewTables(b) == [i \in Index |-> b[i + 2]]

\* The directory's entries, an address that is 0 for a table without memory too.
NewEntries(b, flags) == [i \in Index |-> NewTables(b)[i] + OrWriteable(flags)]

\* What paging_new_4gb makes of the blocks kzalloc returns to it: the directory,
\* its tables and the chunk.  It does not look at them; this is what it does
\* when it gets them all.  A chunk that is 0 is the failure its caller sees.
paging_new_4gb(b, flags) ==
    LET d == b[1]
        t == NewTables(b)
        tables == {t[i] : i \in Index}
    IN  /\ chunk' = [e \in Dirs \cup {d} |-> IF e = d THEN b[Entries + 2] ELSE chunk[e]]
        /\ directory' = [e \in Dirs \cup {d} |->
                            IF e = d THEN NewEntries(b, flags) ELSE directory[e]]
        /\ table' = [a \in DOMAIN table \cup tables |->
                        IF a \in tables
                        THEN LET i == CHOOSE i \in Index : t[i] = a
                             IN  [j \in Index |-> TablePage(i, j) + flags]
                        ELSE table[a]]
        /\ UNCHANGED <<current, remapped>>

paging_switch(d) == /\ current' = d
                    /\ UNCHANGED <<used, chunk, directory, table, remapped>>

\* Slip: the directory itself is not given back.
paging_free_4gb_KeepsDirectory(entries, d, c) ==
    ({AddressOf(entries[i]) : i \in Index} \cup {c}) \ {0}

\* What paging_free_4gb gives back: the tables, found through the directory's
\* entries, the directory and the chunk.  kfree of address 0 writes below the
\* heap's table and frees no block.
paging_free_4gb(entries, d, c) ==
    ({AddressOf(entries[i]) : i \in Index} \cup {d, c}) \ {0}

paging_set(d, virt, val) ==
    IF ~paging_is_aligned(virt)
    THEN UNCHANGED pagingVars
    ELSE /\ table' = [table EXCEPT ![TableOf(d, virt)][TableIndex(virt)] = val]
         /\ remapped' = remapped \cup {<<d, virt>>}
         /\ UNCHANGED <<used, chunk, directory, current>>

paging_map(d, virt, phys, flags) ==
    IF ~paging_is_aligned(virt) \/ ~paging_is_aligned(phys)
    THEN UNCHANGED pagingVars
    ELSE paging_set(d, virt, phys + flags)

\* The loop ends at the first page that is mapped; pages that cannot be are all
\* tried, none with success.
paging_map_range(d, virt, phys, count, flags) ==
    IF count = 0 THEN UNCHANGED pagingVars ELSE paging_map(d, virt, phys, flags)

paging_map_to(d, virt, phys, end, flags) ==
    IF (\E a \in {virt, phys, end} : ~paging_is_aligned(a)) \/ end < phys
    THEN UNCHANGED pagingVars
    ELSE paging_map_range(d, virt, phys, (end - phys) \div PageSize, flags)

-----------------------------------------------------------------------------
(* Properties *)

TypeOK == /\ used \subseteq HeapBlocks
          /\ chunk \in [Dirs -> HeapBlocks]
          /\ directory \in [Dirs -> [Index -> Nat]] /\ Dirs \subseteq HeapBlocks
          /\ table \in [DOMAIN table -> [Index -> Nat]]
          /\ current \in Dirs \cup {0}
          /\ remapped \subseteq Dirs \X Pages

TablesOf(d) == {AddressOf(directory[d][i]) : i \in Index}

\* The blocks of a directory: itself, its tables and its chunk.
BlocksOf(d) == {d, chunk[d]} \cup TablesOf(d)

\* Every directory has its own blocks, all of them in use, and its tables exist:
\* no table is shared, and none is given back while its directory is there.
OwnBlocks ==
    /\ UNION {BlocksOf(d) : d \in Dirs} \subseteq used
    /\ \A d, e \in Dirs : d # e => BlocksOf(d) \cap BlocksOf(e) = {}
    /\ \A d \in Dirs : Cardinality(BlocksOf(d)) = Entries + 2
    /\ DOMAIN table = UNION {TablesOf(d) : d \in Dirs}

\* A page that has not been set since its directory was made is mapped to
\* itself: the 4 GB a directory covers are covered without a gap or an overlap
\* ("Map the entire 4GB address space to its self", ke/task/task.c:123).
MapsToItself ==
    \A d \in Dirs, v \in Pages : <<d, v>> \notin remapped => AddressOf(Entry(d, v)) = v

\* The pages a step changes, of the directories there were before it.
Changed == {p \in (Dirs \cap DOMAIN directory') \X Pages :
               Entry(p[1], p[2])' # Entry(p[1], p[2])}

\* A step changes one page at most, and only the page a caller asked to set:
\* mapping a page in one task's directory never moves a page of another
\* (paging_set finds its table through the directory's entry), and neither does a
\* new directory or one that is given back half made.
SetsOnePage == [][Cardinality(Changed) <= 1 /\ Changed \subseteq remapped']_pagingVars
=============================================================================
