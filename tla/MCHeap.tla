------------------------------- MODULE MCHeap -------------------------------
(***************************************************************************)
(* The heap on 6 blocks of 4 bytes, and the numbers of ke/config.h.        *)
(***************************************************************************)
EXTENDS HeapLoops

\* No bytes, one to three and seven blocks, and a size whose rounding wraps
\* to zero.
MCSizes == {0, 3, 8, 9, 25, Word - 1}

Configured == INSTANCE Heap WITH Total <- 25600, BlockSize <- 4096, SAddr <- 16777216

\* kheap_init creates the heap of ke/config.h: 100 MB at 16 MB in blocks of 4096.
ASSUME ConfiguredHeapIsCreated ==
    Configured!heap_create(16777216, 16777216 + 104857600, 104857600 \div 4096) = LIBREWIN_ALL_OK
=============================================================================
