----------------------------- MODULE Allocator -----------------------------
(***************************************************************************)
(* What the callers of kmalloc and kfree rely on: an allocation is an      *)
(* address and a number of blocks nobody else owns, it stays theirs until  *)
(* they free it, and freeing it takes nothing away from anybody else.      *)
(* Nothing is said of where the blocks come from, nor of when an           *)
(* allocation fails.                                                       *)
(***************************************************************************)
EXTENDS Integers

CONSTANTS BlockSize,    \* bytes in a block
          Addresses,    \* the addresses an allocation may start at
          Lengths       \* the numbers of blocks an allocation may have

VARIABLE live           \* the allocations handed out and not yet freed

\* The bytes an allocation covers.
Bytes(a) == a.ptr .. (a.ptr + a.blocks * BlockSize) - 1

Init == live = {}

Alloc(a) == /\ \A b \in live : Bytes(a) \cap Bytes(b) = {}
            /\ live' = live \cup {a}

Free(a) == live' = live \ {a}

Next == \/ \E a \in [ptr : Addresses, blocks : Lengths] : Alloc(a)
        \/ \E a \in live : Free(a)

Spec == Init /\ [][Next]_live
=============================================================================
