----------------------------- MODULE HeapLoops -----------------------------
(***************************************************************************)
(* The three loops of heap.c, iteration by iteration, to be compared with  *)
(* the definitions of module Heap.  A loop is a function of the number of  *)
(* iterations: its value is what the locals hold after them, and whether   *)
(* the loop has been left by a break.                                      *)
(***************************************************************************)
EXTENDS Heap, Sequences

\* The body of heap_get_start_block's loop for block i, with its locals bc and bs.
StartBody(l, i, n) ==
    IF l.break THEN l
    ELSE IF heap_get_entry_type(entries[i]) # FREE THEN [bc |-> 0, bs |-> -1, break |-> FALSE]
    ELSE [bc |-> l.bc + 1, bs |-> IF l.bs = -1 THEN i ELSE l.bs, break |-> l.bc + 1 = n]

StartBlockByLoop(n) ==
    LET Loop[i \in 0 .. Total] == IF i = 0 THEN [bc |-> 0, bs |-> -1, break |-> FALSE]
                                  ELSE StartBody(Loop[i - 1], i - 1, n)
        bs == Loop[Total].bs
    IN  IF bs = -1 THEN -ENOMEM ELSE bs

\* heap_mark_blocks_taken's loop: the writes <<index, entry>> in order.  The entry
\* is the one set before the loop, and later the one the iteration before has set.
TakenByLoop(start, n) ==
    LET end == start + n - 1
        first == {"TAKEN", "IS_FIRST"} \cup (IF n > 1 THEN {"HAS_NEXT"} ELSE {})
        SetBy(i) == {"TAKEN"} \cup (IF i # end - 1 THEN {"HAS_NEXT"} ELSE {})
    IN  [k \in 1 .. n |-> LET i == start + k - 1 IN
                          <<i, IF i = start THEN first ELSE SetBy(i - 1)>>]

\* The body of heap_mark_blocks_free's loop for block i: the blocks it has cleared.
FreeBody(l, i) ==
    IF l.break THEN l
    ELSE [cleared |-> l.cleared \cup {i}, break |-> "HAS_NEXT" \notin entries[i]]

FreedByLoop(start) ==
    LET Loop[k \in 0 .. Total - start] == IF k = 0 THEN [cleared |-> {}, break |-> FALSE]
                                          ELSE FreeBody(Loop[k - 1], start + k - 1)
    IN  Loop[Total - start].cleared

\* Each loop of heap.c computes what module Heap says it does, on every table
\* the heap reaches and for every request up to two blocks more than it has.
LoopsAgree ==
    \A n \in 0 .. Total + 2 :
       /\ StartBlockByLoop(n) = heap_get_start_block(n)
       /\ \A s \in Blocks :
             /\ TakenByLoop(s, n) = [k \in 1 .. n |-> <<s + k - 1, TakenEntry(s + k - 1, s, n)>>]
             /\ FreedByLoop(s) = Chain(s)
=============================================================================
