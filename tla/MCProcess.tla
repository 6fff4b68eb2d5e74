------------------------------ MODULE MCProcess -----------------------------
(***************************************************************************)
(* Directories of two tables of two pages of four bytes.  The last page is *)
(* mapped, and an address that is not aligned, to one that is and to one   *)
(* that is not.                                                            *)
(*                                                                         *)
(* The heap has room for the kernel's directory, two loads and six blocks, *)
(* one less than a load needs.  With what the rest of the kernel takes,    *)
(* and loads that leave a process without a task, a later load finds any   *)
(* number of blocks from none to six.                                      *)
(***************************************************************************)
EXTENDS Process

MCFlags    == {1}
MCHeap     == {16 + 4 * i : i \in 0 .. 23}
MCVirtual  == {12, 6}
MCPhysical == {4, 6}
=============================================================================
