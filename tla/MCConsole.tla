------------------------------ MODULE MCConsole -----------------------------
(***************************************************************************)
(* Rows of three cells and a part of one; a prompt of two characters,      *)
(* lines of up to six, which wrap twice.  A command prints                 *)
(* nothing but a line end, or a message like the help (one string that     *)
(* begins with a line end), or one like that for an unknown command (short *)
(* strings, then one that is longer than the row).                         *)
(***************************************************************************)
EXTENDS Console

MCPrompt  == <<Key, Key>>
MCHelp    == <<<<NL, Key, NL, Key, NL>>>>
MCUnknown == <<<<NL>>, <<Key>>, <<Key>>, <<Key, Key, Key, NL>>>>
MCOutputs == {<<<<NL>>>>, MCHelp, MCUnknown}
=============================================================================
