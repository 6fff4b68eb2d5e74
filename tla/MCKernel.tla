------------------------------ MODULE MCKernel ------------------------------
(***************************************************************************)
(* The booting kernel on a text screen of two by two.  boot.ini is         *)
(* missing, without a resolution, with one of the wrong form, with one     *)
(* that ends in a carriage return, with one whose width is no int and      *)
(* wraps to 8, and with one whose bits are no int.  A word is of 25 bits,  *)
(* so that TLC can count beyond it.                                        *)
(***************************************************************************)
EXTENDS Boot

MCNumbers == {1, 2, 4, 46, 79, 180}

\* Greetings and boot messages take six characters; a command adds two.
MCStrings   == {<<"a">>, <<NL, "b">>}
MCGreetings == <<<<"g">>, <<"g", NL>>, <<">">>>>

NUL == 0
CR == 13

MCBootInis == {NoFile,
               [settings |-> FALSE, res |-> <<>>],
               [settings |-> TRUE, res |-> <<56, 48, 48, NUL>>],                \* 800
               [settings |-> TRUE, res |-> <<56, LetterX, 52, CR, NUL>>],       \* 8x4\r
               [settings |-> TRUE, res |-> <<51, 51, 53, 53, 52, 52, 52, 48,
                                             LetterX, 52, NUL>>],               \* 33554440x4
               [settings |-> TRUE, res |-> <<50, 48, 52, 56, LetterX,
                                             49, 48, 50, 52, NUL>>]}            \* 2048x1024
=============================================================================
