------------------------------- MODULE MCShell -------------------------------
(***************************************************************************)
(* The shell with three letters and buffers of three characters and a NUL: *)
(* "cls" is ch, "help" is h, ".bat" is b.                                  *)
(***************************************************************************)
EXTENDS Shell

MCLetters == {"c", "h", "b"}
MCCls  == <<"c", "h">>
MCHelp == <<"h">>
MCBat  == <<"b">>
=============================================================================
