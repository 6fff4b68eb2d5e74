------------------------------- MODULE Status -------------------------------
(***************************************************************************)
(* The status codes of ke/status.h.  Kernel functions return them negated. *)
(***************************************************************************)
EXTENDS Integers

LIBREWIN_ALL_OK == 0
EIO      == 1
EINVARG  == 2
ENOMEM   == 3
EBADPATH == 4
EFSNOTUS == 5
ERDONLY  == 6
EISTKN   == 8
=============================================================================
