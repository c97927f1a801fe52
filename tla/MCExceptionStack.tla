--------------------------- MODULE MCExceptionStack ---------------------------
(* Small exception codes for ExceptionStack. *)
EXTENDS ExceptionStack

\* Two codes, and CEXCEPTION_NONE thrown by mistake.
MCNone == 9
MCValues == {1, 2, MCNone}
=============================================================================
