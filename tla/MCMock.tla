------------------------------- MODULE MCMock -------------------------------
(* A mock with two argument values and one of everything else. *)
EXTENDS Mock, TLC

CONSTANTS a1, a2

MCArgs == {a1, a2}
MCRets == {"ret"}
MCCodes == {"code"}
MCData == {"data"}
MCZero == "zero"
MCNothing == "nothing"

\* The specification treats all arguments alike.
ArgSymmetry == Permutations(MCArgs)
=============================================================================
