------------------------------ MODULE MCRunner ------------------------------
(* Small programs for Runner: what an overridden suiteTearDown may return. *)
EXTENDS Runner

\* 0 hides the failures from the hook's result, -1 asks for failure.
MCHookResults == {-1, 0}
=============================================================================
