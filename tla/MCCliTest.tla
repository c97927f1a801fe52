------------------------------ MODULE MCCliTest ------------------------------
(* Three test files for CliTest. *)
EXTENDS CliTest

MCStems == {"alpha", "beta", "gamma"}

\* Base names are all different.
DistinctStems == <<"alpha", "beta", "gamma">>

\* test/a/test_x.c and test/b/test_x.c have the same base name.
SharedStems == <<"alpha", "alpha">>
=============================================================================
