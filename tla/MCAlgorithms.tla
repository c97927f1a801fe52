---------------------------- MODULE MCAlgorithms ----------------------------
(* The words, labels and outputs of small instances of Algorithms.         *)
EXTENDS Algorithms

\* The first two labels share a file: one holds a character that is replaced,
\* and both are longer than a name may be.
MCKept == {"a", "b", "c", "_"}
MCLabels == {<<"a", "_", "c">>, <<"a", "/", "b">>, <<"b">>}
MCDefault == {0, 1}
MCFallback == {1, 3}
MCSeeds == {{}, {0}, {1, 2, 4}, {3}}
MCOutputs == {<< >>, <<0>>, <<0, 0, 0>>, <<0, 0, 1>>, <<1, 0, 0>>}
=============================================================================
