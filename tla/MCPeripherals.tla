---------------------------- MODULE MCPeripherals ----------------------------
EXTENDS Peripherals

MCBytes == 0 .. 15
MCHookResults == {0, -42}

\* No hook, or one that doubles what it answers.
MCRewrites == {[b \in MCBytes |-> b], [b \in MCBytes |-> (2 * b) % 16]}
=============================================================================
