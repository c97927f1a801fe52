----------------------------- MODULE LexicalTry -----------------------------
(***************************************************************************)
(* What Try / Catch / Throw promise, without a frame stack: a Throw goes   *)
(* to the innermost Try block its test is still inside, whose Catch        *)
(* receives the thrown value; with no such block it aborts the program.  A *)
(* Catch reached without a Throw receives None.                            *)
(*                                                                         *)
(* Once an assertion has left a Try block ("leaky") the promise is weaker: *)
(* inside a block nothing changes, but a Throw outside of any block and    *)
(* the entry of another block may be undefined.  ExceptionStack implements *)
(* this specification.                                                     *)
(***************************************************************************)
EXTENDS Naturals

CONSTANTS Values, None

VARIABLES state,    \* "idle" between tests, "running", "unwinding", "aborted",
                    \* and where C is undefined "staleJump" or "overflow"
          depth,    \* how many Try blocks the running test is inside
          inflight, \* the value a Throw is carrying, None when there is none
          caught,   \* what the last Catch stored in its variable
          leaky     \* has an assertion ever left a Try block?

vars == <<state, depth, inflight, caught, leaky>>

Init ==
    /\ state = "idle" /\ depth = 0 /\ inflight = None /\ caught = None
    /\ leaky = FALSE

StartTest ==
    /\ state = "idle"
    /\ state' = "running"
    /\ UNCHANGED <<depth, inflight, caught, leaky>>

Enter ==
    /\ state = "running"
    /\ depth' = depth + 1
    /\ UNCHANGED <<state, inflight, caught, leaky>>

Throw(v) ==
    /\ state = "running"
    /\ IF depth > 0
       THEN state' = "unwinding" /\ inflight' = v
       ELSE state' = "aborted" /\ UNCHANGED inflight
    /\ UNCHANGED <<depth, caught, leaky>>

Catch ==
    /\ \/ state = "unwinding"
       \/ state = "running" /\ depth > 0
    /\ state' = "running" /\ depth' = depth - 1
    /\ caught' = inflight /\ inflight' = None
    /\ UNCHANGED leaky

EndTest ==
    /\ state = "running" /\ depth = 0
    /\ state' = "idle"
    /\ UNCHANGED <<depth, inflight, caught, leaky>>

\* An assertion fails inside a Try block.
Escape ==
    /\ state = "running" /\ depth > 0
    /\ state' = "idle" /\ depth' = 0 /\ leaky' = TRUE
    /\ UNCHANGED <<inflight, caught>>

\* A Throw outside of any block finds a block that was left.
StrayThrow ==
    /\ leaky /\ state = "running" /\ depth = 0
    /\ state' = "staleJump"
    /\ UNCHANGED <<depth, inflight, caught, leaky>>

\* The blocks that were left have used up the frames a nested block needs.
Exhausted ==
    /\ leaky /\ state = "running"
    /\ state' = "overflow"
    /\ UNCHANGED <<depth, inflight, caught, leaky>>

Next ==
    \/ StartTest \/ Enter \/ (\E v \in Values : Throw(v)) \/ Catch \/ EndTest
    \/ Escape \/ StrayThrow \/ Exhausted

Spec == Init /\ [][Next]_vars
=============================================================================
