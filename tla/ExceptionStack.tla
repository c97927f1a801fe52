--------------------------- MODULE ExceptionStack ---------------------------
(***************************************************************************)
(* The frame stack behind Try / Catch / Throw (include/ceedless/           *)
(* exception.h, src/exception.c) under tests that the runner may leave: a  *)
(* failed assertion longjmps from inside a Try block to the runner's own   *)
(* setjmp and the block's frame stays on the stack.                        *)
(*                                                                         *)
(* A frame holds the setjmp that armed it, named by its test and the       *)
(* nesting level of its Try block.  A longjmp to a setjmp whose block has  *)
(* been left, and a Try beyond the end of the stack, are undefined         *)
(* behaviour; the model stops there, in "staleJump" and "overflow".        *)
(***************************************************************************)
EXTENDS Integers

CONSTANTS
    StackSize,    \* CEEDLESS_EXC_STACK, 8 by default
    Values,       \* what a program throws
    None,         \* CEXCEPTION_NONE
    MaxRuns       \* bound: tests the program runs

ASSUME StackAssumption ==
    /\ StackSize \in Nat /\ StackSize > 0
    /\ None \in Int /\ Values \subseteq Int
    /\ MaxRuns \in Nat

VARIABLES
    pc,      \* where the running test is
    test,    \* tests started so far: the current one
    depth,   \* Try blocks it is inside
    stack,   \* ceedless_exc_stack_
    top,     \* ceedless_exc_top_
    caught   \* what the last Catch stored in its variable

vars == <<pc, test, depth, stack, top, caught>>

Slots == 0 .. (StackSize - 1)
Frame == [test : 0 .. MaxRuns, level : 0 .. StackSize, value : Int]

Init ==
    /\ pc = "idle" /\ test = 0 /\ depth = 0
    /\ stack = [s \in Slots |-> [test |-> 0, level |-> 0, value |-> 0]]
    /\ top = 0
    /\ caught = None

StartTest ==
    /\ pc = "idle" /\ test < MaxRuns
    /\ pc' = "running" /\ test' = test + 1
    /\ UNCHANGED <<depth, stack, top, caught>>

MutTryKeepsValue ==
    /\ pc = "running" /\ depth < StackSize
    /\ IF top < StackSize
       THEN /\ stack' = [stack EXCEPT ![top].test = test, ![top].level = depth + 1]
            /\ top' = top + 1 /\ depth' = depth + 1
            /\ UNCHANGED pc
       ELSE /\ pc' = "overflow"
            /\ UNCHANGED <<stack, top, depth>>
    /\ UNCHANGED <<test, caught>>

\* Try writes the frame at ceedless_exc_top_ without looking at the bound.
\* Bound of the model: a test nests at most StackSize blocks, which is what
\* exception.h says is supported.
Try ==
    /\ pc = "running" /\ depth < StackSize
    /\ IF top < StackSize
       THEN /\ stack' = [stack EXCEPT ![top] =
                           [test |-> test, level |-> depth + 1, value |-> None]]
            /\ top' = top + 1 /\ depth' = depth + 1
            /\ UNCHANGED pc
       ELSE /\ pc' = "overflow"
            /\ UNCHANGED <<stack, top, depth>>
    /\ UNCHANGED <<test, caught>>

\* The setjmp of a frame can be jumped to while its Try block is being run.
Live(f) == f.test = test /\ f.level \in 1 .. depth

\* ceedless_exc_throw.
Throw(v) ==
    /\ pc = "running"
    /\ IF top <= 0
       THEN pc' = "aborted" /\ UNCHANGED <<stack, depth>>
       ELSE /\ stack' = [stack EXCEPT ![top - 1].value = v]
            /\ IF Live(stack[top - 1])
               THEN pc' = "unwinding" /\ depth' = stack[top - 1].level
               ELSE pc' = "staleJump" /\ UNCHANGED depth
    /\ UNCHANGED <<test, top, caught>>

MutCatchKeepsFrame ==
    /\ pc = "unwinding" \/ (pc = "running" /\ depth > 0)
    /\ UNCHANGED top
    /\ caught' = stack[top - 1].value
    /\ depth' = depth - 1 /\ pc' = "running"
    /\ UNCHANGED <<test, stack>>

MutCatchPopsTwice ==
    /\ pc = "unwinding" \/ (pc = "running" /\ depth > 0)
    /\ top' = top - 2
    /\ caught' = stack[top - 1].value
    /\ depth' = depth - 1 /\ pc' = "running"
    /\ UNCHANGED <<test, stack>>

\* The Catch macro, after the Try body returned or after a Throw.
Catch ==
    /\ pc = "unwinding" \/ (pc = "running" /\ depth > 0)
    /\ top' = top - 1
    /\ caught' = stack[top - 1].value
    /\ depth' = depth - 1 /\ pc' = "running"
    /\ UNCHANGED <<test, stack>>

\* The test function returns.
EndTest ==
    /\ pc = "running" /\ depth = 0
    /\ pc' = "idle"
    /\ UNCHANGED <<test, depth, stack, top, caught>>

\* ceedless_fail_msg_ (or TEST_IGNORE, TEST_PASS) inside a Try block: longjmp
\* to the runner, which knows nothing of ceedless_exc_top_.
AssertFails ==
    /\ pc = "running" /\ depth > 0
    /\ pc' = "idle" /\ depth' = 0
    /\ UNCHANGED <<test, stack, top, caught>>

\* All tests have run, or the program was aborted or is undefined.
Stopped ==
    /\ \/ pc = "idle" /\ test = MaxRuns
       \/ pc \in {"aborted", "staleJump", "overflow"}
    /\ UNCHANGED vars

Next ==
    \/ StartTest \/ Try \/ (\E v \in Values : Throw(v)) \/ Catch
    \/ EndTest \/ AssertFails \/ Stopped

Spec == Init /\ [][Next]_vars
-----------------------------------------------------------------------------
\* The type invariant.
TypeOK ==
    /\ pc \in {"idle", "running", "unwinding", "aborted", "staleJump", "overflow"}
    /\ test \in 0 .. MaxRuns
    /\ depth \in 0 .. StackSize
    /\ stack \in [Slots -> Frame]
    /\ top \in 0 .. StackSize
    /\ caught \in Int

\* However many frames earlier tests left behind, the frames of the running
\* test are the ones on top, innermost last: inside a Try block a Throw always
\* finds the innermost block, never one that was left.
OwnFramesOnTop ==
    /\ depth <= top
    /\ \A k \in 1 .. depth :
         LET f == stack[top - depth + k - 1]
         IN  f.test = test /\ f.level = k
    /\ pc = "unwinding" => depth > 0
    /\ pc = "idle" => depth = 0

\* A Throw outside any Try block aborts; it never jumps to a block that has
\* been left.
UncaughtAborts == pc # "staleJump"

\* The frame stack gives tests lexical exceptions: a Throw inside a Try block
\* reaches the innermost Catch with its value, one outside aborts, and Catch
\* never reports an old value.  Only after an assertion has left a Try block can
\* a Throw outside of any block, or a nested Try, go wrong; without such a leak
\* StackSize nested blocks always fit, although Try does not check it.
Lexical == INSTANCE LexicalTry WITH
    state <- pc,
    inflight <- IF pc = "unwinding" THEN stack[top - 1].value ELSE None,
    leaky <- top # depth

LexicalSpec == Lexical!Spec
=============================================================================
