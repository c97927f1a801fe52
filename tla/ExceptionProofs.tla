--------------------------- MODULE ExceptionProofs ---------------------------
(***************************************************************************)
(* Try / Catch / Throw for every stack size and every number of tests.     *)
(***************************************************************************)
EXTENDS ExceptionStack, TLAPS

LEMMA InitTyped == Init => TypeOK
BY StackAssumption DEF Init, TypeOK, Slots, Frame

LEMMA StepTyped == TypeOK /\ OwnFramesOnTop /\ [Next]_vars => TypeOK'
<1> SUFFICES ASSUME TypeOK, OwnFramesOnTop, [Next]_vars PROVE TypeOK'
  OBVIOUS
<1> USE StackAssumption DEF TypeOK
<1>1. CASE StartTest
  BY <1>1 DEF StartTest
<1>2. CASE Try
  <2>1. CASE top < StackSize
    <3>1. top \in Slots /\ [test |-> test, level |-> depth + 1, value |-> None] \in Frame
      BY <1>2, <2>1 DEF Try, Slots, Frame
    <3>2. stack' \in [Slots -> Frame]
      BY <1>2, <2>1, <3>1 DEF Try
    <3> QED
      BY <1>2, <2>1, <3>2 DEF Try
  <2>2. CASE ~(top < StackSize)
    BY <1>2, <2>2 DEF Try
  <2> QED
    BY <2>1, <2>2
<1>3. ASSUME NEW v \in Values, Throw(v) PROVE TypeOK'
  <2>1. CASE top <= 0
    BY <1>3, <2>1 DEF Throw
  <2>2. CASE ~(top <= 0)
    <3>1. top - 1 \in Slots /\ stack[top - 1] \in Frame
      BY <2>2 DEF Slots
    <3>2. stack' \in [Slots -> Frame]
      BY <1>3, <2>2, <3>1 DEF Throw, Frame
    <3>3. stack[top - 1].level \in 0 .. StackSize
      BY <3>1 DEF Frame
    <3> QED
      BY <1>3, <2>2, <3>2, <3>3 DEF Throw
  <2> QED
    BY <2>1, <2>2
<1>4. CASE Catch
  <2>1. depth > 0 /\ depth <= top
    BY <1>4 DEF Catch, OwnFramesOnTop
  <2>2. stack[top - 1] \in Frame
    BY <2>1 DEF Slots
  <2>3. stack[top - 1].value \in Int
    BY <2>2 DEF Frame
  <2> QED
    BY <1>4, <2>1, <2>3 DEF Catch
<1>5. CASE EndTest \/ AssertFails
  BY <1>5 DEF EndTest, AssertFails
<1>6. CASE UNCHANGED vars
  BY <1>6 DEF vars
<1> QED
  BY <1>1, <1>2, <1>3, <1>4, <1>5, <1>6 DEF Next, Stopped

\* The frame of the block at level k of the running test.
OwnFrame(k) == stack[top - depth + k - 1]

\* While the test runs, the frames of its blocks carry no value: only the
\* innermost one does, between a Throw and its Catch.
NoValueLeft ==
    /\ pc = "running" => \A k \in 1 .. depth : OwnFrame(k).value = None
    /\ pc = "unwinding" => \A k \in 1 .. depth - 1 : OwnFrame(k).value = None

LEMMA OwnFramesInit == Init => OwnFramesOnTop /\ NoValueLeft
BY DEF Init, OwnFramesOnTop, NoValueLeft

LEMMA OwnFramesStep ==
    TypeOK /\ OwnFramesOnTop /\ NoValueLeft /\ [Next]_vars
      => OwnFramesOnTop' /\ NoValueLeft'
<1> SUFFICES ASSUME TypeOK, OwnFramesOnTop, NoValueLeft, [Next]_vars
             PROVE  OwnFramesOnTop' /\ NoValueLeft'
  OBVIOUS
<1> USE StackAssumption DEF TypeOK, OwnFramesOnTop, NoValueLeft, OwnFrame
<1>1. CASE StartTest
  BY <1>1 DEF StartTest
<1>2. CASE Try
  <2>1. CASE top < StackSize
    <3> DEFINE f == [test |-> test, level |-> depth + 1, value |-> None]
    <3>1. stack'[top] = f /\ \A s \in Slots : s # top => stack'[s] = stack[s]
      BY <1>2, <2>1 DEF Try, Slots
    <3>2. /\ pc = "running" /\ pc' = pc /\ test' = test
          /\ top' = top + 1 /\ depth' = depth + 1
      BY <1>2, <2>1 DEF Try
    <3>3. \A k \in 1 .. depth : /\ top' - depth' + k - 1 = top - depth + k - 1
                                /\ stack'[top - depth + k - 1] = stack[top - depth + k - 1]
      BY <3>1, <3>2 DEF Slots
    <3>4. f.test = test /\ f.level = depth + 1 /\ f.value = None
      OBVIOUS
    <3>5. \A k \in 1 .. depth' : k \in 1 .. depth \/ k = depth + 1
      BY <3>2
    <3>6. stack'[top' - depth' + (depth + 1) - 1] = f
      BY <3>1, <3>2
    <3> HIDE DEF f
    <3>7. ASSUME NEW k \in 1 .. depth'
          PROVE  LET g == stack'[top' - depth' + k - 1]
                 IN  g.test = test /\ g.level = k /\ g.value = None
      <4>1. CASE k \in 1 .. depth
        BY <3>2, <3>3, <4>1
      <4>2. CASE k = depth + 1
        BY <3>4, <3>6, <4>2
      <4> QED
        BY <3>5, <4>1, <4>2
    <3>8. OwnFramesOnTop'
      <4>1. depth' <= top' /\ pc' = "running"
        BY <3>2
      <4> QED
        BY <3>2, <3>7, <4>1
    <3>9. NoValueLeft'
      BY <3>2, <3>7
    <3> QED
      BY <3>8, <3>9
  <2>2. CASE ~(top < StackSize)
    BY <1>2, <2>2 DEF Try
  <2> QED
    BY <2>1, <2>2
<1>3. ASSUME NEW v \in Values, Throw(v) PROVE OwnFramesOnTop' /\ NoValueLeft'
  <2>1. CASE top <= 0
    BY <1>3, <2>1 DEF Throw
  <2>2. CASE top > 0 /\ depth = 0
    BY <1>3, <2>2 DEF Throw, Live
  <2>3. CASE depth > 0
    <3>1. stack[top - 1].test = test /\ stack[top - 1].level = depth
      BY <2>3
    <3>2. /\ pc' = "unwinding" /\ depth' = depth /\ top' = top /\ test' = test
          /\ stack' = [stack EXCEPT ![top - 1].value = v]
      BY <1>3, <2>3, <3>1 DEF Throw, Live
    <3>3. /\ stack'[top - 1].test = test /\ stack'[top - 1].level = depth
          /\ \A s \in Slots : s # top - 1 => stack'[s] = stack[s]
      BY <2>3, <3>1, <3>2 DEF Slots, Frame
    <3>4. \A k \in 1 .. depth - 1 : /\ top - depth + k - 1 \in Slots
                                    /\ top - depth + k - 1 # top - 1
      BY DEF Slots
    <3>5. pc = "running"
      BY <1>3 DEF Throw
    <3> QED
      BY <2>3, <3>1, <3>2, <3>3, <3>4, <3>5
  <2> QED
    BY <2>1, <2>2, <2>3
<1>4. CASE Catch
  <2>1. /\ depth > 0 /\ pc \in {"running", "unwinding"} /\ pc' = "running"
        /\ depth' = depth - 1 /\ top' = top - 1
        /\ stack' = stack /\ test' = test
    BY <1>4 DEF Catch
  <2>2. \A k \in 1 .. depth' : k \in 1 .. depth - 1
                              /\ top' - depth' + k - 1 = top - depth + k - 1
    BY <2>1
  <2>3. ASSUME NEW k \in 1 .. depth - 1
        PROVE  LET g == stack[top - depth + k - 1]
               IN  g.test = test /\ g.level = k /\ g.value = None
    <3>1. k \in 1 .. depth
      BY <2>1
    <3> QED
      BY <2>1, <3>1
  <2> QED
    BY <2>1, <2>2, <2>3
<1>5. CASE EndTest \/ AssertFails
  BY <1>5 DEF EndTest, AssertFails
<1>6. CASE UNCHANGED vars
  BY <1>6 DEF vars
<1> QED
  BY <1>1, <1>2, <1>3, <1>4, <1>5, <1>6 DEF Next, Stopped

Inductive == TypeOK /\ OwnFramesOnTop /\ NoValueLeft

LEMMA InductiveHolds == Spec => []Inductive
<1>1. Init => Inductive
  BY InitTyped, OwnFramesInit DEF Inductive
<1>2. Inductive /\ [Next]_vars => Inductive'
  BY StepTyped, OwnFramesStep DEF Inductive
<1> QED
  BY <1>1, <1>2, PTL DEF Spec

\* ceedless_exc_top_ and every frame are well typed whatever the tests do.
THEOREM TypeCorrect == Spec => []TypeOK
BY InductiveHolds, PTL DEF Inductive

\* Frames leaked by earlier tests never come between a test and its own.
THEOREM OwnFramesHold == Spec => []OwnFramesOnTop
BY InductiveHolds, PTL DEF Inductive

-----------------------------------------------------------------------------
(* Every step of the frame stack is a step of LexicalTry or a stutter,     *)
(* with leaky standing for top # depth.                                    *)

LEMMA LexicalInit == Init => Lexical!Init
BY DEF Init, Lexical!Init

\* A Throw inside a block finds the frame of the innermost one.
LEMMA ThrowInside ==
    ASSUME Inductive, depth > 0, NEW v \in Values, Throw(v)
    PROVE  Lexical!Throw(v)
<1> USE StackAssumption DEF Inductive, TypeOK
<1>1. top - 1 \in Slots /\ stack[top - 1] \in Frame
  BY DEF Slots, OwnFramesOnTop
<1>2. stack[top - 1].test = test /\ stack[top - 1].level = depth
  BY DEF OwnFramesOnTop
<1>3. /\ pc = "running" /\ pc' = "unwinding"
      /\ depth' = depth /\ top' = top /\ caught' = caught
      /\ stack' = [stack EXCEPT ![top - 1].value = v]
  BY <1>1, <1>2 DEF Throw, Live, OwnFramesOnTop
<1>4. stack'[top' - 1].value = v
  BY <1>1, <1>3 DEF Frame
<1> QED
  BY <1>3, <1>4 DEF Lexical!Throw

\* A Throw outside of any block aborts, unless frames were leaked.
LEMMA ThrowOutside ==
    ASSUME Inductive, depth = 0, NEW v \in Values, Throw(v)
    PROVE  Lexical!Throw(v) \/ Lexical!StrayThrow
<1> USE StackAssumption DEF Inductive, TypeOK
<1>1. CASE top <= 0
  BY <1>1 DEF Throw, Lexical!Throw
<1>2. CASE top > 0
  BY <1>2 DEF Throw, Live, Lexical!StrayThrow
<1> QED
  BY <1>1, <1>2

LEMMA LexicalStep ==
    ASSUME Inductive, [Next]_vars
    PROVE  [Lexical!Next]_(Lexical!vars)
<1> USE StackAssumption DEF Inductive, TypeOK
<1>1. CASE StartTest
  <2>1. Lexical!StartTest
    BY <1>1 DEF StartTest, Lexical!StartTest
  <2> QED
    BY <2>1 DEF Lexical!Next
<1>2. CASE Try
  <2>1. Lexical!Enter \/ Lexical!Exhausted
    BY <1>2 DEF Try, Lexical!Enter, Lexical!Exhausted
  <2> QED
    BY <2>1 DEF Lexical!Next
<1>3. ASSUME NEW v \in Values, Throw(v) PROVE [Lexical!Next]_(Lexical!vars)
  <2>1. Lexical!Throw(v) \/ Lexical!StrayThrow
    BY <1>3, ThrowInside, ThrowOutside
  <2> QED
    BY <2>1 DEF Lexical!Next
<1>4. CASE Catch
  <2>1. depth > 0 /\ pc = "running" => stack[top - 1].value = None
    <3> SUFFICES ASSUME depth > 0, pc = "running" PROVE stack[top - 1].value = None
      OBVIOUS
    <3>1. OwnFrame(depth).value = None
      BY DEF NoValueLeft
    <3> QED
      BY <3>1 DEF OwnFrame
  <2>2. Lexical!Catch
    BY <1>4, <2>1 DEF Catch, Lexical!Catch
  <2> QED
    BY <2>2 DEF Lexical!Next
<1>5. CASE EndTest
  <2>1. Lexical!EndTest
    BY <1>5 DEF EndTest, Lexical!EndTest
  <2> QED
    BY <2>1 DEF Lexical!Next
<1>6. CASE AssertFails
  <2>1. depth <= top
    BY DEF OwnFramesOnTop
  <2>2. Lexical!Escape
    BY <1>6, <2>1 DEF AssertFails, Lexical!Escape
  <2> QED
    BY <2>2 DEF Lexical!Next
<1>7. CASE UNCHANGED vars
  BY <1>7 DEF vars, Lexical!vars
<1> QED
  BY <1>1, <1>2, <1>3, <1>4, <1>5, <1>6, <1>7 DEF Next, Stopped

\* Throw reaches the innermost block's Catch with its value, or aborts, for
\* every stack size; only frames that an assertion has leaked can make a Throw
\* outside of any block stray, or the stack too small.
THEOREM LexicalExceptions == Spec => LexicalSpec
<1>1. Init => Lexical!Init
  BY LexicalInit
<1>2. Inductive /\ [Next]_vars => [Lexical!Next]_(Lexical!vars)
  BY LexicalStep
<1> QED
  BY <1>1, <1>2, InductiveHolds, PTL DEF Spec, LexicalSpec, Lexical!Spec
=============================================================================
