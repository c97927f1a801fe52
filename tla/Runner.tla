------------------------------- MODULE Runner -------------------------------
(***************************************************************************)
(* The test runner of src/src/runner.c and the RUN_TEST_CASE macro of      *)
(* src/include/ceedless/hybrid_runner.h: ceedless_begin, the registration  *)
(* of tests, their execution between setUp and tearDown with assertions    *)
(* leaving by longjmp, the shuffle queue drained by ceedless_end, the      *)
(* report, and the exit status main() returns.                             *)
(*                                                                         *)
(* A registration is one executed RUN_TEST or RUN_TEST_CASE; registrations *)
(* are numbered in the order the program makes them.  What a test does is  *)
(* its Outcomes: it returns, or an assertion leaves it by longjmp.         *)
(***************************************************************************)
EXTENDS Integers, Sequences, FiniteSets

CONSTANTS
    MaxTests,    \* CEEDLESS_MAX_TESTS, 256 by default
    StatusMod,   \* how many exit statuses the platform tells apart (256)
    HookResults, \* what an overridden suiteTearDown may return
    MaxRegs,     \* bound: registrations the program makes
    MaxSuites    \* bound: begin..end pairs the program makes

Outcomes == {"returns", "fails", "ignores", "passes"}
Results == {"pass", "fail", "ignore"}

ASSUME RunnerAssumption ==
    /\ MaxTests \in Nat /\ MaxTests > 0
    /\ StatusMod \in Nat /\ StatusMod > 1
    /\ HookResults \subseteq Int
    /\ MaxRegs \in Nat
    /\ MaxSuites \in Nat

\* A suiteTearDown written by the user asks for failure with a value whose
\* low bits survive the exit status.
ASSUME HookAssumption == \A r \in HookResults : r # 0 => r % StatusMod # 0

VARIABLES
    pc,              \* where the single thread of the test program is
    frame,           \* who armed ceedless_jmp_: "run", "queued" or "case"
    current,         \* the registration being executed (s_current_name)
    total, passed, failed, ignored,
    current_failed, current_ignored,
    cases,           \* s_cases[0 .. s_case_count - 1]
    shuffle_seed,    \* is s_shuffle_seed non-zero?
    pending,         \* s_pending[], 0 where it was never written
    pending_count,
    i, n,            \* the locals of ceedless_end
    result,          \* what ceedless_end returned
    status,          \* the exit status, -1 until main returns
    suites, regs,    \* begins and registrations so far
    base,            \* regs when the current suite began
    reentered,       \* history: has a queued test ever registered another?
    asserted         \* history: registrations in which an assertion failed

counters == <<total, passed, failed, ignored, cases>>
flags == <<current_failed, current_ignored>>
queue == <<pending, pending_count>>
locals == <<i, n>>
program == <<suites, regs, base, reentered>>
outcome == <<result, status>>
vars == <<pc, frame, current, counters, flags, shuffle_seed, queue, locals,
          outcome, program, asserted>>

Slots == 0 .. (MaxTests - 1)
Case == [test : 0 .. MaxRegs, result : Results]

Init ==
    /\ pc = "start" /\ frame = "run" /\ current = 0
    /\ total = 0 /\ passed = 0 /\ failed = 0 /\ ignored = 0
    /\ cases = << >>
    /\ current_failed = FALSE /\ current_ignored = FALSE
    /\ shuffle_seed = FALSE
    /\ pending = [s \in Slots |-> 0] /\ pending_count = 0
    /\ i = 0 /\ n = 0
    /\ result = 0 /\ status = -1
    /\ suites = 0 /\ regs = 0 /\ base = 0 /\ reentered = FALSE
    /\ asserted = {}

-----------------------------------------------------------------------------
(* ceedless_begin.  CEEDLESS_SEED, or a call of ceedless_set_shuffle_seed  *)
(* before it or in suiteSetUp, leaves the seed zero or not.                *)
Begin ==
    /\ pc \in {"start", "ended"} /\ suites < MaxSuites
    /\ pc' = "main"
    /\ total' = 0 /\ passed' = 0 /\ failed' = 0 /\ ignored' = 0
    /\ cases' = << >>
    /\ shuffle_seed' \in BOOLEAN
    /\ suites' = suites + 1 /\ base' = regs /\ asserted' = {}
    /\ UNCHANGED <<frame, current, flags, queue, locals, outcome, regs, reentered>>

\* The program changes the seed between two registrations.
SetShuffleSeed ==
    /\ pc = "main"
    /\ shuffle_seed' \in BOOLEAN
    /\ UNCHANGED <<pc, frame, current, counters, flags, queue, locals, outcome,
                   program, asserted>>

Register ==
    /\ regs < MaxRegs /\ regs' = regs + 1
    /\ UNCHANGED <<suites, base>>

MutEnqueueUnbounded(t) ==
    /\ pending' = [pending EXCEPT ![pending_count] = t]
    /\ pending_count' = pending_count + 1

\* The queueing half of ceedless_run_: a full queue drops the test.
Enqueue(t) ==
    IF pending_count >= MaxTests
    THEN UNCHANGED queue
    ELSE /\ pending' = [pending EXCEPT ![pending_count] = t]
         /\ pending_count' = pending_count + 1

MutExecKeepsFlag(t, by, back) ==
    IF total >= MaxTests
    THEN pc' = back /\ UNCHANGED <<total, flags, current, frame>>
    ELSE /\ total' = total + 1
         /\ current_ignored' = FALSE /\ UNCHANGED current_failed
         /\ current' = t /\ frame' = by
         /\ pc' = "setUp"

MutExecUnbounded(t, by, back) ==
    /\ total' = total + 1
    /\ current_failed' = FALSE /\ current_ignored' = FALSE
    /\ current' = t /\ frame' = by
    /\ pc' = "setUp"

\* The entry of ceedless_exec_, up to the call of setUp; after MaxTests tests
\* it returns to its caller at once.
Exec(t, by, back) ==
    IF total >= MaxTests
    THEN pc' = back /\ UNCHANGED <<total, flags, current, frame>>
    ELSE /\ total' = total + 1
         /\ current_failed' = FALSE /\ current_ignored' = FALSE
         /\ current' = t /\ frame' = by
         /\ pc' = "setUp"

\* RUN_TEST with a seed set.
QueueTest ==
    /\ pc = "main" /\ shuffle_seed
    /\ Register /\ Enqueue(regs + 1)
    /\ UNCHANGED <<pc, frame, current, counters, flags, shuffle_seed, locals,
                   outcome, reentered, asserted>>

\* RUN_TEST inside a running test body with a seed set.
NestedRunTest ==
    /\ pc = "body" /\ shuffle_seed
    /\ Register /\ Enqueue(regs + 1)
    /\ reentered' = (reentered \/ frame = "queued")
    /\ UNCHANGED <<pc, frame, current, counters, flags, shuffle_seed, locals,
                   outcome, asserted>>

\* RUN_TEST without a seed.
RunTest ==
    /\ pc = "main" /\ ~shuffle_seed
    /\ Register /\ Exec(regs + 1, "run", "main")
    /\ UNCHANGED <<passed, failed, ignored, cases, shuffle_seed, queue, locals,
                   outcome, reentered, asserted>>

\* RUN_TEST_CASE: ceedless_begin_case_ counts the case, or returns when the
\* suite is full; either way the macro goes on to setUp and the body.
RunTestCase ==
    /\ pc = "main"
    /\ Register
    /\ IF total >= MaxTests
       THEN UNCHANGED <<total, flags>>
       ELSE total' = total + 1 /\ current_failed' = FALSE /\ current_ignored' = FALSE
    /\ current' = regs + 1 /\ frame' = "case" /\ pc' = "setUp"
    /\ UNCHANGED <<passed, failed, ignored, cases, shuffle_seed, queue, locals,
                   outcome, reentered, asserted>>
-----------------------------------------------------------------------------
(* User code under setjmp.  ceedless_fail_msg_, ceedless_ignore_ and       *)
(* ceedless_pass_ set their flag and longjmp behind the armed setjmp,      *)
(* which is followed by the call of tearDown.                              *)
Leave(o) ==
    /\ current_failed' = (current_failed \/ o = "fails")
    /\ current_ignored' = (current_ignored \/ o = "ignores")
    /\ asserted' = IF o = "fails" THEN asserted \cup {current} ELSE asserted
    /\ UNCHANGED <<frame, current, counters, shuffle_seed, queue, locals,
                   outcome, program>>

SetUp(o) ==
    /\ pc = "setUp" /\ Leave(o)
    /\ pc' = IF o = "returns" THEN "body" ELSE "tearDown"

Body(o) == pc = "body" /\ Leave(o) /\ pc' = "tearDown"

\* An assertion that leaves tearDown jumps to the same setjmp, and tearDown
\* is called again.
TearDown(o) ==
    /\ pc = "tearDown" /\ Leave(o)
    /\ pc' = IF o = "returns" THEN "record" ELSE "tearDown"
-----------------------------------------------------------------------------
\* The precedence both of them give the flags.
Verdict ==
    IF current_failed THEN "fail" ELSE IF current_ignored THEN "ignore" ELSE "pass"

\* The tail of ceedless_exec_ and of ceedless_end_case_.
Conclude ==
    /\ cases' = Append(cases, [test |-> current, result |-> Verdict])
    /\ passed' = passed + (IF Verdict = "pass" THEN 1 ELSE 0)
    /\ failed' = failed + (IF Verdict = "fail" THEN 1 ELSE 0)
    /\ ignored' = ignored + (IF Verdict = "ignore" THEN 1 ELSE 0)

\* ceedless_exec_ stores its case without looking at s_case_count.
Record ==
    /\ pc = "record" /\ frame # "case"
    /\ Conclude
    /\ pc' = IF frame = "queued" THEN "drain" ELSE "main"
    /\ UNCHANGED <<frame, current, total, flags, shuffle_seed, queue, locals,
                   outcome, program, asserted>>

\* ceedless_end_case_ drops the case when s_cases is full.
EndCase ==
    /\ pc = "record" /\ frame = "case"
    /\ IF Len(cases) >= MaxTests
       THEN UNCHANGED <<passed, failed, ignored, cases>>
       ELSE Conclude
    /\ pc' = "main"
    /\ UNCHANGED <<frame, current, total, flags, shuffle_seed, queue, locals,
                   outcome, program, asserted>>
-----------------------------------------------------------------------------
(* ceedless_end: Fisher-Yates over the queue with draws of the PRNG, then  *)
(* the queue is emptied, its old entries are executed in order, and the    *)
(* suite is reported.                                                      *)
End ==
    /\ pc = "main"
    /\ pc' = IF pending_count > 0 THEN "shuffle" ELSE "report"
    /\ i' = IF pending_count > 0 THEN pending_count - 1 ELSE 0
    /\ UNCHANGED <<frame, current, counters, flags, shuffle_seed, queue, n,
                   outcome, program, asserted>>

MutSwap(j) == pending' = [pending EXCEPT ![i] = pending[j]]

Swap(j) ==
    pending' = [pending EXCEPT ![i] = pending[j], ![j] = pending[i]]

Shuffle(j) ==
    /\ pc = "shuffle" /\ i > 0 /\ j \in 0 .. i
    /\ Swap(j)
    /\ i' = i - 1
    /\ UNCHANGED <<pc, frame, current, counters, flags, shuffle_seed,
                   pending_count, n, outcome, program, asserted>>

StartDrain ==
    /\ pc = "shuffle" /\ i = 0
    /\ pc' = "drain" /\ n' = pending_count /\ pending_count' = 0
    /\ UNCHANGED <<frame, current, counters, flags, shuffle_seed, pending, i,
                   outcome, program, asserted>>

MutDrainNextStuck ==
    /\ pc = "drain" /\ i < n
    /\ Exec(pending[i], "queued", "drain")
    /\ UNCHANGED <<i, passed, failed, ignored, cases, shuffle_seed, queue, n,
                   outcome, program, asserted>>

DrainNext ==
    /\ pc = "drain" /\ i < n
    /\ Exec(pending[i], "queued", "drain")
    /\ i' = i + 1
    /\ UNCHANGED <<passed, failed, ignored, cases, shuffle_seed, queue, n,
                   outcome, program, asserted>>

DrainDone ==
    /\ pc = "drain" /\ i >= n
    /\ pc' = "report" /\ i' = 0 /\ n' = 0
    /\ UNCHANGED <<frame, current, counters, flags, shuffle_seed, queue,
                   outcome, program, asserted>>

MutEndResult(rc) == rc

\* suiteTearDown's answer wins when it is not zero.
EndResult(rc) == IF rc # 0 THEN rc ELSE IF failed # 0 THEN 1 ELSE 0

\* suiteTearDown returns its argument, s_failed, unless it is overridden.
Report ==
    /\ pc = "report"
    /\ \E rc \in {failed} \cup HookResults : result' = EndResult(rc)
    /\ pc' = "ended"
    /\ UNCHANGED <<frame, current, counters, flags, shuffle_seed, queue, locals,
                   status, program, asserted>>

\* main returns what ceedless_end returned; the platform keeps its low bits.
Exit ==
    /\ pc = "ended"
    /\ pc' = "exited" /\ status' = result % StatusMod
    /\ UNCHANGED <<frame, current, counters, flags, shuffle_seed, queue, locals,
                   result, program, asserted>>

Terminated == pc = "exited" /\ UNCHANGED vars

UserCode ==
    \E o \in Outcomes : SetUp(o) \/ Body(o) \/ TearDown(o)

\* The steps the runner takes by itself.
RunnerStep ==
    \/ Record \/ EndCase
    \/ \E j \in Slots : Shuffle(j)
    \/ StartDrain \/ DrainNext \/ DrainDone \/ Report

\* The steps main takes.
Main ==
    \/ Begin \/ SetShuffleSeed \/ QueueTest \/ RunTest \/ RunTestCase
    \/ End \/ Exit

Next == Main \/ UserCode \/ NestedRunTest \/ RunnerStep \/ Terminated

Spec == Init /\ [][Next]_vars

\* main's calls are finitely many and end with `return ceedless_end()`; hooks,
\* tests and the runner's own code take their steps.  A tearDown that keeps
\* asserting is called for ever; fairness of UserCode assumes it returns in the
\* end, as a repeated assertion changes no variable.
Fairness ==
    /\ WF_vars(Begin /\ suites = 0) /\ WF_vars(End) /\ WF_vars(Exit)
    /\ WF_vars(UserCode) /\ WF_vars(RunnerStep)

FairSpec == Spec /\ Fairness
-----------------------------------------------------------------------------
Registered == (base + 1) .. regs
RecordedTests == {cases[k].test : k \in DOMAIN cases}
ResultCount(r) == Cardinality({k \in DOMAIN cases : cases[k].result = r})

\* A test that runs has been counted and not yet recorded.  Only a test case
\* started in a full suite is not counted.
Running == pc \in {"setUp", "body", "tearDown", "record"}
Uncounted == frame = "case" /\ Len(cases) = MaxTests

ControlOK ==
    /\ pc \in {"start", "main", "setUp", "body", "tearDown", "record", "shuffle",
               "drain", "report", "ended", "exited"}
    /\ frame \in {"run", "queued", "case"}
    /\ current \in 0 .. MaxRegs
    /\ current_failed \in BOOLEAN /\ current_ignored \in BOOLEAN
    /\ shuffle_seed \in BOOLEAN /\ reentered \in BOOLEAN
    /\ asserted \subseteq 0 .. MaxRegs

CountersOK ==
    /\ total \in Nat /\ passed \in Nat /\ failed \in Nat /\ ignored \in Nat
    /\ cases \in Seq(Case)
    /\ result \in Int /\ status \in Int

QueueOK ==
    /\ pending \in [Slots -> 0 .. MaxRegs]
    /\ pending_count \in 0 .. MaxTests
    /\ i \in 0 .. MaxTests /\ n \in 0 .. MaxTests
    /\ pc = "shuffle" => i < pending_count

ProgramOK == suites \in 0 .. MaxSuites /\ regs \in 0 .. MaxRegs /\ base \in 0 .. regs

\* The type invariant.  ceedless_end indexes s_pending inside the array, and
\* the shuffle only touches slots that were filled.
TypeOK == ControlOK /\ CountersOK /\ QueueOK /\ ProgramOK

\* The counters the result line, the JUnit header and the exit status are made
\* of agree with the cases the JUnit and TAP bodies list: one case per counted
\* test, one less while a counted test runs.  ceedless_exec_ writes
\* s_cases[s_case_count] without a bound check, so this is also what keeps that
\* write inside the array.
Accounting ==
    /\ total = Len(cases) + (IF Running /\ ~Uncounted THEN 1 ELSE 0)
    /\ total <= MaxTests
    /\ passed = ResultCount("pass")
    /\ failed = ResultCount("fail")
    /\ ignored = ResultCount("ignore")

\* A test is recorded as failed exactly when an assertion failed while it ran,
\* in setUp, in its body or in tearDown, whatever came before or after it: a
\* failure never leaks into the next test and is never hidden by an ignore.
VerdictsAreOwn ==
    \A k \in DOMAIN cases : (cases[k].result = "fail") <=> (cases[k].test \in asserted)

\* A program whose last suite recorded a failure exits with a non-zero status,
\* even when suiteTearDown is overridden to return 0.
FailureReachesStatus == pc = "exited" /\ failed > 0 => status # 0

\* When a suite is reported each of its registrations has been recorded once,
\* or the suite is full.
NoTestLost ==
    pc = "report" =>
        \/ Registered \subseteq RecordedTests
        \/ Len(cases) = MaxTests

\* Every test program ends: the queue is drained and every hook returns.
Terminates == <>(pc = "exited")

\* Runner implements the ledger: registrations, verdicts and the exit status of
\* the code under this mapping are a behaviour of SuiteLedger.  No shuffled test
\* is lost or run twice and none gets two verdicts in a suite; only once a queued
\* test has registered another may one be lost, or run in a later suite.
LastVerdict(id) == cases[CHOOSE k \in DOMAIN cases : cases[k].test = id].result

Ledger == INSTANCE SuiteLedger WITH
    Ids <- 1 .. MaxRegs,
    Verdicts <- Results,
    Failure <- "fail",
    Cap <- MaxTests,
    phase <- IF pc \in {"start", "ended"} THEN "closed"
             ELSE IF pc = "exited" THEN "exited" ELSE "open",
    registered <- Registered,
    verdict <- [id \in RecordedTests |-> LastVerdict(id)],
    given <- Len(cases),
    succeeded <- status = 0

LedgerSpec == Ledger!Spec
=============================================================================
