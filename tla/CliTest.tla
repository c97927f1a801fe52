------------------------------- MODULE CliTest -------------------------------
(***************************************************************************)
(* `ceedless test` (src/cli/cmd_run.go, runTests and buildOne): every test *)
(* file is built by a goroutine of its own, at most Jobs of them at a time *)
(* behind the semaphore channel; the results are collected when all have   *)
(* finished, and only if all of them built are the programs run, one after *)
(* another in the sorted order, and counted.                               *)
(*                                                                         *)
(* Test files are numbered in sorted order.  The file names under build/   *)
(* depend only on a test's stem, its base name without ".c".  A file's     *)
(* content is the test it was generated from, 0 while it is not complete.  *)
(***************************************************************************)
EXTENDS Integers, Sequences, FiniteSets

CONSTANTS
    NumTests,   \* how many files DiscoverTests found
    Jobs,       \* the -j option, at least 1
    Stems,
    StemOf      \* the stem of each test file

Tests == 1 .. NumTests
Qualities == {"broken", "fails", "passes"}

ASSUME CliAssumption ==
    /\ NumTests \in Nat /\ NumTests > 0
    /\ Jobs \in Nat /\ Jobs > 0
    /\ StemOf \in [Tests -> Stems]

VARIABLES
    quality,    \* does a test compile, and does its program exit with 0?
    pc,         \* where runTests is
    next,       \* the loop variable of its two loops over the tests
    worker,     \* where the goroutine of each test is
    sem, wg,    \* tokens in the semaphore, the WaitGroup's counter
    results,    \* the buffered channel of build results
    closed,     \* has it been closed?
    runner,     \* build/<stem>_runner.c
    input,      \* what the compiler of each test read from its runner file
    bin,        \* build/<stem>
    outcome,    \* what buildOne returned
    built, fails,
    runs,       \* the programs that were run
    status      \* what the command exits with, 2 until it does

files == <<runner, input, bin>>
pool == <<worker, sem, wg, outcome>>
channel == <<results, closed>>
tally == <<built, fails, runs, status>>
vars == <<quality, pc, next, pool, channel, files, tally>>

Init ==
    /\ quality \in [Tests -> Qualities]
    /\ pc = "spawn" /\ next = 1
    /\ worker = [t \in Tests |-> "none"]
    /\ outcome = [t \in Tests |-> "none"]
    /\ sem = 0 /\ wg = 0
    /\ results = << >> /\ closed = FALSE
    /\ runner = [s \in Stems |-> 0] /\ bin = [s \in Stems |-> 0]
    /\ input = [t \in Tests |-> 0]
    /\ built = {} /\ fails = 0 /\ runs = << >> /\ status = 2
-----------------------------------------------------------------------------
(* The first half of runTests.                                             *)
MutSpawn ==
    /\ pc = "spawn" /\ next <= NumTests
    /\ sem' = sem + 1 /\ wg' = wg + 1
    /\ worker' = [worker EXCEPT ![next] = "synth"]
    /\ next' = next + 1
    /\ UNCHANGED <<quality, pc, outcome, channel, files, tally>>

\* sem <- struct{}{} blocks while Jobs goroutines hold a token.
Spawn ==
    /\ pc = "spawn" /\ next <= NumTests
    /\ sem < Jobs
    /\ sem' = sem + 1 /\ wg' = wg + 1
    /\ worker' = [worker EXCEPT ![next] = "synth"]
    /\ next' = next + 1
    /\ UNCHANGED <<quality, pc, outcome, channel, files, tally>>

MutWait ==
    /\ pc = "spawn" /\ next > NumTests
    /\ pc' = "collect" /\ closed' = TRUE
    /\ UNCHANGED <<quality, next, pool, results, files, tally>>

\* wg.Wait(), then close(results).
Wait ==
    /\ pc = "spawn" /\ next > NumTests
    /\ wg = 0
    /\ pc' = "collect" /\ closed' = TRUE
    /\ UNCHANGED <<quality, next, pool, results, files, tally>>

Collect ==
    /\ pc = "collect" /\ results # << >>
    /\ results' = Tail(results)
    /\ IF Head(results).outcome = "error"
       THEN fails' = fails + 1 /\ UNCHANGED built
       ELSE built' = built \cup {Head(results).test} /\ UNCHANGED fails
    /\ UNCHANGED <<quality, pc, next, pool, closed, files, runs, status>>

\* The range over the closed channel ends; one failed build is enough to run
\* nothing.
Collected ==
    /\ pc = "collect" /\ results = << >>
    /\ IF fails > 0
       THEN pc' = "done" /\ status' = 1 /\ UNCHANGED next
       ELSE pc' = "run" /\ next' = 1 /\ UNCHANGED status
    /\ UNCHANGED <<quality, pool, channel, files, built, fails, runs>>
-----------------------------------------------------------------------------
(* buildOne and the goroutine around it.                                   *)
Step(t, from, to) == worker[t] = from /\ worker' = [worker EXCEPT ![t] = to]

\* SynthRunner opens the runner file, which truncates it.
SynthOpen(t) ==
    /\ Step(t, "synth", "write")
    /\ runner' = [runner EXCEPT ![StemOf[t]] = 0]
    /\ UNCHANGED <<quality, pc, next, sem, wg, outcome, channel, input, bin, tally>>

\* A goroutine that sees the loop variable of the loop that started it.
MutSynthWrite(t) ==
    /\ Step(t, "write", "compile")
    /\ runner' = [runner EXCEPT ![StemOf[t]] = next - 1]
    /\ UNCHANGED <<quality, pc, next, sem, wg, outcome, channel, input, bin, tally>>

SynthWrite(t) ==
    /\ Step(t, "write", "compile")
    /\ runner' = [runner EXCEPT ![StemOf[t]] = t]
    /\ UNCHANGED <<quality, pc, next, sem, wg, outcome, channel, input, bin, tally>>

\* SynthRunner cannot scan the test file or write the runner.
SynthFails(t) ==
    /\ Step(t, "synth", "send")
    /\ quality[t] = "broken"
    /\ outcome' = [outcome EXCEPT ![t] = "error"]
    /\ UNCHANGED <<quality, pc, next, sem, wg, channel, files, tally>>

\* The compiler reads the runner file.
CompileRead(t) ==
    /\ Step(t, "compile", "link")
    /\ input' = [input EXCEPT ![t] = runner[StemOf[t]]]
    /\ UNCHANGED <<quality, pc, next, sem, wg, outcome, channel, runner, bin, tally>>

Compiles(c) == c # 0 /\ quality[c] # "broken"

\* The compiler writes the program, or fails and leaves the old one.
CompileWrite(t) ==
    /\ Step(t, "link", "send")
    /\ IF Compiles(input[t])
       THEN /\ bin' = [bin EXCEPT ![StemOf[t]] = input[t]]
            /\ outcome' = [outcome EXCEPT ![t] = "built"]
       ELSE /\ outcome' = [outcome EXCEPT ![t] = "error"]
            /\ UNCHANGED bin
    /\ UNCHANGED <<quality, pc, next, sem, wg, channel, runner, input, tally>>

MutSend(t) ==
    /\ Step(t, "send", "release")
    /\ Len(results) < Jobs
    /\ results' = Append(results, [test |-> t, outcome |-> outcome[t]])
    /\ UNCHANGED <<quality, pc, next, sem, wg, outcome, closed, files, tally>>

\* results <- buildOne(...): the channel has room for every test.
Send(t) ==
    /\ Step(t, "send", "release")
    /\ Len(results) < NumTests
    /\ results' = Append(results, [test |-> t, outcome |-> outcome[t]])
    /\ UNCHANGED <<quality, pc, next, sem, wg, outcome, closed, files, tally>>

\* The deferred calls run in reverse order: <-sem, then wg.Done().
Release(t) ==
    /\ Step(t, "release", "finish")
    /\ sem' = sem - 1
    /\ UNCHANGED <<quality, pc, next, wg, outcome, channel, files, tally>>

\* Done() both deferred and called at the end.
MutWgDone(t) ==
    /\ Step(t, "finish", "finished")
    /\ wg' = wg - 2
    /\ UNCHANGED <<quality, pc, next, sem, outcome, channel, files, tally>>

WgDone(t) ==
    /\ Step(t, "finish", "finished")
    /\ wg' = wg - 1
    /\ UNCHANGED <<quality, pc, next, sem, outcome, channel, files, tally>>

Worker(t) ==
    \/ SynthOpen(t) \/ SynthWrite(t) \/ SynthFails(t)
    \/ CompileRead(t) \/ CompileWrite(t)
    \/ Send(t) \/ Release(t) \/ WgDone(t)
-----------------------------------------------------------------------------
(* The second half of runTests.                                            *)

\* c.Run() of build/<stem>: the program ends with the status of what it was
\* built from.
RunProgram ==
    /\ pc = "run" /\ next <= NumTests
    /\ runs' = Append(runs, [test |-> next, code |-> bin[StemOf[next]]])
    /\ next' = next + 1
    /\ UNCHANGED <<quality, pc, pool, channel, files, built, fails, status>>

Pass == Cardinality({k \in DOMAIN runs : quality[runs[k].code] = "passes"})

MutReport ==
    /\ pc = "run" /\ next > NumTests
    /\ pc' = "done" /\ status' = IF Pass > 0 THEN 0 ELSE 1
    /\ UNCHANGED <<quality, next, pool, channel, files, built, fails, runs>>

Report ==
    /\ pc = "run" /\ next > NumTests
    /\ pc' = "done" /\ status' = IF Pass = Len(runs) THEN 0 ELSE 1
    /\ UNCHANGED <<quality, next, pool, channel, files, built, fails, runs>>

Main == Spawn \/ Wait \/ Collect \/ Collected \/ RunProgram \/ Report

Terminated == pc = "done" /\ UNCHANGED vars

Next == Main \/ (\E t \in Tests : Worker(t)) \/ Terminated

Spec == Init /\ [][Next]_vars

\* The Go scheduler runs every goroutine that can run; compilers and test
\* programs end.
FairSpec == Spec /\ WF_vars(Main) /\ \A t \in Tests : WF_vars(Worker(t))
-----------------------------------------------------------------------------
Holders == {t \in Tests : worker[t] \notin {"none", "finish", "finished"}}

\* The type invariant.
TypeOK ==
    /\ quality \in [Tests -> Qualities]
    /\ pc \in {"spawn", "collect", "run", "done"}
    /\ next \in 1 .. NumTests + 1
    /\ worker \in [Tests -> {"none", "synth", "write", "compile", "link", "send",
                             "release", "finish", "finished"}]
    /\ outcome \in [Tests -> {"none", "built", "error"}]
    /\ sem \in 0 .. Jobs /\ wg \in 0 .. NumTests
    /\ results \in Seq([test : Tests, outcome : {"built", "error"}])
    /\ closed \in BOOLEAN
    /\ runner \in [Stems -> 0 .. NumTests] /\ bin \in [Stems -> 0 .. NumTests]
    /\ input \in [Tests -> 0 .. NumTests]
    /\ built \subseteq Tests /\ fails \in Nat
    /\ runs \in Seq([test : Tests, code : 0 .. NumTests])
    /\ status \in 0 .. 2

\* At most Jobs tests are being built at any time: the tokens in the semaphore
\* are those of the goroutines between spawn and release.
JobsRespected == sem = Cardinality(Holders) /\ sem <= Jobs

\* The result channel is closed only when no goroutine can still send on it,
\* and then holds or has given exactly one result per test.
CloseIsSafe ==
    closed =>
        /\ \A t \in Tests : worker[t] \in {"finish", "finished"}
        /\ Len(results) + Cardinality(built) + fails = NumTests

\* The command succeeds exactly when every test file compiles and its own
\* program passes.
StatusIsTruthful ==
    pc = "done" => (status = 0 <=> \A t \in Tests : quality[t] = "passes")

\* Every program that is run was built from the test it is reported as.
EveryTestRuns ==
    \A k \in DOMAIN runs : runs[k].code = runs[k].test

\* The command ends: no goroutine blocks for ever on a channel.
Terminates == <>(pc = "done")
=============================================================================
