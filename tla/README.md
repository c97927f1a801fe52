# A TLA+ verification of ceedless

`ceedless` is a unit-test framework for embedded C: a runtime library (runner,
assertions, exceptions, mocks, virtual peripherals, trace output) that is linked
into every test program, and a Go command-line tool that discovers, builds and
runs those programs. This directory models both, checks the models with TLC and
proves the most important results with TLAPS.

A test framework has one promise above all others: **a failure is never
reported as a success.** Most properties below are a part of it: a verdict is
the test's own, no test is lost, a verified mock was called as expected, a
`Throw` ends where the program text says, an assertion accepts what its name
says, a report is of the run it claims to be of, the exit status tells the
truth, and the virtual devices the assertions look at neither lose nor invent
bytes.

Paths are relative to the repository; line numbers are in `PROJECT.json` under
`map`.

## 1. Inventory

| Component | State it keeps | Operations | Interacts with | Hard behaviours |
|---|---|---|---|---|
| Test runner, `src/runner.c`, `include/ceedless/hybrid_runner.h` | counters, case table `s_cases`, verdict flags, `jmp_buf`, shuffle queue `s_pending`, seed | `ceedless_begin`, `RUN_TEST`, `RUN_TEST_CASE`, `ceedless_end`, the assertion exits, hooks | trace port, exceptions and mocks through `longjmp`, the exit status | non-local exits, re-entry while the queue is drained, full tables, status modulo 256 |
| Assertion predicates, same files | none | integer, bit, array, string, memory and floating-point assertions | the runner's flags | widths and signs decoded twice, overflow, NaN, the element limit |
| Golden files, same file | files under `tests/golden` | capture, update, compare | the runner; earlier programs | short writes, crashes, labels that share a file, the last chunk |
| PRNG, same file | `s_rand_state`, `s_shuffle_seed` | seed, draw | shuffle, `TEST_PROPERTY` | the state 0, short cycles |
| Exceptions, `src/exception.c`, `exception.h` | `ceedless_exc_stack_`, `ceedless_exc_top_` | `Try`, `Catch`, `Throw` | the runner's `longjmp` leaves `Try` blocks behind the stack's back; mocks throw | leaked frames, stale `jmp_buf`s, overflow |
| Mocks, `src/mock.c`, `mock.h` | records, `head`, `count`, modes | expect family, ignore, stub, invoke, verify, reset | fails tests through the runner, throws through the exceptions | a failing call has used its record; state outlives the test |
| Register bank and I2C, `src/virtual_peripheral.c` | registers, counters, cursor | read, write, master write/read | driver under test, hooks | rejected and out-of-range accesses |
| UART, SPI, GPIO, ADC, `src/peripherals/` | rings, logs, masks, sample indices | see the headers | driver under test, test | wrap-around, full buffers, reset, switches in the middle of a sweep |
| Trace port and backends, `src/trace/` | capture buffer `s_buf`, `s_len`; none in the others | write, puts, printf, clear | everything that prints; UART, RTT, ITM, semihosting | truncation, the NUL, chunks, a port that is disabled or full |
| `ceedless test`, `cli/cmd_run.go` | goroutines, semaphore and result channels, WaitGroup, files in `build/` | build in parallel, collect, run one by one, report | compiler, test programs | interleavings, shared file names, partial failure, blocking |
| Discovery and runner generation, `cli/discover.go` | pending `TEST_CASE` lines, the runner file | `DiscoverTests`, `ScanTestEntries`, `SynthRunner` | called by the goroutines of `ceedless test` | annotations paired with the wrong function |
| watch, bench, cov, report, `cli/cmd_extra.go`, `cli/cmd_report.go` | snapshot of file times, report files | poll, run, aggregate | `ceedless test`, the user | files left by earlier runs, edits during a run, interruption |
| Configuration, `cli/config.go` | the group a line is in, the settings | `LoadConfig` | every command | the group across lines, defaults |
| Scaffolding, mock and fuzz generators, docker, doctor, examples, CMake | none | text in, text out | external tools | none |

What makes each correct, as the properties below say it: the runner accounts for
every test and its status follows; the exception stack implements lexical
exceptions; a verification that passes means that all expectations were met; the
command builds each test in its own program, within its job limit, and ends; the
commands around it show the run they made; a virtual device is the queue or the
log its header describes; the parts that compute agree with a definition that
does not compute the way they do.

## 2. Modules

```
SuiteLedger  <-- refined by -- Runner         -- RunnerProofs,    MCRunner
LexicalTry   <-- refined by -- ExceptionStack -- ExceptionProofs, MCExceptionStack
                               Mock           -- MockProofs,      MCMock
                               CliTest        -- CliProofs,       MCCliTest
                               CliLoop        -- CliLoopProofs
ByteQueue    <-- refined by -- VpUart (Ring)  -- UartProofs \
                               VpSpi (Ring, VpDevice)        |
                               VpI2c (VpDevice)              |  Peripherals  -- PeripheralProofs,
                               VpGpio, VpAdc                 |                  MCPeripherals
                               TraceBuffer, TraceBackends   /
RegisterBank <-- extended by -- VpDevice
GoldenFiles  <-- extended by -- Golden                      \
Xorshift     <-- extended by -- Prng                         |  Algorithms   -- AlgorithmProofs,
                               Assertions, Discover, Config /                   MCAlgorithms
```

Operators named `Mut...` are wrong variants of the definition they precede. They
are part of no specification; put in place of the right one they break the
property they were written for, which shows that the property can fail.

### SuiteLedger, Runner

`Runner` is one test program: `main` calls `ceedless_begin`, registers tests,
calls `ceedless_end` and returns its result; it may do so for several suites.
`pc` is the place of the program's only thread. Variables carry the names of the
statics of `runner.c` without their `s_`.

| Action | Code |
|---|---|
| `Begin` | `ceedless_begin`; the seed is whatever `CEEDLESS_SEED` and `suiteSetUp` left |
| `SetShuffleSeed` | the function of the same name, called between the registrations |
| `QueueTest`, `NestedRunTest` | `ceedless_run_` with a seed set, called by main or by a running test |
| `RunTest` | `ceedless_run_` without a seed, up to the call of `setUp` |
| `RunTestCase` | the macro of the same name, `ceedless_begin_case_` included |
| `SetUp`, `Body`, `TearDown` | user code; an assertion sets its flag and leaves by `longjmp` |
| `Record`, `EndCase` | the ends of `ceedless_exec_` and `ceedless_end_case_` |
| `End`, `Shuffle`, `StartDrain`, `DrainNext`, `DrainDone`, `Report` | `ceedless_end` |
| `Exit` | `return ceedless_end();` in `main` |

A test is the number of its registration; what it does is one of four outcomes
(it returns, fails, ignores itself, passes itself early). Draws of the PRNG are
any draws, so every shuffle is explored.

`SuiteLedger` is the same without hooks, queue, flags or jumps: registered tests
get one verdict each, and the status follows from the verdicts. `LedgerSpec`
says that `Runner` implements it. A queued test that registers another breaks a
part of the promise in the code (section 5), so the ledger has a flag
`reentered`: until it is set no registered test is lost, once it is set what is
left is that no test gets two verdicts, that there are no more of them than the
table holds, and that the status follows from them.

### LexicalTry, ExceptionStack

`ExceptionStack` has the frame array and its top, the macros `Try` and `Catch`
(with their missing bound check and their read behind the popped top), `Throw`,
and several tests one after another. `AssertFails` is the runner's `longjmp` out
of a `Try` block. A frame is named by the test and nesting level that armed it,
which decides whether its `jmp_buf` may still be jumped to. Where C is undefined
(a jump into a left block, a write behind the array) the model stops in a
`pc` of its own.

`LexicalTry` states exceptions as the header describes them, without a stack.
It too knows that an assertion may leave a block (`leaky`): from then on a
`Throw` outside of any block may stray and a block may find the array used up,
but a `Throw` inside a block still reaches the innermost `Catch`. The refinement
holds without further assumptions.

### Mock

One `mock_t` used by a sequence of tests. The ways an expectation compares
arguments (bytes, any, a matcher) are each a set of accepted arguments. `Invoke`
follows the order of `mock_invoke`: stub, ignore, no record left, record used up
and then compared. `answered` and `last` are history.

### CliTest, CliLoop

`CliTest` is `runTests` and `buildOne`: one process per goroutine, with one step
per effect another goroutine can see (truncating the runner file, writing it,
the compiler's read of it, its output, the send, the two deferred releases) and
the main goroutine's loops. Files are named by stem, as in the code; their
content is the test they came from.

`CliLoop` is one level up: the user edits, creates and deletes test files at any
time, starts `test`, `watch`, `bench`, `cov` and `report` with or without the TAP
format and a JUnit directory, and may interrupt a command anywhere. The build is
sequential here, as its interleavings are `CliTest`'s subject; in turn the model
has what the commands read of each other:

* the JUnit file of every program. Only a program that reaches `ceedless_end`
  writes it, and only if it can open it; one that is interrupted may leave it
  cut. It holds the verdict of the tests: a program of quality `"late"` fails in
  `suiteTearDown`, when the file is already written.
* `build/report.tap`, and whether the last test run wrote it.
* coverage. The data file a program writes when it exits (`gcda`), the `.gcov`
  file that gcov makes of a source (`gcov`) and that source's row on the page
  (`html`) are each the number of the command they are of. As in `runGcov`, gcov
  reads every data file there is, also those of tests that are gone, and may
  fail without notice; the file of a source that all programs link (`Common`) is
  of the last data read. `ceedless gcov` has no command of its own, as it is a
  `cov` that ends before its page. What the compiler and gcov do is taken from
  how `runGcov` uses them: data of an earlier build are replaced, not added to.

### Virtual peripherals and trace backends

`Ring` is the arithmetic both rings share, `RegisterBank` and `VpDevice` the
bank. Bytes are numbered in the order they are offered, so a property can say
which byte is where; no code path looks at a byte's value, but the test's own
hook `on_read` may rewrite the bytes that answer a read. What it does to each is
one of the functions `Rewrites`; a buffer may also be `NULL`. The I2C model keeps
a log of what the master sent and, with each byte the master got, what the hook
did to it, so that reads are compared with the log and not with the registers
they come from. `ByteQueue` is what
each direction of the UART promises. `VpAdc` numbers the samples a generator is
asked for. `TraceBuffer` is the capture backend behind the truncation of
`trace_printf`; `TraceBackends` has the five others, each handing a write to its
device in its own way, among them the ITM's wait for its FIFO, during which the
debugger may disable the port.

The devices share no state. `Peripherals` therefore joins all seven modules and
lets a behaviour use one of them: nothing is lost over a product, one model
checks all of them, and one invariant has a part for each.

### The parts that compute

`Assertions` has every predicate on bit patterns of a small `long long`, on
arrays and on a small model of doubles in which `Inf` and `NaN` are values of
their own. `Golden` has the files on disk over any number of programs, each of
which may write only a part of a file before it stops; `GoldenFiles` the naming
of files and the comparison in chunks. `Xorshift` represents a word by the set
of its one bits, so that a shift and an exclusive or are set operations that a
prover can reason about; `Prng` has the state and its seeds. `Discover` reads a
test file line by line, `Config` a `project.yml`. `Algorithms` joins them as
`Peripherals` does the devices.

## 3. Runs

Each run finishes within two minutes.

| Run | Checks | Bounds and why they suffice |
|---|---|---|
| `runner_safety` | `TypeOK`, `Accounting`, `VerdictsAreOwn`, `FailureReachesStatus`, `Terminates`, `LedgerSpec` | Two slots, four registrations, two suites: the table and the queue fill and drop, a third test meets the full table, a nested registration meets both an empty and a part-drained queue, a second suite sees what the first left, and every order of a shuffle of two is taken. Three statuses for a table of two slots, so that every number of failures has a status of its own; `runner_status_wrap` has one status fewer. |
| `exc_leaks` | `TypeOK`, `OwnFramesOnTop`, `LexicalSpec` | Three frames and three tests: leaks of two tests meet a nested third, and use the array up. The thrown values include `CEXCEPTION_NONE`. |
| `mock_verify` | `TypeOK`, `VerifiedMeansMatched` | Two records and three calls between resets, two tests: full table, calls beyond the expectations, mismatch and retry in the next test, modes switched in between. Arguments are interchangeable (symmetry). |
| `cli_build` | `TypeOK`, `JobsRespected`, `CloseIsSafe`, `StatusIsTruthful`, `EveryTestRuns`, `Terminates` | Three tests and two jobs: one must wait for a token; all mixtures of broken, failing and passing tests. |
| `cli_loop` | `TypeOK`, `BenchRowsAreFresh`, `CoverageIsOfThisRun`, `ReportOfSuccess`, `WatchCatchesUp` | Two test files in every mixture of six qualities, one edit and two commands: the edit falls before, into every phase of, and between the commands, and the second command meets the files of the first, finished or interrupted. `MaxFlags = 1`: a command has the TAP format or a JUnit directory, not both, as no code looks at the two together. |
| `peripherals` | `TypeOK` and eight properties of the devices | Three slots: a ring wraps after two bytes; calls of up to four bytes overrun it in one go. The bank has four registers and pointers up to 4, so transfers of up to three bytes end at, cross and start behind its end; four transactions are enough for two overlapping writes, a read that fails and one that goes on. The hook leaves a byte alone or doubles it. Two pins and two log entries against three writes. Six characters against ten. Two ADC channels and one out of range, a resolution below and above the word's width. Chunks of two against writes of five bytes. |
| `algorithms` | nine properties of the parts that compute | Three-bit `long long`s with casts to two bits and to the full width, arrays of up to two elements around an element limit of one, doubles in steps of half a unit. Five outputs, two of which share their beginning, in chunks of two: empty, shorter than, as long as and longer than a chunk. Three labels, two of which share a file. Files of four lines and `project.yml`s of three, every sequence of line kinds. Words of five bits and every state from four seeds. |

Five runs end in a violation on purpose; section 5 explains them.

What the properties mean:

* `Accounting`: the counters of the result line and the cases of the JUnit and
  TAP files always agree. As `ceedless_exec_` writes `s_cases[s_case_count]`
  without a bound check, this relation also keeps the write inside the array.
* `VerdictsAreOwn`: a recorded failure is that of an assertion which failed
  while this test ran, and each such failure is recorded, although the flags are
  globals, `tearDown` can set them after the body has ignored itself, and a
  nested registration runs between them.
* `FailureReachesStatus`: no override of `suiteTearDown` can turn a recorded
  failure into a success.
* `LedgerSpec`: no shuffled test is lost or run twice.
* `OwnFramesOnTop`, `LexicalSpec`: frames that earlier tests left on the stack
  never catch what a later test throws inside a `Try` block, and a `Catch` gets
  the value of its own `Throw` or none.
* `VerifiedMeansMatched`: if `mock_verify` lets the test go on, each
  expectation was met by an accepted call, in order.
* `JobsRespected`, `CloseIsSafe`: the semaphore counts exactly the goroutines
  being built, nobody can send on the closed channel, and each test has given
  one result.
* `StatusIsTruthful`, `EveryTestRuns`: the command succeeds exactly when each
  test file builds and passes, and what ran under a test's name is that test.
* `BenchRowsAreFresh`: rows printed by a `bench` that succeeds are of the run it
  made, although the file they come from is found on disk.
* `CoverageIsOfThisRun`: the page of a `cov` that succeeds has rows of its own
  run for every program it ran, although data and `.gcov` files of runs that
  failed, crashed or were interrupted lie beside them and are read too.
* `ReportOfSuccess`: after a command that succeeds, `report` shows every program
  it ran as passed, whatever was in the files before, unless a program could not
  open its own.
* `WatchCatchesUp`: an edit made while `watch` builds or runs is not missed.
* `NoSilentLoss`, `DirectionsAreQueues`: a UART direction is a queue, and a lost
  byte leaves a counted overrun behind.
* `ReadsGiveLastSent`: what the I2C master reads is, byte by byte from where it
  set the pointer, what `on_read` makes of the last byte it sent to that
  register. Transfers that fail in between neither move the pointer nor change
  the bank, except a write that `on_write` rejects, which has been stored.
* `NothingInvented`: SPI answers are the loaded bytes in order, once, and bytes
  from before a reset never come back.
* `OutputReadsBack`: GPIO writes survive modes, pulls and a full event log.
* `SweepContinues`: an ADC generator is asked for consecutive samples, counted
  over every conversion of its channel.
* `TextIsTrace`, `ShownIsWritten`: the captured string is a prefix of what was
  printed, and the other backends show what was written, in order and once.
* `IntegersAgree`, `ArraysCompareElements`, `FloatsAgree`: an assertion accepts
  exactly the operands that arithmetic, elementwise equality or the tolerance
  accepts; what is excepted is in section 5.
* `FilesAreCaptures`, `ComparesWithCapture`: a golden file is a beginning of its
  last capture, and a comparison accepts exactly the label's own whole capture.
* `EntriesAreTheTests`: every `TEST_CASE` with a function behind it and every
  bare test function is run once, with the right function and its own label.
* `SettingsAreLastGiven`: a setting is what the last line of its section gives.
* `NeverZero`, `DrawsDoNotRepeat`: no seed brings the generator to 0 or onto a
  cycle it is not on.

**Fairness.** Three runs check liveness. A test program is sequential: `Runner`
assumes that main reaches its `return ceedless_end()`, that user code makes
progress, and that the runner's own steps happen. User code includes `tearDown`:
one that asserts each time it is called is called for ever, and `Terminates`
assumes there is none. `CliTest` assumes weak fairness of the main goroutine and
of each worker, which Go's scheduler gives every goroutine that can run, and
that compilers and test programs end. `CliLoop` assumes the same of a command's
steps and nothing of the user. The other specifications have no fairness.

**Constant assumptions.** `HookAssumption` says that an overridden
`suiteTearDown` does not return a non-zero value whose low eight bits are zero;
a user who does so asks for the status he gets. `PrngAssumption` says that the
three shifts and the two constants in place of 0 are not 0; `GoldenAssumption`
that chunks are not empty; `RingAssumption` that a ring has two slots or more.
`BankAssumption` says that a bank is not empty, that a byte can be other than 0,
and that a device may be without hooks; that hooks leave the bank, the counters
and the pointer alone is a choice of the model. `I2cAssumption` says that there
is a byte for each position of each write, which lets the log tell them apart.
`PeripheralsAssumption` says that buffers and chunks are not empty,
`AlgorithmsAssumption` that the sized assertions are for widths up to that of
`long long`. Both also state what the provers do not know of powers of two,
`2 ^ 0 = 1` and `2 ^ n = 2 * 2 ^ (n - 1)`; TLC evaluates it with the rest.
The other assumptions are the types of the constants.

## 4. Theorems

Proved by TLAPS for all values of the constants, under the assumptions the
modules state:

| Theorem | Statement | Argument |
|---|---|---|
| `RunnerProofs!TypeCorrect` | `Spec => []TypeOK` | `TypeOK` is inductive. Its parts about program, queue, control and counters have a lemma each; the queue needs `i < pending_count` during the shuffle. |
| `RunnerProofs!AccountingHolds` | `Spec => []Accounting` | Inductive together with `TypeOK`. Appending a case raises the cardinality of its own result's positions by one (`CountAppend`); a suite that is full makes `Exec` return, and an uncounted case is dropped. |
| `RunnerProofs!StatusCorrect` | `MaxTests < StatusMod` implies `Spec => []FailureReachesStatus` | From `Accounting`, `failed <= MaxTests` (`CountBound`), so its residue is not zero; `HookAssumption` covers overrides. The hypothesis is what the default build (256 tests, 256 statuses) misses by one. |
| `RunnerProofs!VerdictsOwn` | `Spec => []VerdictsAreOwn` | `OwnInv`: the failure flag of a counted running test says whether one of its assertions failed (`FlagsAreOwn`), and no registration that waits in the queue has run (`QueueFresh`, for the two parts of the queue that the drain and a nested registration use). Without the second a test could run twice, and its first verdict would no longer agree with its assertions. |
| `RunnerProofs!LedgerHolds` | `MaxTests < StatusMod` implies `Spec => LedgerSpec` | Each step maps to a step of `SuiteLedger` or a stutter, with `OwnInv`, the invariant of `StatusCorrect` and `LedgerInv`: no two cases are of one test (`Once`), slots that will be run hold registrations (`Named`), and until a queued test registers another, each registration of the suite is recorded, running or waiting, unless what is counted and what waits together fill the suite (`KeptInv`). The second alternative is what a full queue, which drops a registration, leaves behind. |
| `ExceptionProofs!TypeCorrect`, `OwnFramesHold` | `Spec => []TypeOK`, `Spec => []OwnFramesOnTop` | `Inductive` adds `NoValueLeft`: between a `Try` and its `Throw` a frame carries no value. `TypeOK` alone is not inductive, as `top - 1` is an index only because the running test's frames are there. |
| `ExceptionProofs!LexicalExceptions` | `Spec => LexicalSpec` | Each step maps to a step of `LexicalTry` or a stutter, `leaky` standing for `top # depth`; a refinement for every stack size, leaks included. |
| `MockProofs!TypeCorrect`, `RecordsInBounds` | `Spec => []TypeOK`; records fit the array, used ones are among them | By the actions; `ReturnThruPtr` on an empty mock is the one that appends outside `Queue`. What a call returns was put into its record by an expectation. |
| `MockProofs!VerifyMeansMatched` | `ResetsFirst` implies `Spec => []VerifiedMeansMatched` | `MatchInv`: a test that has not failed has matched all used records in order. A failing call breaks this, but ends the test; the next one resets. |
| `CliProofs!TypeCorrect`, `JobsHold`, `CloseHolds` | `Spec => []TypeOK`, `[]JobsRespected`, `[]CloseIsSafe` | `PoolInv`: the semaphore counts the goroutines between spawn and release, the WaitGroup those that live (`Counted`), all tests before `next` were started (`Progress`), and the results, the built tests and the failures are together the tests that have sent (`Tallied`, which needs that no test is in the channel twice). `wg = 0` then leaves no goroutine. |
| `CliProofs!OwnPrograms`, `StatusHolds` | `StemsDiffer` implies `Spec => []EveryTestRuns`, `[]StatusIsTruthful` | `OwnInv` adds that what a goroutine left in its files is there when it comes back to them (`Builds`): this is where the hypothesis is used, and `cli_same_stem` shows that it is needed. |
| `CliLoopProofs!LoopTypes`, `BenchHolds`, `CoverageHolds`, `ReportHolds` | `Spec => []TypeOK`, `[]BenchRowsAreFresh`, `[]CoverageIsOfThisRun`, `[]ReportOfSuccess` | `LoopInv`: programs are run only when every test has compiled, and outside its two loops `runTests` has left nothing behind (`RunKnown`); a command that returns without an error in the TAP format has written the file itself, unless it could not be created (`RowsFresh`); as long as all programs have passed, each that was run has left its data and its JUnit file, and gcov has made of them the files of this run (`FilesLeft`). For a common source that is so because the last data read are of this run when all are (`LastProgram`). An interruption anywhere keeps all of it, as it forgets the run. |
| `AlgorithmProofs!CapturesHold`, `ComparesHold` | `GoldenSpec => []FilesAreCaptures`, `GoldenSpec => ComparesWithCapture` | `GoldenInv` is the types and `Cut`. Comparing sizes and chunks is equality (`SameIsEqual`), as every byte lies in the chunk that starts at its offset's multiple (`ChunkOf`). |
| `AlgorithmProofs!ZeroNeverDrawn`, `DrawsCycle` | `PrngSpec => []NeverZero`, `PrngSpec => DrawsDoNotRepeat` | A step is injective (`ScrambledInjective`): of two words that differ the least bit in which they do survives `x ^= x << n`, the greatest survives `x ^= x >> n`. As 0 leads to 0, nothing else does. `PrngInv` adds that every draw but the first has a predecessor among the draws that is not the current state. |
| `AlgorithmProofs!IntegersHold` | `Spec => []IntegersAgree` | One lemma for each way an assertion decides. A cast keeps the remainder, and two words of `w` bits with the same remainder modulo `2 ^ w` are one (`RemainderUnique`, `SameRemainder`), whichever sign they are read with; the mask of `TEST_ASSERT_EQUAL_HEX` compares low bits, which agree where the remainders do (`LowBits`, by induction over the bits with `HalfStep`); the negated difference of `within` is its distance wherever that fits (`WithinAgrees`). |
| `AlgorithmProofs!ArraysHold`, `FloatsHold` | `Spec => []ArraysCompareElements`, `[]FloatsAgree` | Reading an element in its width is injective (`AsIntInjective`), whatever sign is chosen, so comparing what is read compares the elements, and beyond the length of the macro's buffer the bytes are compared as they are. The distance of two doubles is finite exactly where both are (`Distances`), and every comparison with NaN is false. |
| `AlgorithmProofs!EntriesHold` | `Spec => []EntriesAreTheTests` | `ScanInv`: `pending` holds exactly the `TEST_CASE` lines behind which no function with parameters has come, in the order of the file (`PendingWaits`); every other one is an entry with its function (`EntriesAttached`), in order, under labels that rise (`EntriesInOrder`); bare entries are as many as the bare functions that no `TEST_CASE` took (`BareOnce`). A line with parameters empties `pending` and makes as many entries (`AttachAppends`). |
| `AlgorithmProofs!SettingsHold` | `Spec => []SettingsAreLastGiven` | `GroupIsHeading`: the variable `group` is the heading above the next line, if that opened a section. With it, what a line gives is known when it is read (`NewLineGives`) and earlier lines keep what they gave (`EffectiveKept`); `FieldsFollow` says that each field is what the last effective line gave it. |
| `AlgorithmProofs!PartsAlone`, `PeripheralProofs!EachAlone` | `Spec => GoldenSpec /\ PrngSpec`, `Spec => UartSpec /\ I2cSpec` | A step of the composition is a step of the part in use and a stutter of the others. With it, theorems about a part's specification are theorems about the one the runs check. |
| `UartProofs!UartTypeCorrect`, `NothingLost` | `UartSpec => []UartTypes`, `[]NoSilentLoss` | `UartInv` adds to both that the bytes in the ring are numbered ones. The arithmetic of the ring is in three lemmas: free slots are what is not used (`UsedIs`), storing behind the tail appends to the contents (`StoredAppends`), moving the head drops the first (`ForwardTakes`). |
| `UartProofs!Queues` | `UartSpec => DirectionsAreQueues` | With the same lemmas, one step map for each direction (`ReceivingStep`, `SendingStep`); what concerns the other direction stutters. A refinement for every ring size and every length of run. |
| `PeripheralProofs!I2cTypeCorrect`, `ReadsHold` | `I2cSpec => []I2cTypes`, `[]ReadsGiveLastSent` | `BankHolds`: every register holds what the log last sent to it. A write that fits appends an entry that is the last of the registers it covers and of no other (`SaysAppended`); one that does not fit is in the log and in no register. `Placed` adds that the pointer is inside the bank, or at its end, once a read has succeeded, so that a read that is let through meets registers only. |
| `PeripheralProofs!SpiHolds` | `Spec => []NothingInvented` | `Accounted`: leaving out idle bytes, what came back and then what is queued rise and are loaded bytes, and each loaded byte is in one of them unless it was dropped. The ring lemmas of `UartProofs` say what a load appends and a transfer takes; `JoiningRises` and `IdleRises` what that does to the two sequences. |
| `PeripheralProofs!GpioHolds` | `Spec => []OutputReadsBack` | `Follows`: the level bit of a pin nobody drives from outside is that of its last write, whatever its mode, so that it is right when the pin becomes an output again. |
| `PeripheralProofs!TraceHolds` | `Spec => []TextIsTrace` | `Held`: the array holds the first `BufSize - 1` characters that passed the truncation and a NUL behind them. No character is a NUL, so the first NUL is that one and what an earlier text left behind it is not read. |
| `PeripheralProofs!AdcHolds` | `Spec => []SweepContinues` | `Counted`: the two counters of a channel, the sample index and the number of conversions, are equal, so that a generator is asked for the number of the conversion. |
| `PeripheralProofs!BackendsHold` | `Spec => []ShownIsWritten` | `BackendsInv`: the bytes shown and then those of the write in progress rise, NULs left out, and are together what was written unless a disabled port dropped some or a chunk ended at a NUL (`Faithful`). |
| `PeripheralProofs!PeripheralTypes` | `Spec => []TypeOK` | From the parts of `PeripheralsInv`, one for each device. |

These cover every invariant the passing runs check, all action properties and all
refinements. Only model-checked are the liveness properties (`Terminates` of
`Runner` and `CliTest`, `WatchCatchesUp`), as liveness under fairness and every
claim about `ENABLED` are out of the prover's reach. What the violating runs
check is false of the code, and nothing is to be proved of it. `StemsDiffer`,
`ResetsFirst` and `MaxTests < StatusMod` are hypotheses of the theorems that name
them, no assumptions; for the first and the third a run shows that they are
needed.

## 5. Where the code departs from what it says

| Run | What it shows |
|---|---|
| `runner_status_wrap` | 256 failures, as many as `CEEDLESS_MAX_TESTS` allows, exit with status 0: `ceedless_end` returns the count and the platform keeps eight bits. |
| `runner_nested` | With a seed set, a `RUN_TEST` made by a queued test writes `s_pending` from slot 0 while the drain loop still reads it: queued tests are overwritten, and the new one is not run by this `ceedless_end`. |
| `exc_uncaught` | After an assertion has left a `Try` block, a `Throw` outside any `Try` of a later test jumps to the block that is gone; it does not abort. |
| `cli_same_stem` | Two test files with the same base name in different directories share `build/<stem>`; one can run in place of the other and both be reported. |
| `discover_cases` | `TEST_CASE` lines in front of `void test_x(void)` are attached to it, not to the next test function with parameters, and the generated runner calls it with arguments. |

Also visible in the models, but without a run of its own:

* Runner: a test case beyond `CEEDLESS_MAX_TESTS` runs its body uncounted, so
  that its failure is dropped; a `tearDown` that fails an assertion is called
  again by the `longjmp` it causes.
* Exceptions: frames leaked by earlier tests count against the nesting limit of
  later ones, which `Try` does not check (`pc = "overflow"`).
* Mocks: records are not reused before a reset, so the seventeenth expectation
  is refused whatever was consumed; data for `MOCK_RETURN_THRU_PTR` goes to the
  newest record even if it is used; arguments and return values longer than the
  arrays keep their length, so that comparison and return read behind them.
* Assertions: an infinite expected value makes the tolerance of
  `TEST_ASSERT_EQUAL_FLOAT` infinite, so that every finite value is accepted and
  the value itself, at distance NaN, is not; the order macros for unsigned
  operands compare as signed; the distance of `TEST_ASSERT_INT_WITHIN` can
  overflow, and where it wraps `TEST_ASSERT_INT_WITHIN(2, LLONG_MIN, LLONG_MAX)`
  passes; `TEST_ASSERT_EQUAL_HEX` looks at 32 bits.
* Golden files: labels that differ only in replaced characters, or behind the
  length limit, capture into one file.
* Discovery: test functions with parameters and without `TEST_CASE`, and `static`
  ones, are skipped silently; a prototype counts as a test, which is then run
  twice.
* Commands: the JUnit file of a program that crashes, or cannot open it, is the
  one of an earlier run, and `report` shows it, as it does those of deleted
  tests; `docs/CLI.md:42` promises one for each program. The coverage page keeps
  rows of deleted tests, even of runs of theirs that failed, and the row of a
  source that all programs link can be of such a test. `bench` prints rows of an earlier run when its own
  fails, or cannot create its file. A JUnit text cut inside a multi-byte
  character makes `report` skip the file.
* Configuration: the items of a YAML block list are lines without a known key
  and are ignored.
* Devices: an injected GPIO level shows on an output and hides behind a pull; a
  NUL ends a semihosting chunk; the ITM waits for its FIFO without a timeout,
  also when the port was disabled in the meantime.

## 6. What is not modelled, and the plan

The order so far was: runner and ledger, exceptions, mocks, the parallel build,
peripherals and trace buffer; then the commands around a run, the other trace
backends and the ADC, assertions, golden files, the PRNG, discovery and
configuration; then the proofs, of the invariants of every component. Next:

1. `TestSession`: runner, exception stack and one mock in one program, for the
   interactions that today are constants or actions of one side (`ResetsFirst`,
   `AssertFails`): a mock that throws into a test without `Try`, a mismatch
   inside a `Try` block.
2. An abstract specification of the command, a test run that tells the truth,
   which `CliTest` implements as `Runner` implements `SuiteLedger`.

Left out, and why:

* The text of messages, of JUnit and TAP files, its escaping and truncation, and
  of the generated runner: layout without control.
* The lengths of mock arguments; what lies behind the arrays is undefined.
* The counts in `.gcov` files, the sorting of `bench`, and the failure to make a
  directory in `ceedless test`: one straight line each. gcov works for all
  programs or for none, its files come to `build/` in one step, and data left by
  an older build of a test that is gone are not told from those of the last.
* `cmd_scaffold.go`, `cmd_mock.go`, `cmd_fuzz.go`, docker and doctor, which write
  text or call a tool in straight lines; the examples and the CMake module,
  which are clients of the framework.
* A test program that hangs: `ceedless test` waits for it for ever, and promises
  nothing else.
* Undefined C that no document promises anything about stops the model instead
  of being explored further. A `RUN_TEST` inside a test without a seed overwrites
  the outer test's `jmp_buf`; the model has nested registrations only while a
  seed is set.
