--------------------------- MODULE CliLoopProofs ---------------------------
(***************************************************************************)
(* What test, watch, bench, cov and report promise of the files they leave *)
(* for each other, for any number of test files, whatever the user edits   *)
(* and interrupts.                                                         *)
(***************************************************************************)
EXTENDS CliLoop, TLAPS, WellFoundedInduction

\* The types, where TypeOK leaves the domain of a function open.
Types ==
    /\ src \in [Progs -> [edit : Nat, quality : Qualities]] /\ edits \in Nat
    /\ commands \in Nat
    /\ kind \in Commands \cup {"none", "report"}
    /\ pc \in {"idle", "poll", "discover", "build", "run", "count", "returned",
               "page", "exit"}
    /\ pc = "idle" <=> kind = "none"
    /\ tests \subseteq Progs /\ next \in 1 .. NumProgs + 1 /\ fails \in Nat
    /\ built \in [Progs -> Qualities]
    /\ xml \in [Progs -> {"none", "cut", "fails", "passes"}]
    /\ tap \in {"none", "stale", "fresh"} /\ shown \in {"none", "stale", "fresh"}

\* The data of programs and sources are of commands there have been.
DataTypes ==
    /\ gcda \in [Progs -> 0 .. commands]
    /\ gcov \in [Sources -> 0 .. commands] /\ html \in [Sources -> 0 .. commands]

\* The numbers of the edits are those given so far.
EditsCounted == \A p \in Progs : src[p].edit <= edits

\* Outside its two loops runTests has no variables; each failed build is of a
\* test that has been built, and programs are run only when all have compiled.
RunKnown ==
    /\ pc \in {"build", "run", "count"} <=> tests # {}
    /\ pc \notin {"build", "run", "count"} => next = 1 /\ fails = 0
    /\ pc = "build" =>
         /\ fails < next
         /\ fails = 0 =>
              \A p \in tests : p < next => built[p] \notin {"absent", "broken"}
    /\ pc \in {"run", "count"} =>
         fails = 0 /\ \A p \in tests : built[p] \notin {"absent", "broken"}

\* cmdTest succeeds only when it has come to writeTAP.
RowsFresh ==
    /\ pc = "returned" /\ ~err /\ tap_format /\ ~unwritable => tap = "fresh"
    /\ BenchRowsAreFresh

\* The programs ps have left the files of a program that passes.
JUnitLeft(ps) == junit => \A p \in ps \ unopened : xml[p] = "passes"
DataLeft(ps) == WithCoverage => \A p \in ps : gcda[p] = commands

\* As long as all programs have passed, each that was run has left its files, and
\* what gcov made of them; and that is so when cmdTest succeeds.
FilesLeft ==
    /\ pc \in {"build", "run", "count"} => ran = tests
    /\ pc = "run" /\ passed =>
         \A p \in tests : p < next => JUnitLeft({p}) /\ DataLeft({p})
    /\ pc = "count" =>
         WithCoverage /\ (passed => JUnitLeft(ran) /\ RowsOfThisRun(gcov))
    /\ pc \in {"returned", "page"} /\ ~err =>
         JUnitLeft(ran) /\ (WithCoverage => RowsOfThisRun(gcov))
    /\ pc = "page" => WithCoverage /\ ~err
    /\ kind \in {"none", "report"} => junit = FALSE
    /\ CoverageIsOfThisRun /\ ReportOfSuccess

LoopInv ==
    Types /\ DataTypes /\ EditsCounted /\ RunKnown /\ RowsFresh /\ FilesLeft

LEMMA InitLoop == Init => LoopInv
<1> SUFFICES ASSUME Init PROVE LoopInv
  OBVIOUS
<1>1. NumProgs \in Nat
  BY LoopAssumption
<1>2. Types /\ DataTypes
  BY <1>1 DEF Init, Types, DataTypes, Unbuilt, Qualities
<1>3. EditsCounted /\ RunKnown /\ RowsFresh
  BY DEF Init, EditsCounted, RunKnown, RowsFresh, BenchRowsAreFresh
<1>4. FilesLeft
  BY DEF Init, FilesLeft, CoverageIsOfThisRun, ReportOfSuccess
<1> QED
  BY <1>2, <1>3, <1>4 DEF LoopInv
-----------------------------------------------------------------------------
\* The user's steps, and those of a command between two runs, touch nothing of
\* runTests.
LEMMA EditKept ==
    ASSUME LoopInv, NEW p \in Progs, NEW q \in Qualities, Edit(p, q)
    PROVE  LoopInv'
<1>1. /\ UNCHANGED <<commands, kind, pc, tap_format, junit, last, tests, next, built, fails,
                     passed, err, shown, xml, tap, gcda, gcov, html, ran, unopened,
                     unwritable, counted>>
  BY DEF Edit, flags, loop, files, coverage, run
<1>2. Types' /\ EditsCounted'
  BY <1>1 DEF LoopInv, Types, EditsCounted, Edit
<1>3. (DataTypes /\ RunKnown /\ RowsFresh)'
  BY <1>1 DEF LoopInv, DataTypes, RunKnown, RowsFresh, BenchRowsAreFresh
<1>4. FilesLeft'
  BY <1>1 DEF LoopInv, FilesLeft, JUnitLeft, DataLeft, WithCoverage, RowsOfThisRun,
     CoverageIsOfThisRun, ReportOfSuccess
<1> QED
  BY <1>2, <1>3, <1>4 DEF LoopInv

\* A command starts, with or without a test run to come.
LEMMA StartKept ==
    ASSUME LoopInv,
           \/ \E k \in Commands, format, dir \in BOOLEAN : StartCommand(k, format, dir)
           \/ Report
    PROVE  LoopInv'
<1>1. /\ UNCHANGED <<src, edits, tests, next, built, fails, xml, tap, shown, gcda, gcov, html>>
      /\ commands' = commands + 1 /\ kind = "none"
      /\ \/ kind' \in Commands /\ pc' \in {"poll", "discover"}
         \/ kind' = "report" /\ pc' = "exit" /\ UNCHANGED junit
  BY DEF StartCommand, Report, user, flags, loop, files, coverage
<1>2. pc = "idle" /\ (kind' = "report" => junit' = FALSE)
  BY <1>1 DEF LoopInv, Types, FilesLeft, Commands
<1>3. Types' /\ DataTypes'
  BY <1>1 DEF LoopInv, Types, DataTypes, Commands
<1>4. EditsCounted' /\ RunKnown'
  BY <1>1, <1>2 DEF LoopInv, EditsCounted, RunKnown
<1>5. RowsFresh'
  BY <1>1 DEF RowsFresh, BenchRowsAreFresh
<1>6. FilesLeft'
  BY <1>1, <1>2 DEF FilesLeft, CoverageIsOfThisRun, ReportOfSuccess, Commands
<1> QED
  BY <1>3, <1>4, <1>5, <1>6 DEF LoopInv

LEMMA PollKept ==
    ASSUME LoopInv, Poll \/ WatchAgain
    PROVE  LoopInv'
<1>1. /\ UNCHANGED <<src, edits, commands, kind, tests, next, built, fails, xml, tap, shown,
                     gcda, gcov, html, junit>>
      /\ pc \in {"poll", "returned"} /\ pc' \in {"poll", "discover"}
  BY DEF Poll, WatchAgain, user, flags, loop, files, coverage
<1>2. Types' /\ DataTypes' /\ EditsCounted' /\ RunKnown'
  BY <1>1 DEF LoopInv, Types, DataTypes, EditsCounted, RunKnown
<1>3. RowsFresh' /\ FilesLeft'
  BY <1>1 DEF LoopInv, RowsFresh, BenchRowsAreFresh, FilesLeft, CoverageIsOfThisRun,
     ReportOfSuccess
<1> QED
  BY <1>2, <1>3 DEF LoopInv

LEMMA ReturnedKept ==
    ASSUME LoopInv, TestEnds \/ BenchEnds
    PROVE  LoopInv'
<1>1. /\ UNCHANGED <<src, edits, commands, kind, tests, next, built, fails, err, xml, tap,
                     gcda, gcov, html, tap_format, junit, ran, unopened, unwritable, counted>>
      /\ pc = "returned" /\ pc' = "exit" /\ kind \in {"test", "bench"}
      /\ shown' \in {shown, tap}
      /\ kind = "bench" => shown' = tap
  BY DEF TestEnds, BenchEnds, user, flags, loop, files, coverage, run
<1>2. Types' /\ DataTypes' /\ EditsCounted' /\ RunKnown'
  BY <1>1 DEF LoopInv, Types, DataTypes, EditsCounted, RunKnown
<1>3. RowsFresh'
  BY <1>1 DEF LoopInv, RowsFresh, BenchRowsAreFresh
<1>4. FilesLeft'
  BY <1>1 DEF LoopInv, FilesLeft, JUnitLeft, CoverageIsOfThisRun, ReportOfSuccess
<1> QED
  BY <1>2, <1>3, <1>4 DEF LoopInv

\* The page of cov.
LEMMA PageKept ==
    ASSUME LoopInv, CovCreate \/ CovWrite
    PROVE  LoopInv'
<1>1. /\ UNCHANGED <<src, edits, commands, kind, tests, next, built, fails, shown, xml, tap,
                     gcda, gcov, tap_format, junit, ran, unopened, unwritable, counted>>
      /\ pc \in {"returned", "page"} /\ pc' \in {"page", "exit"}
  BY DEF CovCreate, CovWrite, user, flags, loop, run
<1>2. kind = "cov"
  BY DEF LoopInv, FilesLeft, WithCoverage, CovCreate, CovWrite
<1>3. html' \in [Sources -> 0 .. commands]
  BY DEF LoopInv, Types, DataTypes, CovCreate, CovWrite
<1>4. Types' /\ DataTypes' /\ EditsCounted' /\ RunKnown'
  BY <1>1, <1>2, <1>3 DEF LoopInv, Types, DataTypes, EditsCounted, RunKnown
<1>5. RowsFresh'
  BY <1>1, <1>2 DEF RowsFresh, BenchRowsAreFresh
<1>6. \/ pc' = "page" /\ ~err /\ err' = err
      \/ pc' = "exit" /\ err'
      \/ pc' = "exit" /\ pc = "page" /\ err' = err /\ html' = gcov
  BY DEF CovCreate, CovWrite
<1>7. ~err' => JUnitLeft(ran) /\ RowsOfThisRun(gcov)
  BY <1>1, <1>2, <1>6 DEF LoopInv, FilesLeft, WithCoverage
<1>8. FilesLeft'
  BY <1>1, <1>2, <1>6, <1>7 DEF FilesLeft, JUnitLeft, WithCoverage, RowsOfThisRun,
     CoverageIsOfThisRun, ReportOfSuccess
<1> QED
  BY <1>4, <1>5, <1>8 DEF LoopInv

\* A command ends, at its end or when it is interrupted.
LEMMA EndKept ==
    ASSUME LoopInv, Exit \/ Interrupt
    PROVE  LoopInv'
<1>1. NumProgs \in Nat
  BY LoopAssumption
<1>2. /\ UNCHANGED <<src, edits, commands, tap, gcda, gcov, html>>
      /\ pc' = "idle" /\ kind' = "none" /\ shown' = "none" /\ junit' = FALSE
      /\ tests' = {} /\ next' = 1 /\ built' = Unbuilt /\ fails' = 0
  BY DEF Exit, Interrupt, End, Forget, user, files, coverage
<1>3. xml' \in [Progs -> {"none", "cut", "fails", "passes"}]
  <2>1. CASE UNCHANGED xml
    BY <2>1 DEF LoopInv, Types
  <2>2. CASE /\ pc = "run" /\ next \in tests /\ built[next] # "crashes"
             /\ \E v \in {"cut", Reported(built[next])} : xml' = [xml EXCEPT ![next] = v]
    <3>1. next \in Progs /\ built[next] \in Qualities /\ built[next] \notin {"absent", "broken"}
      BY <2>2 DEF LoopInv, Types, RunKnown
    <3>2. Reported(built[next]) \in {"fails", "passes"}
      BY <2>2, <3>1 DEF Qualities, Reported
    <3> QED
      BY <2>2, <3>1, <3>2 DEF LoopInv, Types
  <2> QED
    BY <2>1, <2>2 DEF Exit, Interrupt, files
<1>4. Types' /\ DataTypes'
  BY <1>1, <1>2, <1>3 DEF LoopInv, Types, DataTypes, Unbuilt, Qualities
<1>5. EditsCounted' /\ RunKnown'
  BY <1>2 DEF LoopInv, EditsCounted, RunKnown
<1>6. RowsFresh' /\ FilesLeft'
  BY <1>2 DEF RowsFresh, BenchRowsAreFresh, FilesLeft, CoverageIsOfThisRun, ReportOfSuccess
<1> QED
  BY <1>4, <1>5, <1>6 DEF LoopInv
-----------------------------------------------------------------------------
\* runTests: what it finds, builds and runs.
LEMMA DiscoverKept ==
    ASSUME LoopInv, Discover
    PROVE  LoopInv'
<1>1. /\ UNCHANGED <<src, edits, commands, kind, junit, next, built, fails, xml, gcda, gcov,
                     html, shown>>
      /\ pc = "discover" /\ tests' \subseteq Progs /\ tap' \in {"none", "stale"}
      /\ ran' = tests'
      /\ \/ tests' = {} /\ err' = TRUE /\ pc' = "returned"
         \/ tests' # {} /\ pc' = "build"
  BY DEF LoopInv, Types, Discover, user, flags, coverage
<1>2. Types' /\ DataTypes'
  BY <1>1 DEF LoopInv, Types, DataTypes
<1>3. EditsCounted' /\ RowsFresh'
  BY <1>1 DEF LoopInv, EditsCounted, RowsFresh, BenchRowsAreFresh
<1>4. FilesLeft'
  BY <1>1 DEF LoopInv, FilesLeft, CoverageIsOfThisRun, ReportOfSuccess
<1>5. RunKnown'
  <2>1. next' = 1 /\ fails' = 0
    BY <1>1 DEF LoopInv, RunKnown
  <2>2. \A p \in Progs : ~(p < 1)
    BY LoopAssumption DEF Progs
  <2> QED
    BY <1>1, <2>1, <2>2 DEF RunKnown
<1> QED
  BY <1>2, <1>3, <1>4, <1>5 DEF LoopInv

LEMMA BuildKept ==
    ASSUME LoopInv, Build
    PROVE  LoopInv'
<1>1. NumProgs \in Nat /\ next \in Progs /\ next \in Nat /\ next + 1 \in 1 .. NumProgs + 1
  BY LoopAssumption DEF LoopInv, Types, Build, Progs
<1>2. /\ UNCHANGED <<src, edits, commands, kind, junit, pc, tests, err, xml, tap, gcda, gcov,
                     html, shown, tap_format, ran, unopened, unwritable, counted>>
      /\ pc = "build" /\ next' = next + 1
      /\ next \in tests => /\ built' = [built EXCEPT ![next] = src[next].quality]
                           /\ fails' = fails + (IF src[next].quality \in {"absent", "broken"}
                                                THEN 1 ELSE 0)
      /\ next \notin tests => built' = built /\ fails' = fails
  BY DEF Build, user, flags, files, coverage, run
<1>3. Types' /\ DataTypes'
  <2>1. built' \in [Progs -> Qualities]
    BY <1>1, <1>2 DEF LoopInv, Types
  <2>2. fails' \in Nat
    BY <1>2 DEF LoopInv, Types
  <2> QED
    BY <1>1, <1>2, <2>1, <2>2 DEF LoopInv, Types, DataTypes
<1>4. (EditsCounted /\ RowsFresh /\ FilesLeft)'
  BY <1>2 DEF LoopInv, EditsCounted, RowsFresh, BenchRowsAreFresh, FilesLeft,
     CoverageIsOfThisRun, ReportOfSuccess
<1>5. fails' < next'
  BY <1>1, <1>2 DEF LoopInv, Types, RunKnown
<1>6. ASSUME fails' = 0, NEW p \in tests', p < next'
      PROVE  built'[p] \notin {"absent", "broken"}
  <2>1. p \in tests /\ p \in Progs /\ p \in Nat /\ fails \in Nat
    BY <1>2, <1>6, LoopAssumption DEF LoopInv, Types, Progs
  <2>2. fails = 0
    BY <1>2, <1>6, <2>1
  <2>3. CASE p = next
    <3>1. src[next].quality \notin {"absent", "broken"}
      BY <1>2, <1>6, <2>1, <2>2, <2>3
    <3> QED
      BY <1>1, <1>2, <2>1, <2>3, <3>1 DEF LoopInv, Types
  <2>4. CASE p # next
    <3>1. p < next
      BY <1>1, <1>2, <1>6, <2>1, <2>4
    <3>2. built[p] \notin {"absent", "broken"}
      BY <1>2, <2>1, <2>2, <3>1 DEF LoopInv, RunKnown
    <3> QED
      BY <1>1, <1>2, <2>1, <2>4, <3>2 DEF LoopInv, Types
  <2> QED
    BY <2>3, <2>4
<1>7. RunKnown'
  BY <1>2, <1>5, <1>6 DEF LoopInv, RunKnown
<1> QED
  BY <1>3, <1>4, <1>7 DEF LoopInv

LEMMA BuildsDoneKept ==
    ASSUME LoopInv, BuildsDone
    PROVE  LoopInv'
<1>1. /\ NumProgs \in Nat /\ pc = "build" /\ next > NumProgs
      /\ UNCHANGED <<src, edits, commands, kind, junit, xml, tap, gcda, gcov, html, shown,
                     tap_format, ran, unopened, unwritable, counted>>
  BY LoopAssumption DEF BuildsDone, user, flags, files, coverage, run
<1>2. CASE fails > 0
  <2>1. /\ err' = TRUE /\ pc' = "returned"
        /\ tests' = {} /\ next' = 1 /\ built' = Unbuilt /\ fails' = 0
    BY <1>2 DEF BuildsDone, Return, Forget
  <2>2. Types' /\ DataTypes'
    BY <1>1, <2>1 DEF LoopInv, Types, DataTypes, Unbuilt, Qualities
  <2>3. (EditsCounted /\ RunKnown /\ RowsFresh)'
    BY <1>1, <2>1 DEF LoopInv, EditsCounted, RunKnown, RowsFresh, BenchRowsAreFresh
  <2>4. FilesLeft'
    BY <1>1, <2>1 DEF LoopInv, FilesLeft, CoverageIsOfThisRun, ReportOfSuccess
  <2> QED
    BY <2>2, <2>3, <2>4 DEF LoopInv
<1>3. CASE ~(fails > 0)
  <2>1. pc' = "run" /\ next' = 1 /\ UNCHANGED <<tests, built, fails, err>> /\ fails = 0
    BY <1>3 DEF BuildsDone, LoopInv, Types
  <2>2. Types' /\ DataTypes'
    BY <1>1, <2>1 DEF LoopInv, Types, DataTypes
  <2>3. \A p \in tests : p < next /\ ~(p < 1)
    BY <1>1 DEF LoopInv, Types, Progs
  <2>4. (EditsCounted /\ RunKnown /\ RowsFresh)'
    BY <1>1, <2>1, <2>3 DEF LoopInv, EditsCounted, RunKnown, RowsFresh, BenchRowsAreFresh
  <2>5. FilesLeft'
    BY <1>1, <2>1, <2>3 DEF LoopInv, FilesLeft, CoverageIsOfThisRun, ReportOfSuccess
  <2> QED
    BY <2>2, <2>4, <2>5 DEF LoopInv
<1> QED
  BY <1>2, <1>3

\* A program that passes leaves its files.
LEMMA RunProgramKept ==
    ASSUME LoopInv, RunProgram
    PROVE  LoopInv'
<1>1. /\ NumProgs \in Nat /\ next \in Progs /\ next \in Nat /\ next + 1 \in 1 .. NumProgs + 1
      /\ commands \in Nat
  BY LoopAssumption DEF LoopInv, Types, RunProgram, Progs
<1>2. /\ UNCHANGED <<src, edits, commands, kind, pc, junit, tests, built, fails, err, shown,
                     tap, gcov, html, tap_format, ran, unwritable, counted>>
      /\ pc = "run" /\ next' = next + 1
      /\ next \notin tests => UNCHANGED <<passed, xml, gcda, unopened>>
      /\ next \in tests =>
           /\ passed' = (passed /\ built[next] = "passes")
           /\ JUnit(next)
           /\ gcda' = IF WithCoverage /\ built[next] # "crashes"
                      THEN [gcda EXCEPT ![next] = commands] ELSE gcda
  BY DEF RunProgram, user, flags
<1>3. next \in tests => built[next] \in {"crashes", "fails", "late", "passes"}
  <2>1. next \in tests => built[next] \in Qualities /\ built[next] \notin {"absent", "broken"}
    BY <1>1, <1>2 DEF LoopInv, Types, RunKnown
  <2> QED
    BY <2>1 DEF Qualities
<1>4. /\ xml' \in [Progs -> {"none", "cut", "fails", "passes"}]
      /\ \A p \in Progs \ {next} : xml'[p] = xml[p] /\ gcda'[p] = gcda[p]
      /\ unopened \subseteq unopened'
  BY <1>1, <1>2, <1>3 DEF LoopInv, Types, DataTypes, JUnit, Reported
<1>5. gcda' \in [Progs -> 0 .. commands]
  BY <1>1, <1>2 DEF LoopInv, DataTypes
<1>6. Types' /\ DataTypes'
  BY <1>1, <1>2, <1>4, <1>5 DEF LoopInv, Types, DataTypes
<1>7. (EditsCounted /\ RunKnown /\ RowsFresh)'
  BY <1>2 DEF LoopInv, EditsCounted, RunKnown, RowsFresh, BenchRowsAreFresh
<1>8. ASSUME passed', NEW p \in tests, p < next'
      PROVE  (JUnitLeft({p}) /\ DataLeft({p}))'
  <2>1. p \in Progs /\ p \in Nat
    BY LoopAssumption DEF LoopInv, Types, Progs
  <2>2. CASE p = next
    <3>1. built[next] = "passes" /\ JUnit(next)
          /\ gcda' = IF WithCoverage THEN [gcda EXCEPT ![next] = commands] ELSE gcda
      BY <1>2, <1>8, <2>2
    <3>2. junit /\ p \notin unopened' => xml'[p] = "passes"
      BY <1>1, <2>1, <2>2, <3>1 DEF LoopInv, Types, JUnit, Reported
    <3>3. WithCoverage => gcda'[p] = commands
      BY <1>1, <2>1, <2>2, <3>1 DEF LoopInv, DataTypes
    <3> QED
      BY <1>2, <3>2, <3>3 DEF JUnitLeft, DataLeft, WithCoverage
  <2>3. CASE p # next
    <3>1. p < next /\ passed
      <4>1. p < next
        BY <1>1, <1>2, <1>8, <2>1, <2>3
      <4>2. passed
        BY <1>2, <1>8, Zenon
      <4> QED
        BY <4>1, <4>2
    <3>2. JUnitLeft({p}) /\ DataLeft({p})
      BY <1>2, <3>1 DEF LoopInv, FilesLeft
    <3> QED
      BY <1>2, <1>4, <2>1, <2>3, <3>2 DEF JUnitLeft, DataLeft, WithCoverage
  <2> QED
    BY <2>2, <2>3
<1>9. FilesLeft'
  BY <1>2, <1>8 DEF LoopInv, FilesLeft, CoverageIsOfThisRun, ReportOfSuccess
<1> QED
  BY <1>6, <1>7, <1>9 DEF LoopInv
-----------------------------------------------------------------------------
\* A set of programs that is not empty has a last one.
LEMMA LastProgram ==
    ASSUME NEW ps \in SUBSET Progs, ps # {}
    PROVE  Max(ps) \in ps
<1> DEFINE Behind == {NumProgs - p : p \in ps}
<1>1. NumProgs \in Nat /\ \A p \in ps : p \in Nat /\ NumProgs - p \in Nat
  BY LoopAssumption DEF Progs
<1>2. Behind \in SUBSET Nat /\ Behind # {}
  BY <1>1
<1>3. PICK m \in Behind : \A b \in Behind : ~(<<b, m>> \in OpToRel(<, Nat))
  BY <1>2, WFMin, NatLessThanWellFounded
<1>4. \A b \in Behind : ~(b < m)
  BY <1>2, <1>3 DEF OpToRel
<1>5. PICK p \in ps : m = NumProgs - p
  BY <1>3
<1>6. ASSUME NEW q \in ps PROVE p >= q
  <2>1. ~(NumProgs - q < NumProgs - p)
    BY <1>4, <1>5
  <2> QED
    BY <1>1, <2>1
<1> QED
  BY <1>6 DEF Max

\* gcov makes the files of this run from the data of this run.
LEMMA RunGcovKept ==
    ASSUME LoopInv, RunGcov
    PROVE  LoopInv'
<1>1. /\ UNCHANGED <<src, edits, commands, kind, junit, tests, next, built, fails, passed, err,
                     shown, xml, tap, gcda, html, tap_format, ran, unopened, unwritable>>
      /\ pc = "run" /\ pc' = "count" /\ next > NumProgs /\ WithCoverage
      /\ counted' \subseteq Progs
  BY DEF RunGcov, user, flags, loop
<1>2. \A f \in Sources :
        gcov'[f] = IF Covers(counted', f) = {} THEN gcov[f]
                   ELSE gcda[Max(Covers(counted', f))]
  BY DEF RunGcov
<1>3. \A f \in Sources : /\ Covers(counted', f) \subseteq counted'
                         /\ Covers(counted', f) # {} =>
                              Max(Covers(counted', f)) \in Covers(counted', f)
  <2>1. \A f \in Sources : Covers(counted', f) \subseteq counted'
    BY DEF Covers
  <2> QED
    BY <1>1, <2>1, LastProgram
<1>4. gcov' \in [Sources -> 0 .. commands]
  <2>1. \A f \in Sources : gcov'[f] \in 0 .. commands
    BY <1>1, <1>2, <1>3 DEF LoopInv, DataTypes
  <2>2. gcov' = [f \in Sources |-> gcov'[f]]
    BY DEF RunGcov
  <2> QED
    BY <2>1, <2>2
<1>5. Types' /\ DataTypes'
  BY <1>1, <1>4 DEF LoopInv, Types, DataTypes
<1>6. (EditsCounted /\ RunKnown /\ RowsFresh)'
  BY <1>1 DEF LoopInv, EditsCounted, RunKnown, RowsFresh, BenchRowsAreFresh
<1>7. ran = tests /\ \A p \in tests : p \in Progs /\ p < next
  BY <1>1, LoopAssumption DEF LoopInv, Types, FilesLeft, Progs
<1>8. passed => JUnitLeft(ran) /\ \A p \in ran : gcda[p] = commands
  BY <1>1, <1>7 DEF LoopInv, FilesLeft, JUnitLeft, DataLeft
<1>9. ASSUME passed PROVE RowsOfThisRun(gcov)'
  <2>1. ASSUME NEW p \in ran \cap counted' PROVE gcov'[p] = commands
    <3>1. p \in Sources /\ p \in Progs /\ p # Common
      BY <1>7, LoopAssumption DEF Progs, Sources, Common
    <3>2. \A q \in Covers(counted', p) : q = p
      BY <3>1 DEF Covers
    <3>3. p \in Covers(counted', p)
      BY DEF Covers
    <3>4. Max(Covers(counted', p)) = p
      BY <1>3, <3>1, <3>2, <3>3
    <3> QED
      BY <1>2, <1>8, <1>9, <3>1, <3>3, <3>4
  <2>2. ASSUME counted' # {}, counted' \subseteq ran PROVE gcov'[Common] = commands
    <3>1. Common \in Sources
      BY LoopAssumption DEF Common, Sources
    <3>2. Covers(counted', Common) = counted'
      BY DEF Covers
    <3>3. Max(counted') \in counted'
      BY <1>3, <2>2, <3>1, <3>2
    <3> QED
      BY <1>2, <1>8, <1>9, <2>2, <3>1, <3>2, <3>3
  <2> QED
    BY <1>1, <2>1, <2>2 DEF RowsOfThisRun
<1>10. FilesLeft'
  <2>1. (passed => JUnitLeft(ran) /\ RowsOfThisRun(gcov))'
    BY <1>1, <1>8, <1>9 DEF JUnitLeft
  <2> QED
    BY <1>1, <1>7, <2>1 DEF LoopInv, FilesLeft, WithCoverage, CoverageIsOfThisRun,
       ReportOfSuccess
<1> QED
  BY <1>5, <1>6, <1>10 DEF LoopInv

LEMMA RunsDoneKept ==
    ASSUME LoopInv, RunsDone
    PROVE  LoopInv'
<1>1. /\ UNCHANGED <<src, edits, commands, kind, junit, xml, gcda, gcov, html, shown,
                     tap_format, ran, unopened, counted>>
      /\ pc' = "returned" /\ err' = ~passed
      /\ \/ pc = "count"
         \/ pc = "run" /\ next > NumProgs /\ ~WithCoverage
      /\ tests' = {} /\ next' = 1 /\ built' = Unbuilt /\ fails' = 0
      /\ \/ tap' = "fresh"
         \/ unwritable' = TRUE /\ tap' = tap
         \/ ~tap_format /\ tap' = tap
  BY DEF RunsDone, Return, Forget, user, flags, coverage
<1>2. Types' /\ DataTypes'
  BY <1>1, LoopAssumption DEF LoopInv, Types, DataTypes, Unbuilt, Qualities
<1>3. (EditsCounted /\ RunKnown /\ RowsFresh)'
  BY <1>1 DEF LoopInv, EditsCounted, RunKnown, RowsFresh, BenchRowsAreFresh
<1>4. passed => JUnitLeft(ran) /\ (WithCoverage => RowsOfThisRun(gcov))
  <2>1. CASE pc = "count"
    BY <2>1 DEF LoopInv, FilesLeft
  <2>2. CASE pc = "run" /\ next > NumProgs /\ ~WithCoverage
    <3>1. ran = tests /\ \A p \in tests : p < next
      BY <2>2, LoopAssumption DEF LoopInv, Types, FilesLeft, Progs
    <3> QED
      BY <2>2, <3>1 DEF LoopInv, FilesLeft, JUnitLeft
  <2> QED
    BY <1>1, <2>1, <2>2
<1>5. ~err' => passed
  BY <1>1
<1>6. FilesLeft'
  BY <1>1, <1>4, <1>5 DEF LoopInv, FilesLeft, JUnitLeft, WithCoverage, RowsOfThisRun,
     CoverageIsOfThisRun, ReportOfSuccess
<1> QED
  BY <1>2, <1>3, <1>6 DEF LoopInv

LEMMA LoopKept == LoopInv /\ [Next]_vars => LoopInv'
<1> SUFFICES ASSUME LoopInv PROVE [Next]_vars => LoopInv'
  OBVIOUS
<1>1. ASSUME UNCHANGED vars PROVE LoopInv'
  <2>1. (Types /\ DataTypes /\ EditsCounted /\ RunKnown /\ RowsFresh)'
    BY <1>1 DEF LoopInv, Types, DataTypes, EditsCounted, RunKnown, RowsFresh,
       BenchRowsAreFresh, vars, user, flags, loop, files, coverage, run
  <2>2. FilesLeft'
    BY <1>1 DEF LoopInv, FilesLeft, JUnitLeft, DataLeft, WithCoverage, RowsOfThisRun,
       CoverageIsOfThisRun, ReportOfSuccess, vars, flags, loop, files, coverage, run
  <2> QED
    BY <2>1, <2>2 DEF LoopInv
<1> QED
  BY <1>1, EditKept, StartKept, PollKept, ReturnedKept, PageKept, EndKept, DiscoverKept,
     BuildKept, BuildsDoneKept, RunProgramKept, RunGcovKept, RunsDoneKept
  DEF Next, CommandStep

LEMMA LoopAlways == Spec => []LoopInv
BY InitLoop, LoopKept, PTL DEF Spec
-----------------------------------------------------------------------------
\* The types hold in every state; a command that runs nothing yet or any more
\* has forgotten the last test run.
THEOREM LoopTypes == Spec => []TypeOK
<1>1. LoopInv => TypeOK
  <2> SUFFICES ASSUME LoopInv PROVE TypeOK
    OBVIOUS
  <2>1. NumProgs \in Nat
    BY LoopAssumption
  <2>2. fails \in 0 .. NumProgs
    <3>1. next \in 1 .. NumProgs + 1 /\ fails \in Nat
      BY DEF LoopInv, Types
    <3>2. fails < next
      BY <3>1 DEF LoopInv, Types, RunKnown
    <3> QED
      BY <2>1, <3>1, <3>2
  <2>3. \A p \in Progs : src[p].edit \in 0 .. edits /\ src[p].quality \in Qualities
    BY DEF LoopInv, Types, EditsCounted
  <2> QED
    BY <2>2, <2>3 DEF LoopInv, Types, DataTypes, RunKnown, TypeOK
<1> QED
  BY <1>1, LoopAlways, PTL

\* The rows of a bench that succeeds are those of its own run.
THEOREM BenchHolds == Spec => []BenchRowsAreFresh
<1>1. LoopInv => BenchRowsAreFresh
  BY DEF LoopInv, RowsFresh
<1> QED
  BY <1>1, LoopAlways, PTL

\* The page of a cov that succeeds says what its own run covered, whatever data
\* and .gcov files earlier runs and deleted tests left.
THEOREM CoverageHolds == Spec => []CoverageIsOfThisRun
<1>1. LoopInv => CoverageIsOfThisRun
  BY DEF LoopInv, FilesLeft
<1> QED
  BY <1>1, LoopAlways, PTL

\* When a command with a JUnit directory succeeds, every program it ran has a file
\* that says so, or could not open it.
THEOREM ReportHolds == Spec => []ReportOfSuccess
<1>1. LoopInv => ReportOfSuccess
  BY DEF LoopInv, FilesLeft
<1> QED
  BY <1>1, LoopAlways, PTL
=============================================================================
