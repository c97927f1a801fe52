------------------------------ MODULE CliLoop ------------------------------
(***************************************************************************)
(* The commands around a test run: `ceedless test`, watch, bench, cov and  *)
(* report (src/cli/cmd_run.go, cmd_extra.go, cmd_report.go), and the files *)
(* they leave for each other while the user edits the sources at any time  *)
(* and may interrupt a command.  How the goroutines of one build interact  *)
(* is CliTest's subject: here programs are built one after another.        *)
(*                                                                         *)
(* Of build/report.tap the model keeps whether the last test run wrote it. *)
(* A program's coverage data, the .gcov file of a source and a row of      *)
(* build/coverage.html are the number of the command in which the program  *)
(* ran.                                                                    *)
(***************************************************************************)
EXTENDS Naturals, FiniteSetsExt

CONSTANTS
    NumProgs,   \* the test files, in sorted order
    MaxEdits,   \* bound: edits
    MaxCommands,\* bound: commands the user starts
    MaxFlags    \* bound: how many of the tap format and a JUnit directory one
                \* command is given; neither has to do with the other

Progs == 1 .. NumProgs

\* The sources with coverage: program p's own, and what all are linked with.
Common == 0
Sources == 0 .. NumProgs

ASSUME LoopAssumption == NumProgs \in Nat

\* There is no file, or it does not compile, its program crashes before
\* ceedless_end, reports failures, reports none but fails in suiteTearDown, or
\* passes.
Qualities == {"absent", "broken", "crashes", "fails", "late", "passes"}
Commands == {"test", "watch", "bench", "cov"}

VARIABLES
    src, edits,     \* each source: the edit that made it, and its quality
    commands,
    kind, pc,       \* the running command, "none" between commands
    tap_format,     \* is the report format tap?
    junit,          \* is a JUnit directory given?
    last,           \* watch: the last snapshot
    tests, next,    \* runTests: what it found, and the loop variable
    built, fails,   \* what the programs were built from; failed builds
    passed,         \* have all programs passed so far?
    err,            \* what cmdTest returned was an error
    shown,          \* bench: the rows it printed, as tap
    xml,            \* per program: the verdict in its JUnit file, "cut" if that
                    \* is not well-formed, "none" if there is none
    tap,            \* build/report.tap: "none", "stale", or "fresh" if the
                    \* last test run wrote it
    gcda,           \* per program: the command whose run wrote its data, or 0
    gcov,           \* per source: the command of its .gcov file's data, or 0
    html,           \* build/coverage.html: the same per row, 0 for no row
    seen,           \* history: the source of each program as the command last
                    \* looked at it,
    ran,            \* the programs of the command's last run,
    unopened,       \* those of them that could not create their JUnit file,
    unwritable,     \* whether the command could not create build/report.tap,
    counted         \* and the programs on whose data gcov worked

user == <<src, edits>>
flags == <<tap_format, junit>>
loop == <<tests, next, built, fails, passed>>
coverage == <<gcda, gcov, html>>
files == <<xml, tap, coverage>>
run == <<ran, unopened, unwritable, counted>>
vars == <<user, commands, kind, pc, flags, last, loop, err, shown, files, seen, run>>

Unseen == [p \in Progs |-> [edit |-> 0, quality |-> "absent"]]
Unbuilt == [p \in Progs |-> "absent"]

Init ==
    /\ src \in [Progs -> [edit : {0}, quality : Qualities]] /\ edits = 0
    /\ commands = 0 /\ kind = "none" /\ pc = "idle"
    /\ tap_format = FALSE /\ junit = FALSE /\ last = << >>
    /\ tests = {} /\ next = 1 /\ built = Unbuilt /\ fails = 0 /\ passed = TRUE
    /\ err = FALSE /\ shown = "none"
    /\ xml = [p \in Progs |-> "none"] /\ tap = "none"
    /\ gcda = [p \in Progs |-> 0]
    /\ gcov = [f \in Sources |-> 0] /\ html = [f \in Sources |-> 0]
    /\ seen = Unseen
    /\ ran = {} /\ unopened = {} /\ unwritable = FALSE /\ counted = {}
-----------------------------------------------------------------------------
\* The user edits, creates or deletes a test file.
Edit(p, q) ==
    /\ edits < MaxEdits
    /\ edits' = edits + 1
    /\ src' = [src EXCEPT ![p] = [edit |-> edits + 1, quality |-> q]]
    /\ UNCHANGED <<commands, kind, pc, flags, last, loop, err, shown, files, seen, run>>

\* bench asks for the tap format in front of the user's arguments, which may
\* ask for text again.
StartCommand(k, format, dir) ==
    /\ kind = "none" /\ commands < MaxCommands
    /\ format /\ dir => MaxFlags > 1
    /\ commands' = commands + 1 /\ kind' = k
    /\ tap_format' = format /\ junit' = dir
    /\ pc' = IF k = "watch" THEN "poll" ELSE "discover"
    /\ UNCHANGED <<user, last, loop, err, shown, files, seen, run>>

\* cmdReport reads every JUnit file there is, whatever run it is of, and skips
\* those that are cut.
Report ==
    /\ kind = "none" /\ commands < MaxCommands
    /\ commands' = commands + 1 /\ kind' = "report" /\ pc' = "exit"
    /\ err' = \A p \in Progs : xml[p] = "none"
    /\ UNCHANGED <<user, flags, last, loop, shown, files, seen, run>>

\* cmdWatch takes the snapshot before the run it causes.
Poll ==
    /\ pc = "poll" /\ src # last
    /\ last' = src /\ pc' = "discover"
    /\ UNCHANGED <<user, commands, kind, flags, loop, err, shown, files, seen, run>>

\* The variables of runTests are gone when it ends,
Forget ==
    /\ tests' = {} /\ next' = 1 /\ built' = Unbuilt /\ fails' = 0 /\ passed' = TRUE

\* and the others when the command ends.
End ==
    /\ kind' = "none" /\ pc' = "idle"
    /\ tap_format' = FALSE /\ junit' = FALSE /\ last' = << >>
    /\ err' = FALSE /\ shown' = "none" /\ Forget
    /\ seen' = Unseen
    /\ ran' = {} /\ unopened' = {} /\ unwritable' = FALSE /\ counted' = {}

MutReturn(error) ==
    /\ err' = error /\ pc' = "returned" /\ UNCHANGED <<tests, built, fails, passed>>
    /\ next' = 1

\* cmdTest returns to the command that called it.
Return(error) == err' = error /\ pc' = "returned" /\ Forget

\* DiscoverTests.
Discover ==
    /\ pc = "discover"
    /\ tap' = (IF tap = "none" THEN "none" ELSE "stale")
    /\ tests' = {p \in Progs : src[p].quality # "absent"}
    /\ ran' = tests' /\ unopened' = {} /\ unwritable' = FALSE /\ counted' = {}
    /\ UNCHANGED <<next, built, fails, passed>>
    /\ seen' = [p \in Progs |-> IF p \in tests' THEN seen[p] ELSE src[p]]
    /\ IF tests' = {} THEN err' = TRUE /\ pc' = "returned"
       ELSE pc' = "build" /\ UNCHANGED err
    /\ UNCHANGED <<user, commands, kind, flags, last, shown, xml, coverage>>

\* A program is built from what its source is by then.
Build ==
    /\ pc = "build" /\ next <= NumProgs
    /\ next' = next + 1
    /\ IF next \in tests
       THEN /\ built' = [built EXCEPT ![next] = src[next].quality]
            /\ seen' = [seen EXCEPT ![next] = src[next]]
            /\ fails' = fails +
                 (IF src[next].quality \in {"absent", "broken"} THEN 1 ELSE 0)
       ELSE UNCHANGED <<built, fails, seen>>
    /\ UNCHANGED <<user, commands, kind, pc, flags, last, tests, passed, err, shown,
                   files, run>>

BuildsDone ==
    /\ pc = "build" /\ next > NumProgs
    /\ IF fails > 0 THEN Return(TRUE)
       ELSE pc' = "run" /\ next' = 1 /\ UNCHANGED <<tests, built, fails, passed, err>>
    /\ UNCHANGED <<user, commands, kind, flags, last, shown, files, seen, run>>

\* What ceedless_end reports, before it calls suiteTearDown.
Reported(q) == IF q = "late" THEN "passes" ELSE q

MutJUnit(p) ==
    IF junit /\ built[p] # "crashes"
    THEN \/ /\ xml' = [xml EXCEPT ![p] = IF @ = "none" THEN Reported(built[p]) ELSE @]
            /\ UNCHANGED unopened
         \/ UNCHANGED xml /\ unopened' = unopened \cup {p}
    ELSE UNCHANGED <<xml, unopened>>

\* emit_junit: the program writes its file, if it gets to ceedless_end, or leaves
\* the one there is because it cannot open it.
JUnit(p) ==
    IF junit /\ built[p] # "crashes"
    THEN \/ xml' = [xml EXCEPT ![p] = Reported(built[p])] /\ UNCHANGED unopened
         \/ UNCHANGED xml /\ unopened' = unopened \cup {p}
    ELSE UNCHANGED <<xml, unopened>>

\* `ceedless gcov` is a cov that ends before its page.
WithCoverage == kind = "cov"

\* A program built with coverage writes its data when it exits.
RunProgram ==
    /\ pc = "run" /\ next <= NumProgs
    /\ next' = next + 1
    /\ IF next \in tests
       THEN /\ passed' = (passed /\ built[next] = "passes")
            /\ JUnit(next)
            /\ gcda' = IF WithCoverage /\ built[next] # "crashes"
                       THEN [gcda EXCEPT ![next] = commands] ELSE gcda
       ELSE UNCHANGED <<passed, xml, gcda, unopened>>
    /\ UNCHANGED <<user, commands, kind, pc, flags, last, tests, built, fails, err,
                   shown, tap, gcov, html, seen, ran, unwritable, counted>>

\* The programs that gcov says something of source f from.
Covers(ps, f) == {p \in ps : f \in {p, Common}}

MutRunGcov ==
    /\ pc = "run" /\ next > NumProgs /\ WithCoverage
    /\ pc' = "count"
    /\ counted' \in {{}, {p \in Progs : gcda[p] # 0}}
    /\ gcov' = [f \in Sources |->
                  IF Covers(counted', f) = {} \/ gcov[f] # 0 THEN gcov[f]
                  ELSE gcda[Max(Covers(counted', f))]]
    /\ UNCHANGED <<user, commands, kind, flags, last, loop, err, shown, xml, tap,
                   gcda, html, seen, ran, unopened, unwritable>>

\* runGcov, however the programs have ended: all data files in build/ in order,
\* also those of programs that were not run; the .gcov file of a source they
\* share is of the last.  That there is no gcov is ignored.
RunGcov ==
    /\ pc = "run" /\ next > NumProgs /\ WithCoverage
    /\ pc' = "count"
    /\ counted' \in {{}, {p \in Progs : gcda[p] # 0}}
    /\ gcov' = [f \in Sources |->
                  IF Covers(counted', f) = {} THEN gcov[f]
                  ELSE gcda[Max(Covers(counted', f))]]
    /\ UNCHANGED <<user, commands, kind, flags, last, loop, err, shown, xml, tap,
                   gcda, html, seen, ran, unopened, unwritable>>

\* writeTAP returns silently when it cannot create its file.
RunsDone ==
    /\ \/ pc = "count"
       \/ pc = "run" /\ next > NumProgs /\ ~WithCoverage
    /\ \/ tap_format /\ tap' = "fresh" /\ UNCHANGED unwritable
       \/ tap_format /\ unwritable' = TRUE /\ UNCHANGED tap
       \/ ~tap_format /\ UNCHANGED <<tap, unwritable>>
    /\ Return(~passed)
    /\ UNCHANGED <<user, commands, kind, flags, last, shown, xml, coverage, seen,
                   ran, unopened, counted>>
-----------------------------------------------------------------------------
(* What the commands do when cmdTest has returned.                         *)
MutWatchAgain ==
    /\ pc = "returned" /\ kind = "watch"
    /\ pc' = "poll" /\ last' = src
    /\ UNCHANGED <<user, commands, kind, flags, loop, err, shown, files, seen, run>>

WatchAgain ==
    /\ pc = "returned" /\ kind = "watch"
    /\ pc' = "poll"
    /\ UNCHANGED <<user, commands, kind, flags, last, loop, err, shown, files, seen, run>>

TestEnds ==
    /\ pc = "returned" /\ kind = "test"
    /\ pc' = "exit"
    /\ UNCHANGED <<user, commands, kind, flags, last, loop, err, shown, files, seen, run>>

MutBenchEnds ==
    /\ pc = "returned" /\ kind = "bench"
    /\ shown' = tap /\ err' = FALSE
    /\ pc' = "exit"
    /\ UNCHANGED <<user, commands, kind, flags, last, loop, files, seen, run>>

\* bench prints what build/report.tap holds, whoever wrote it, and returns what
\* cmdTest returned.
BenchEnds ==
    /\ pc = "returned" /\ kind = "bench"
    /\ shown' = tap
    /\ pc' = "exit"
    /\ UNCHANGED <<user, commands, kind, flags, last, loop, err, files, seen, run>>

\* cov goes on to its page only when every program has passed, and if it can
\* create the file, which empties the page there was.
CovCreate ==
    /\ pc = "returned" /\ kind = "cov"
    /\ \/ ~err /\ pc' = "page" /\ html' = [f \in Sources |-> 0] /\ UNCHANGED err
       \/ err' = TRUE /\ pc' = "exit" /\ UNCHANGED html
    /\ UNCHANGED <<user, commands, kind, flags, last, loop, shown, xml, tap, gcda,
                   gcov, seen, run>>

\* It makes a row of every .gcov file in build/.
CovWrite ==
    /\ pc = "page"
    /\ html' = gcov /\ pc' = "exit"
    /\ UNCHANGED <<user, commands, kind, flags, last, loop, err, shown, xml, tap, gcda,
                   gcov, seen, run>>

Exit ==
    /\ pc = "exit" /\ End
    /\ UNCHANGED <<user, commands, files>>

\* Ctrl+C, which also stops the program that is running: it may have written its
\* JUnit file or a part of it by then, but it writes no coverage data.
Interrupt ==
    /\ kind # "none" /\ End
    /\ \/ UNCHANGED xml
       \/ /\ pc = "run" /\ next \in tests /\ junit /\ built[next] # "crashes"
          /\ \E v \in {"cut", Reported(built[next])} : xml' = [xml EXCEPT ![next] = v]
    /\ UNCHANGED <<user, commands, tap, coverage>>

CommandStep ==
    \/ Poll \/ Discover \/ Build \/ BuildsDone \/ RunProgram \/ RunGcov \/ RunsDone
    \/ WatchAgain \/ TestEnds \/ BenchEnds \/ CovCreate \/ CovWrite \/ Exit

Next ==
    \/ \E p \in Progs, q \in Qualities : Edit(p, q)
    \/ \E k \in Commands, format, dir \in BOOLEAN : StartCommand(k, format, dir)
    \/ Report \/ Interrupt
    \/ CommandStep

Spec == Init /\ [][Next]_vars

\* A command takes its steps, and the compiler and the programs it waits for
\* end; nothing is assumed of the user.
FairSpec == Spec /\ WF_vars(CommandStep)
-----------------------------------------------------------------------------
\* The type invariant; a command that runs nothing yet or any more has forgotten
\* the last test run.
TypeOK ==
    /\ \A p \in Progs : src[p].edit \in 0 .. edits /\ src[p].quality \in Qualities
    /\ kind \in Commands \cup {"none", "report"}
    /\ pc \in {"idle", "poll", "discover", "build", "run", "count", "returned",
               "page", "exit"}
    /\ pc = "idle" <=> kind = "none"
    /\ tests \subseteq Progs /\ next \in 1 .. NumProgs + 1 /\ fails \in 0 .. NumProgs
    /\ built \in [Progs -> Qualities]
    /\ xml \in [Progs -> {"none", "cut", "fails", "passes"}]
    /\ {tap, shown} \subseteq {"none", "stale", "fresh"}
    /\ gcda \in [Progs -> 0 .. commands]
    /\ gcov \in [Sources -> 0 .. commands] /\ html \in [Sources -> 0 .. commands]
    /\ pc \in {"build", "run", "count"} <=> tests # {}

\* When bench succeeds the rows it printed are those of the run it made, unless
\* the user asked for another format or build/report.tap could not be created.
\* The rows of an earlier run it may print when it fails.
BenchRowsAreFresh ==
    pc = "exit" /\ kind = "bench" /\ ~err /\ tap_format /\ ~unwritable => shown = "fresh"

\* These rows are of the running command, where gcov worked: the row of every
\* program it ran, and the common one too unless gcov read data of a program that
\* is gone, whose data stay in build/ and may be the last.
RowsOfThisRun(rows) ==
    /\ \A p \in ran \cap counted : rows[p] = commands
    /\ counted # {} /\ counted \subseteq ran => rows[Common] = commands

\* When cov succeeds its page says what this run covered, whatever data and .gcov
\* files earlier runs left that failed, crashed or were interrupted.
CoverageIsOfThisRun ==
    pc = "exit" /\ kind = "cov" /\ ~err => RowsOfThisRun(html)

\* When a command with a JUnit directory succeeds, report will show every program
\* it ran as passed, whatever was in its file before, unless the program could not
\* open it.  The file of a program that crashes or is interrupted may be of an
\* earlier run.
ReportOfSuccess ==
    pc \in {"returned", "exit"} /\ ~err /\ junit =>
      \A p \in ran \ unopened : xml[p] = "passes"

\* While watch is not interrupted it comes to a state in which it has looked at
\* every source as it is now: no edit is missed for good, not even one made while
\* the programs are being built or run.
WatchCatchesUp ==
    kind = "watch" ~> (kind # "watch" \/ seen = src)
=============================================================================
