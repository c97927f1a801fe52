----------------------------- MODULE CliProofs -----------------------------
(***************************************************************************)
(* What `ceedless test` promises for any number of test files, any -j and, *)
(* where the base names differ, any test files.                            *)
(***************************************************************************)
EXTENDS CliTest, FiniteSetTheorems, SequenceTheorems, TLAPS

\* The tests are finitely many.
LEMMA TestsFinite ==
    /\ IsFiniteSet(Tests) /\ Cardinality(Tests) = NumTests
    /\ \A S \in SUBSET Tests : IsFiniteSet(S) /\ Cardinality(S) \in 0 .. NumTests
<1>1. NumTests \in Nat /\ NumTests > 0
  BY CliAssumption
<1>2. IsFiniteSet(Tests) /\ Cardinality(Tests) = NumTests
  BY <1>1, FS_Interval DEF Tests
<1>3. ASSUME NEW S \in SUBSET Tests
      PROVE  IsFiniteSet(S) /\ Cardinality(S) \in 0 .. NumTests
  <2>1. IsFiniteSet(S) /\ Cardinality(S) <= NumTests
    BY <1>2, FS_Subset
  <2>2. Cardinality(S) \in Nat
    BY <2>1, FS_CardinalityType
  <2> QED
    BY <1>1, <2>1, <2>2
<1> QED
  BY <1>2, <1>3
-----------------------------------------------------------------------------
\* The types, without what counting goroutines gives.
Places == {"none", "synth", "write", "compile", "link", "send", "release",
           "finish", "finished"}
Answered == {"send", "release", "finish", "finished"}
Result == [test : Tests, outcome : {"built", "error"}]

Types ==
    /\ quality \in [Tests -> Qualities]
    /\ pc \in {"spawn", "collect", "run", "done"}
    /\ next \in 1 .. NumTests + 1
    /\ worker \in [Tests -> Places] /\ outcome \in [Tests -> {"none", "built", "error"}]
    /\ \A t \in Tests : worker[t] \in Answered => outcome[t] # "none"
    /\ closed \in BOOLEAN
    /\ status \in 0 .. 2

FileTypes ==
    /\ runner \in [Stems -> 0 .. NumTests] /\ bin \in [Stems -> 0 .. NumTests]
    /\ input \in [Tests -> 0 .. NumTests]
    /\ runs \in Seq([test : Tests, code : 0 .. NumTests])

ResultTypes ==
    /\ results \in Seq(Result) /\ built \subseteq Tests /\ fails \in Nat

\* The goroutines that WaitGroup counts.
Live == {t \in Tests : worker[t] \notin {"none", "finished"}}

Counted ==
    /\ sem = Cardinality(Holders) /\ sem <= Jobs
    /\ wg = Cardinality(Live)

\* The tests before next were started, and all have finished when Wait is over.
Progress ==
    /\ pc = "spawn" => \A t \in Tests : worker[t] = "none" <=> t >= next
    /\ pc # "spawn" => \A t \in Tests : worker[t] = "finished"
    /\ closed <=> pc # "spawn"

\* A test that has sent its result is in the channel or counted, and only once.
Sent == {t \in Tests : worker[t] \in {"release", "finish", "finished"}}

Tallied ==
    /\ built \subseteq Sent
    /\ \A k \in DOMAIN results : results[k].test \in Sent \ built
    /\ \A j, k \in DOMAIN results : results[j].test = results[k].test => j = k
    /\ Len(results) + Cardinality(built) + fails = Cardinality(Sent)

PoolInv == Types /\ FileTypes /\ ResultTypes /\ Counted /\ Progress /\ Tallied
-----------------------------------------------------------------------------
\* Before the first goroutine there is nothing to count.
LEMMA InitPool == Init => PoolInv
<1> SUFFICES ASSUME Init PROVE PoolInv
  OBVIOUS
<1>1. NumTests \in Nat /\ NumTests > 0 /\ Jobs \in Nat
  BY CliAssumption
<1>2. Holders = {} /\ Live = {} /\ Sent = {} /\ Cardinality({}) = 0
  BY FS_EmptySet DEF Init, Holders, Live, Sent
<1>3. Types
  <2>1. worker \in [Tests -> Places] /\ outcome \in [Tests -> {"none", "built", "error"}]
    BY DEF Init, Places
  <2>2. \A t \in Tests : worker[t] \notin Answered
    BY DEF Init, Answered
  <2>3. /\ quality \in [Tests -> Qualities] /\ pc \in {"spawn", "collect", "run", "done"}
        /\ closed \in BOOLEAN
    BY DEF Init
  <2>4. next = 1 /\ status = 2
    BY DEF Init
  <2>5. next \in 1 .. NumTests + 1 /\ status \in 0 .. 2
    BY <1>1, <2>4
  <2> QED
    BY <2>1, <2>2, <2>3, <2>5 DEF Types
<1>4. FileTypes /\ ResultTypes
  BY <1>1 DEF Init, FileTypes, ResultTypes
<1>5. Counted /\ Tallied
  BY <1>1, <1>2 DEF Init, Counted, Tallied
<1>6. Progress
  BY <1>1 DEF Init, Progress, Tests
<1> QED
  BY <1>3, <1>4, <1>5, <1>6 DEF PoolInv

\* Every step keeps the types of the pool.
LEMMA TypesKept == PoolInv /\ [Next]_vars => Types'
<1> SUFFICES ASSUME PoolInv, [Next]_vars PROVE Types'
  OBVIOUS
<1>1. NumTests \in Nat /\ NumTests > 0 /\ Types
  BY CliAssumption DEF PoolInv
<1>2. CASE Spawn
  BY <1>1, <1>2 DEF Spawn, Types, Places, Answered, Tests, channel, files, tally
<1>3. CASE Wait \/ Collect \/ UNCHANGED vars
  BY <1>1, <1>3 DEF Wait, Collect, Types, Answered, vars, pool, channel, files, tally
<1>6. CASE Report
  BY <1>1, <1>6 DEF Report, Types, Answered, pool, channel
<1>4. CASE Collected \/ RunProgram
  BY <1>1, <1>4 DEF Collected, RunProgram, Types, Answered, pool, channel, files, tally
<1>5. ASSUME NEW t \in Tests, Worker(t) PROVE Types'
  BY <1>1, <1>5 DEF Worker, SynthOpen, SynthWrite, SynthFails, CompileRead, CompileWrite,
     Send, Release, WgDone, Step, Types, Places, Answered, channel, files, tally
<1> QED
  BY <1>2, <1>3, <1>4, <1>5, <1>6 DEF Next, Main, Terminated

\* Programs are built from runner files, which hold tests.
LEMMA FilesKept == PoolInv /\ [Next]_vars => FileTypes'
<1> SUFFICES ASSUME PoolInv, [Next]_vars PROVE FileTypes'
  OBVIOUS
<1>1. NumTests \in Nat /\ NumTests > 0 /\ FileTypes /\ StemOf \in [Tests -> Stems]
  BY CliAssumption DEF PoolInv
<1>2. CASE RunProgram
  <2>1. next \in Tests /\ StemOf[next] \in Stems
    BY <1>1, <1>2 DEF RunProgram, PoolInv, Types, Tests
  <2>2. [test |-> next, code |-> bin[StemOf[next]]] \in [test : Tests, code : 0 .. NumTests]
    BY <1>1, <2>1 DEF FileTypes
  <2> QED
    BY <1>1, <1>2, <2>2, AppendProperties DEF RunProgram, FileTypes, files
<1>3. CASE Spawn \/ Wait \/ Collect \/ Collected \/ Report \/ UNCHANGED vars
  BY <1>1, <1>3 DEF Spawn, Wait, Collect, Collected, Report, FileTypes, files, tally, vars
<1>4. ASSUME NEW t \in Tests, SynthOpen(t) \/ SynthWrite(t) \/ CompileRead(t) \/ CompileWrite(t)
      PROVE  FileTypes'
  <2>1. /\ StemOf[t] \in Stems /\ 0 \in 0 .. NumTests /\ t \in 0 .. NumTests
        /\ runner[StemOf[t]] \in 0 .. NumTests /\ input[t] \in 0 .. NumTests
    BY <1>1 DEF Tests, FileTypes
  <2>2. CASE SynthOpen(t) \/ SynthWrite(t)
    BY <1>1, <2>1, <2>2 DEF SynthOpen, SynthWrite, FileTypes, tally
  <2>3. CASE CompileRead(t)
    BY <1>1, <2>1, <2>3 DEF CompileRead, FileTypes, tally
  <2>4. CASE CompileWrite(t)
    BY <1>1, <2>1, <2>4 DEF CompileWrite, FileTypes, tally
  <2> QED
    BY <1>4, <2>2, <2>3, <2>4
<1>5. ASSUME NEW t \in Tests, SynthFails(t) \/ Send(t) \/ Release(t) \/ WgDone(t)
      PROVE  FileTypes'
  BY <1>1, <1>5 DEF SynthFails, Send, Release, WgDone, FileTypes, files, tally
<1> QED
  BY <1>2, <1>3, <1>4, <1>5 DEF Next, Main, Terminated, Worker

\* What the channel holds are results of tests.
LEMMA ResultsKept == PoolInv /\ [Next]_vars => ResultTypes'
<1> SUFFICES ASSUME PoolInv, [Next]_vars PROVE ResultTypes'
  OBVIOUS
<1>1. ResultTypes /\ Types
  BY DEF PoolInv
<1>2. CASE Collect
  <2>1. Head(results) \in Result /\ Tail(results) \in Seq(Result)
    BY <1>1, <1>2, HeadTailProperties DEF Collect, ResultTypes
  <2> QED
    BY <1>1, <1>2, <2>1 DEF Collect, ResultTypes, Result
<1>3. ASSUME NEW t \in Tests, Send(t) PROVE ResultTypes'
  <2>1. outcome[t] \in {"built", "error"}
    BY <1>1, <1>3 DEF Send, Step, Types, Answered
  <2>2. [test |-> t, outcome |-> outcome[t]] \in Result
    BY <2>1 DEF Result
  <2> QED
    BY <1>1, <1>3, <2>2, AppendProperties DEF Send, ResultTypes, tally
<1>4. CASE Spawn \/ Wait \/ Collected \/ RunProgram \/ Report \/ UNCHANGED vars
  BY <1>1, <1>4 DEF Spawn, Wait, Collected, RunProgram, Report, ResultTypes, channel, tally, vars
<1>5. ASSUME NEW t \in Tests,
             \/ SynthOpen(t) \/ SynthWrite(t) \/ SynthFails(t) \/ CompileRead(t)
             \/ CompileWrite(t) \/ Release(t) \/ WgDone(t)
      PROVE  ResultTypes'
  BY <1>1, <1>5 DEF SynthOpen, SynthWrite, SynthFails, CompileRead, CompileWrite, Release,
     WgDone, ResultTypes, channel, tally
<1> QED
  BY <1>2, <1>3, <1>4, <1>5 DEF Next, Main, Terminated, Worker

\* The semaphore and the WaitGroup count the goroutines they are meant to.
LEMMA CountsKept == PoolInv /\ [Next]_vars => Counted'
<1> SUFFICES ASSUME PoolInv, [Next]_vars PROVE Counted'
  OBVIOUS
<1>1. /\ worker \in [Tests -> Places] /\ Jobs \in Nat
      /\ sem = Cardinality(Holders) /\ sem <= Jobs /\ wg = Cardinality(Live)
  BY CliAssumption DEF PoolInv, Types, Counted
<1>2. /\ IsFiniteSet(Holders) /\ Cardinality(Holders) \in Nat
      /\ IsFiniteSet(Live) /\ Cardinality(Live) \in Nat
  BY TestsFinite, FS_CardinalityType DEF Holders, Live
<1>3. CASE Spawn
  <2>1. next \in Tests /\ worker[next] = "none"
    BY <1>3, CliAssumption DEF Spawn, PoolInv, Types, Progress, Tests
  <2>2. Holders' = Holders \cup {next} /\ Live' = Live \cup {next}
    BY <1>1, <1>3, <2>1 DEF Spawn, Holders, Live
  <2>3. next \notin Holders /\ next \notin Live
    BY <2>1 DEF Holders, Live
  <2>4. Cardinality(Holders') = Cardinality(Holders) + 1
    BY <1>2, <2>2, <2>3, FS_AddElement
  <2>5. Cardinality(Live') = Cardinality(Live) + 1
    BY <1>2, <2>2, <2>3, FS_AddElement
  <2> QED
    BY <1>1, <1>2, <1>3, <2>4, <2>5 DEF Spawn, Counted
<1>4. ASSUME NEW t \in Tests, Release(t) PROVE Counted'
  <2>1. worker[t] = "release" /\ worker' = [worker EXCEPT ![t] = "finish"]
    BY <1>4 DEF Release, Step
  <2>2. Holders' = Holders \ {t} /\ Live' = Live /\ t \in Holders
    BY <1>1, <2>1 DEF Holders, Live
  <2>3. Cardinality(Holders') = Cardinality(Holders) - 1
    BY <1>2, <2>2, FS_RemoveElement
  <2> QED
    BY <1>1, <1>2, <1>4, <2>2, <2>3 DEF Release, Counted
<1>5. ASSUME NEW t \in Tests, WgDone(t) PROVE Counted'
  <2>1. worker[t] = "finish" /\ worker' = [worker EXCEPT ![t] = "finished"]
    BY <1>5 DEF WgDone, Step
  <2>2. Live' = Live \ {t} /\ Holders' = Holders /\ t \in Live
    BY <1>1, <2>1 DEF Holders, Live
  <2>3. Cardinality(Live') = Cardinality(Live) - 1
    BY <1>2, <2>2, FS_RemoveElement
  <2> QED
    BY <1>1, <1>2, <1>5, <2>2, <2>3 DEF WgDone, Counted
<1>6. ASSUME NEW t \in Tests,
             \/ SynthOpen(t) \/ SynthWrite(t) \/ SynthFails(t) \/ CompileRead(t)
             \/ CompileWrite(t) \/ Send(t)
      PROVE  Counted'
  <2>1. /\ worker[t] \notin {"none", "finish", "finished"}
        /\ \E to \in Places : /\ worker' = [worker EXCEPT ![t] = to]
                              /\ to \notin {"none", "finish", "finished"}
        /\ sem' = sem /\ wg' = wg
    BY <1>6 DEF SynthOpen, SynthWrite, SynthFails, CompileRead, CompileWrite, Send, Step, Places
  <2>2. Holders' = Holders /\ Live' = Live
    BY <1>1, <2>1 DEF Holders, Live
  <2> QED
    BY <1>1, <2>1, <2>2 DEF Counted
<1>7. CASE Wait \/ Collect \/ Collected \/ RunProgram \/ Report \/ UNCHANGED vars
  BY <1>1, <1>7 DEF Wait, Collect, Collected, RunProgram, Report, Counted, Holders, Live, pool, vars
<1> QED
  BY <1>3, <1>4, <1>5, <1>6, <1>7 DEF Next, Main, Terminated, Worker

\* Wait is over only when no goroutine is left.
LEMMA ProgressKept == PoolInv /\ [Next]_vars => Progress'
<1> SUFFICES ASSUME PoolInv, [Next]_vars PROVE Progress'
  OBVIOUS
<1>1. /\ worker \in [Tests -> Places] /\ next \in 1 .. NumTests + 1 /\ NumTests \in Nat
      /\ pc = "spawn" => \A t \in Tests : worker[t] = "none" <=> t >= next
      /\ pc # "spawn" => \A t \in Tests : worker[t] = "finished"
      /\ closed <=> pc # "spawn"
  BY CliAssumption DEF PoolInv, Types, Progress
<1>2. CASE Spawn
  <2>1. /\ pc = "spawn" /\ pc' = pc /\ next \in Tests /\ closed' = closed
        /\ worker' = [worker EXCEPT ![next] = "synth"] /\ next' = next + 1
    BY <1>1, <1>2 DEF Spawn, Tests, channel
  <2>2. ASSUME NEW t \in Tests PROVE worker'[t] = "none" <=> t >= next + 1
    BY <1>1, <2>1 DEF Tests
  <2> QED
    BY <1>1, <2>1, <2>2 DEF Progress
<1>3. CASE Wait
  <2>1. /\ pc = "spawn" /\ pc' = "collect" /\ closed' = TRUE /\ worker' = worker
        /\ next > NumTests /\ wg = 0
    BY <1>3 DEF Wait, pool
  <2>2. Live = {}
    BY <2>1, TestsFinite, FS_EmptySet DEF PoolInv, Counted, Live
  <2>3. ASSUME NEW t \in Tests PROVE worker[t] = "finished"
    <3>1. worker[t] # "none"
      BY <1>1, <2>1 DEF Tests
    <3> QED
      BY <2>2, <3>1 DEF Live
  <2> QED
    BY <2>1, <2>3 DEF Progress
<1>4. ASSUME NEW t \in Tests, Worker(t) PROVE Progress'
  <2>1. /\ worker[t] \notin {"none", "finished"} /\ UNCHANGED <<pc, next, closed>>
        /\ \E to \in Places : worker' = [worker EXCEPT ![t] = to] /\ to # "none"
    BY <1>4 DEF Worker, SynthOpen, SynthWrite, SynthFails, CompileRead, CompileWrite, Send,
       Release, WgDone, Step, Places, channel
  <2>2. pc = "spawn" /\ \A u \in Tests : worker'[u] = "none" <=> worker[u] = "none"
    BY <1>1, <2>1
  <2> QED
    BY <1>1, <2>1, <2>2 DEF Progress
<1>5. CASE Collect \/ UNCHANGED vars
  BY <1>1, <1>5 DEF Collect, Progress, pool, channel, vars
<1>6. CASE Collected \/ RunProgram \/ Report
  <2>1. pc # "spawn" /\ pc' # "spawn" /\ worker' = worker /\ closed' = closed
    BY <1>6 DEF Collected, RunProgram, Report, pool, channel
  <2> QED
    BY <1>1, <2>1 DEF Progress
<1> QED
  BY <1>2, <1>3, <1>4, <1>5, <1>6 DEF Next, Main, Terminated

\* A test's result enters the channel once and is counted once.
LEMMA TallyKept == PoolInv /\ [Next]_vars => Tallied'
<1> SUFFICES ASSUME PoolInv, [Next]_vars PROVE Tallied'
  OBVIOUS
<1>1. /\ worker \in [Tests -> Places] /\ results \in Seq(Result) /\ Len(results) \in Nat
      /\ built \subseteq Sent /\ fails \in Nat
      /\ \A k \in DOMAIN results : results[k].test \in Sent \ built
      /\ \A j, k \in DOMAIN results : results[j].test = results[k].test => j = k
      /\ Len(results) + Cardinality(built) + fails = Cardinality(Sent)
  BY DEF PoolInv, Types, ResultTypes, Tallied
<1>2. /\ IsFiniteSet(Sent) /\ Cardinality(Sent) \in Nat
      /\ IsFiniteSet(built) /\ Cardinality(built) \in Nat
  BY TestsFinite DEF Sent, PoolInv, ResultTypes
<1>3. ASSUME NEW t \in Tests, Send(t) PROVE Tallied'
  <2> DEFINE r == [test |-> t, outcome |-> outcome[t]]
  <2>1. /\ worker[t] = "send" /\ worker' = [worker EXCEPT ![t] = "release"]
        /\ results' = Append(results, r) /\ built' = built /\ fails' = fails
    BY <1>3 DEF Send, Step, tally
  <2>2. Sent' = Sent \cup {t} /\ t \notin Sent
    BY <1>1, <2>1 DEF Sent
  <2>3. Cardinality(Sent') = Cardinality(Sent) + 1
    BY <1>2, <2>2, FS_AddElement
  <2>4. /\ Len(results') = Len(results) + 1 /\ DOMAIN results' = 1 .. Len(results) + 1
        /\ \A k \in 1 .. Len(results) : results'[k] = results[k]
        /\ results'[Len(results) + 1].test = t
    BY <1>1, <2>1
  <2>5. ASSUME NEW k \in DOMAIN results' PROVE results'[k].test \in Sent' \ built'
    BY <1>1, <2>1, <2>2, <2>4
  <2>6. ASSUME NEW j \in DOMAIN results', NEW k \in DOMAIN results',
               results'[j].test = results'[k].test
        PROVE  j = k
    BY <1>1, <2>2, <2>4, <2>6
  <2>7. Len(results') + Cardinality(built') + fails' = Cardinality(Sent')
    BY <1>1, <1>2, <2>1, <2>3, <2>4
  <2> QED
    BY <1>1, <2>1, <2>2, <2>5, <2>6, <2>7 DEF Tallied
<1>4. CASE Collect
  <2>1. /\ results # << >> /\ results' = Tail(results) /\ Sent' = Sent
        /\ IF Head(results).outcome = "error"
           THEN fails' = fails + 1 /\ built' = built
           ELSE built' = built \cup {Head(results).test} /\ fails' = fails
    BY <1>4 DEF Collect, pool, Sent
  <2>2. /\ Len(results) >= 1 /\ Head(results) = results[1] /\ 1 \in DOMAIN results
        /\ Len(results') = Len(results) - 1 /\ DOMAIN results' = 1 .. Len(results) - 1
        /\ \A k \in DOMAIN results' : k + 1 \in DOMAIN results /\ results'[k] = results[k + 1]
    BY <1>1, <2>1
  <2>3. ASSUME NEW k \in DOMAIN results' PROVE results'[k].test \in Sent \ built'
    <3>1. results'[k].test \in Sent \ built /\ results'[k].test # results[1].test
      <4>1. k + 1 # 1
        BY <2>2
      <4> QED
        BY <1>1, <2>2, <4>1
    <3> QED
      BY <2>1, <2>2, <3>1
  <2>4. ASSUME NEW j \in DOMAIN results', NEW k \in DOMAIN results',
               results'[j].test = results'[k].test
        PROVE  j = k
    <3>1. j + 1 = k + 1
      BY <1>1, <2>2, <2>4
    <3> QED
      BY <2>2, <3>1
  <2>5. built' \subseteq Sent /\ Len(results') + Cardinality(built') + fails' = Cardinality(Sent)
    <3>1. CASE Head(results).outcome = "error"
      BY <1>1, <1>2, <2>1, <2>2, <3>1
    <3>2. CASE Head(results).outcome # "error"
      <4>1. results[1].test \in Sent \ built
        BY <1>1, <2>2
      <4>2. Cardinality(built') = Cardinality(built) + 1
        BY <1>2, <2>1, <2>2, <3>2, <4>1, FS_AddElement
      <4>3. built' = built \cup {results[1].test} /\ fails' = fails
        BY <2>1, <2>2, <3>2
      <4>4. Len(results') + Cardinality(built') + fails' = Cardinality(Sent)
        BY <1>1, <1>2, <2>2, <4>2, <4>3
      <4> QED
        BY <1>1, <4>1, <4>3, <4>4
    <3> QED
      BY <3>1, <3>2
  <2> QED
    BY <2>1, <2>3, <2>4, <2>5 DEF Tallied
<1>5. ASSUME Sent' = Sent, UNCHANGED <<results, built, fails>> PROVE Tallied'
  BY <1>1, <1>5 DEF Tallied
<1>6. CASE Spawn
  <2>1. next \in Tests /\ worker[next] = "none" /\ worker' = [worker EXCEPT ![next] = "synth"]
    BY <1>6, CliAssumption DEF Spawn, PoolInv, Types, Progress, Tests
  <2>2. Sent' = Sent
    BY <1>1, <2>1 DEF Sent
  <2> QED
    BY <1>5, <1>6, <2>2 DEF Spawn, channel, tally
<1>7. ASSUME NEW t \in Tests,
             \/ SynthOpen(t) \/ SynthWrite(t) \/ SynthFails(t) \/ CompileRead(t)
             \/ CompileWrite(t) \/ Release(t) \/ WgDone(t)
      PROVE  Tallied'
  <2>1. /\ UNCHANGED <<results, built, fails>>
        /\ \E to \in Places :
             /\ worker' = [worker EXCEPT ![t] = to]
             /\ to \in {"release", "finish", "finished"}
                  <=> worker[t] \in {"release", "finish", "finished"}
    BY <1>7 DEF SynthOpen, SynthWrite, SynthFails, CompileRead, CompileWrite, Release, WgDone,
       Step, Places, channel, tally
  <2>2. Sent' = Sent
    BY <1>1, <2>1 DEF Sent
  <2> QED
    BY <1>5, <2>1, <2>2
<1>8. CASE Wait \/ Collected \/ RunProgram \/ Report \/ UNCHANGED vars
  BY <1>5, <1>8 DEF Wait, Collected, RunProgram, Report, Sent, pool, channel, tally, vars
<1> QED
  BY <1>3, <1>4, <1>6, <1>7, <1>8 DEF Next, Main, Terminated, Worker

LEMMA PoolKept == PoolInv /\ [Next]_vars => PoolInv'
BY TypesKept, FilesKept, ResultsKept, CountsKept, ProgressKept, TallyKept DEF PoolInv
-----------------------------------------------------------------------------
\* The command's variables keep their types, for any number of tests and jobs.
THEOREM TypeCorrect == Spec => []TypeOK
<1>1. PoolInv => TypeOK
  <2> SUFFICES ASSUME PoolInv PROVE TypeOK
    OBVIOUS
  <2>1. Cardinality(Live) \in 0 .. NumTests /\ Cardinality(Holders) \in Nat
    BY TestsFinite DEF Live, Holders
  <2>2. sem \in 0 .. Jobs /\ wg \in 0 .. NumTests
    BY <2>1, CliAssumption DEF PoolInv, Counted
  <2> QED
    BY <2>2 DEF PoolInv, Types, FileTypes, ResultTypes, Result, Places, TypeOK
<1> QED
  BY InitPool, PoolKept, <1>1, PTL DEF Spec

\* No more than Jobs tests are being built at any time, in every interleaving.
THEOREM JobsHold == Spec => []JobsRespected
<1>1. PoolInv => JobsRespected
  BY DEF PoolInv, Counted, JobsRespected
<1> QED
  BY InitPool, PoolKept, <1>1, PTL DEF Spec

\* The channel is closed behind the last send, and each test has one result.
THEOREM CloseHolds == Spec => []CloseIsSafe
<1>1. PoolInv => CloseIsSafe
  <2> SUFFICES ASSUME PoolInv, closed PROVE CloseIsSafe
    BY DEF CloseIsSafe
  <2>1. \A t \in Tests : worker[t] = "finished"
    BY DEF PoolInv, Progress
  <2>2. Sent = Tests
    BY <2>1 DEF Sent
  <2> QED
    BY <2>1, <2>2, TestsFinite DEF PoolInv, Tallied, CloseIsSafe
<1> QED
  BY InitPool, PoolKept, <1>1, PTL DEF Spec
-----------------------------------------------------------------------------
\* The base names of the test files differ.
StemsDiffer == \A t, u \in Tests : StemOf[t] = StemOf[u] => t = u

\* What a goroutine left in its files is there when it comes back to them.
Builds ==
    \A t \in Tests :
      /\ worker[t] = "compile" => runner[StemOf[t]] = t
      /\ worker[t] = "link" => input[t] = t
      /\ outcome[t] = "built" => bin[StemOf[t]] = t /\ quality[t] # "broken"
      /\ outcome[t] = "error" => quality[t] = "broken"

\* The channel and the count of failures tell the outcomes.
Reports ==
    /\ \A k \in DOMAIN results : results[k].outcome = outcome[results[k].test]
    /\ \A t \in built : outcome[t] = "built"
    /\ \A t \in Sent \ built : (\E k \in DOMAIN results : results[k].test = t) \/ fails > 0
    /\ fails > 0 => \E t \in Tests : quality[t] = "broken"

\* Programs are run when all are built, one after another.
Programs ==
    /\ pc \in {"spawn", "collect"} => runs = << >>
    /\ pc = "run" => built = Tests /\ Len(runs) = next - 1
    /\ \A k \in DOMAIN runs : runs[k].test = k /\ runs[k].code = k

OwnInv == PoolInv /\ Builds /\ Reports /\ Programs /\ StatusIsTruthful

\* No step changes what the test files hold.
LEMMA QualityStays == [Next]_vars => quality' = quality
BY DEF Next, Main, Terminated, Worker, Spawn, Wait, Collect, Collected, RunProgram, Report,
   SynthOpen, SynthWrite, SynthFails, CompileRead, CompileWrite, Send, Release, WgDone, vars

LEMMA InitOwn == Init => OwnInv
<1> SUFFICES ASSUME Init PROVE OwnInv
  OBVIOUS
<1>1. Sent = {}
  BY DEF Init, Sent
<1>2. \A t \in Tests : worker[t] = "none" /\ outcome[t] = "none"
  BY DEF Init
<1>3. Builds
  BY <1>2 DEF Builds
<1>4. Reports /\ Programs /\ StatusIsTruthful
  BY <1>1 DEF Init, Reports, Programs, StatusIsTruthful
<1> QED
  BY <1>3, <1>4, InitPool DEF OwnInv

\* No other goroutine touches the files of a test whose base name is its own.
LEMMA BuildsKept ==
    ASSUME StemsDiffer, OwnInv, [Next]_vars
    PROVE  Builds'
<1>1. /\ worker \in [Tests -> Places] /\ outcome \in [Tests -> {"none", "built", "error"}]
      /\ runner \in [Stems -> 0 .. NumTests] /\ bin \in [Stems -> 0 .. NumTests]
      /\ input \in [Tests -> 0 .. NumTests] /\ StemOf \in [Tests -> Stems]
      /\ quality \in [Tests -> Qualities] /\ quality' = quality
  BY CliAssumption, QualityStays DEF OwnInv, PoolInv, Types, FileTypes
<1>2. \A t \in Tests :
        /\ worker[t] = "compile" => runner[StemOf[t]] = t
        /\ worker[t] = "link" => input[t] = t
        /\ outcome[t] = "built" => bin[StemOf[t]] = t /\ quality[t] # "broken"
        /\ outcome[t] = "error" => quality[t] = "broken"
  BY DEF OwnInv, Builds
<1>3. ASSUME NEW t \in Tests, SynthOpen(t) \/ SynthWrite(t) PROVE Builds'
  <2>1. /\ worker[t] \in {"synth", "write"}
        /\ \E to \in Places, c \in {0, t} :
             /\ worker' = [worker EXCEPT ![t] = to] /\ to # "link"
             /\ runner' = [runner EXCEPT ![StemOf[t]] = c]
             /\ to = "compile" => c = t
        /\ UNCHANGED <<outcome, input, bin>>
    BY <1>3 DEF SynthOpen, SynthWrite, Step, Places
  <2>2. ASSUME NEW u \in Tests, u # t
        PROVE  worker'[u] = worker[u] /\ runner'[StemOf[u]] = runner[StemOf[u]]
    BY <1>1, <2>1, <2>2 DEF StemsDiffer
  <2>3. /\ worker'[t] = "compile" => runner'[StemOf[t]] = t
        /\ worker'[t] # "link"
    BY <1>1, <2>1
  <2> QED
    BY <1>1, <1>2, <2>1, <2>2, <2>3 DEF Builds
<1>4. ASSUME NEW t \in Tests, SynthFails(t) PROVE Builds'
  <2>1. /\ worker' = [worker EXCEPT ![t] = "send"] /\ quality[t] = "broken"
        /\ outcome' = [outcome EXCEPT ![t] = "error"] /\ UNCHANGED <<runner, input, bin>>
    BY <1>4 DEF SynthFails, Step, files
  <2> QED
    BY <1>1, <1>2, <2>1 DEF Builds
<1>5. ASSUME NEW t \in Tests, CompileRead(t) PROVE Builds'
  <2>1. /\ worker[t] = "compile" /\ worker' = [worker EXCEPT ![t] = "link"]
        /\ input' = [input EXCEPT ![t] = runner[StemOf[t]]] /\ UNCHANGED <<outcome, runner, bin>>
    BY <1>5 DEF CompileRead, Step
  <2> QED
    BY <1>1, <1>2, <2>1 DEF Builds
<1>6. ASSUME NEW t \in Tests, CompileWrite(t) PROVE Builds'
  <2>1. /\ worker[t] = "link" /\ worker' = [worker EXCEPT ![t] = "send"]
        /\ UNCHANGED <<runner, input>> /\ input[t] = t /\ t # 0
    BY <1>2, <1>6 DEF CompileWrite, Step, Tests
  <2>2. CASE quality[t] # "broken"
    <3>1. bin' = [bin EXCEPT ![StemOf[t]] = t] /\ outcome' = [outcome EXCEPT ![t] = "built"]
      BY <1>6, <2>1, <2>2 DEF CompileWrite, Compiles
    <3>2. ASSUME NEW u \in Tests, u # t
          PROVE  bin'[StemOf[u]] = bin[StemOf[u]] /\ outcome'[u] = outcome[u]
      BY <1>1, <3>1, <3>2 DEF StemsDiffer
    <3>3. bin'[StemOf[t]] = t /\ outcome'[t] = "built"
      BY <1>1, <3>1 DEF Tests
    <3> QED
      BY <1>1, <1>2, <2>1, <2>2, <3>2, <3>3 DEF Builds
  <2>3. CASE quality[t] = "broken"
    <3>1. bin' = bin /\ outcome' = [outcome EXCEPT ![t] = "error"]
      BY <1>6, <2>1, <2>3 DEF CompileWrite, Compiles
    <3> QED
      BY <1>1, <1>2, <2>1, <2>3, <3>1 DEF Builds
  <2> QED
    BY <2>2, <2>3
<1>7. ASSUME NEW t \in Tests, Send(t) \/ Release(t) \/ WgDone(t) PROVE Builds'
  <2>1. /\ UNCHANGED <<outcome, runner, input, bin>>
        /\ \E to \in {"release", "finish", "finished"} : worker' = [worker EXCEPT ![t] = to]
    BY <1>7 DEF Send, Release, WgDone, Step, files
  <2> QED
    BY <1>1, <1>2, <2>1 DEF Builds
<1>8. CASE Spawn
  <2>1. /\ UNCHANGED <<outcome, runner, input, bin>>
        /\ worker' = [worker EXCEPT ![next] = "synth"]
    BY <1>8 DEF Spawn, files
  <2> QED
    BY <1>1, <1>2, <2>1 DEF Builds
<1>9. CASE Wait \/ Collect \/ Collected \/ RunProgram \/ Report \/ UNCHANGED vars
  BY <1>1, <1>2, <1>9 DEF Wait, Collect, Collected, RunProgram, Report, Builds, pool, files, vars
<1> QED
  BY <1>3, <1>4, <1>5, <1>6, <1>7, <1>8, <1>9 DEF Next, Main, Terminated, Worker

\* Results and counts are those of the goroutines that sent them.
LEMMA ReportsKept ==
    ASSUME OwnInv, [Next]_vars
    PROVE  Reports'
<1>1. /\ worker \in [Tests -> Places] /\ outcome \in [Tests -> {"none", "built", "error"}]
      /\ results \in Seq(Result) /\ Len(results) \in Nat /\ fails \in Nat
      /\ built \subseteq Sent /\ Sent \subseteq Tests
      /\ \A k \in DOMAIN results : results[k].test \in Sent
      /\ quality' = quality
  <2>1. /\ worker \in [Tests -> Places] /\ outcome \in [Tests -> {"none", "built", "error"}]
        /\ results \in Seq(Result) /\ fails \in Nat
    BY DEF OwnInv, PoolInv, Types, ResultTypes
  <2>2. built \subseteq Sent /\ \A k \in DOMAIN results : results[k].test \in Sent
    BY DEF OwnInv, PoolInv, Tallied
  <2>3. Sent \subseteq Tests
    BY DEF Sent
  <2> QED
    BY <2>1, <2>2, <2>3, QualityStays
<1>2. /\ \A k \in DOMAIN results : results[k].outcome = outcome[results[k].test]
      /\ \A t \in built : outcome[t] = "built"
      /\ \A t \in Sent \ built : (\E k \in DOMAIN results : results[k].test = t) \/ fails > 0
      /\ fails > 0 => \E t \in Tests : quality[t] = "broken"
  BY DEF OwnInv, Reports
<1>3. ASSUME NEW t \in Tests, Send(t) PROVE Reports'
  <2> DEFINE r == [test |-> t, outcome |-> outcome[t]]
  <2>1. /\ worker[t] = "send" /\ worker' = [worker EXCEPT ![t] = "release"]
        /\ results' = Append(results, r) /\ built' = built /\ fails' = fails
        /\ outcome' = outcome
    BY <1>3 DEF Send, Step, tally
  <2>2. Sent' = Sent \cup {t}
    BY <1>1, <2>1 DEF Sent
  <2>3. /\ DOMAIN results' = 1 .. Len(results) + 1 /\ DOMAIN results = 1 .. Len(results)
        /\ \A k \in 1 .. Len(results) : results'[k] = results[k]
        /\ results'[Len(results) + 1] = r
    BY <1>1, <2>1
  <2>4. \A k \in DOMAIN results' : results'[k].outcome = outcome[results'[k].test]
    BY <1>1, <1>2, <2>3
  <2>5. ASSUME NEW u \in Sent' \ built'
        PROVE  (\E k \in DOMAIN results' : results'[k].test = u) \/ fails > 0
    <3>1. CASE u = t
      <4>1. Len(results) + 1 \in DOMAIN results' /\ results'[Len(results) + 1].test = t
        BY <1>1, <2>3
      <4> QED
        BY <3>1, <4>1
    <3>2. CASE u # t
      <4>1. DOMAIN results \subseteq DOMAIN results'
        BY <1>1, <2>3
      <4> QED
        BY <1>2, <2>1, <2>2, <2>3, <3>2, <4>1
    <3> QED
      BY <3>1, <3>2
  <2> QED
    BY <1>1, <1>2, <2>1, <2>4, <2>5 DEF Reports
<1>4. CASE Collect
  <2>1. /\ results # << >> /\ results' = Tail(results) /\ Sent' = Sent /\ outcome' = outcome
        /\ IF Head(results).outcome = "error"
           THEN fails' = fails + 1 /\ built' = built
           ELSE built' = built \cup {Head(results).test} /\ fails' = fails
    BY <1>4 DEF Collect, pool, Sent
  <2>2. /\ Head(results) = results[1] /\ 1 \in DOMAIN results
        /\ DOMAIN results = 1 .. Len(results) /\ DOMAIN results' = 1 .. Len(results) - 1
        /\ \A k \in DOMAIN results' : k + 1 \in DOMAIN results /\ results'[k] = results[k + 1]
    BY <1>1, <2>1
  <2>3. \A k \in DOMAIN results' : results'[k].outcome = outcome[results'[k].test]
    BY <1>2, <2>2
  <2>4. results[1].test \in Tests /\ results[1].outcome = outcome[results[1].test]
    BY <1>1, <1>2, <2>2
  <2>5. CASE results[1].outcome = "error"
    <3>1. fails' = fails + 1 /\ built' = built /\ fails' > 0
      BY <1>1, <2>1, <2>2, <2>5
    <3>2. quality[results[1].test] = "broken"
      BY <2>4, <2>5 DEF OwnInv, Builds
    <3> QED
      BY <1>1, <1>2, <2>1, <2>3, <2>4, <3>1, <3>2 DEF Reports
  <2>6. CASE results[1].outcome # "error"
    <3>1. built' = built \cup {results[1].test} /\ fails' = fails
      BY <2>1, <2>2, <2>6
    <3>2. outcome[results[1].test] = "built"
      <4>1. results[1] \in Result
        BY <1>1, <2>2
      <4> QED
        BY <2>4, <2>6, <4>1 DEF Result
    <3>3. ASSUME NEW u \in Sent \ built', ~(fails > 0)
          PROVE  \E k \in DOMAIN results' : results'[k].test = u
      <4>1. PICK k \in DOMAIN results : results[k].test = u
        BY <1>2, <3>1, <3>3
      <4>2. k # 1
        BY <3>1, <4>1
      <4>3. k - 1 \in DOMAIN results' /\ results'[k - 1] = results[k]
        BY <1>1, <2>2, <4>2
      <4> QED
        BY <4>1, <4>3
    <3> QED
      BY <1>1, <1>2, <2>1, <2>3, <3>1, <3>2, <3>3 DEF Reports
  <2> QED
    BY <2>5, <2>6
<1>5. ASSUME Sent' = Sent, UNCHANGED <<results, built, fails>>,
             \A t \in Sent : outcome'[t] = outcome[t]
      PROVE  Reports'
  BY <1>1, <1>2, <1>5 DEF Reports
<1>6. CASE Spawn
  <2>1. /\ next \in Tests /\ worker[next] = "none" /\ outcome' = outcome
        /\ worker' = [worker EXCEPT ![next] = "synth"]
    BY <1>6, CliAssumption DEF Spawn, OwnInv, PoolInv, Types, Progress, Tests
  <2>2. Sent' = Sent
    BY <1>1, <2>1 DEF Sent
  <2> QED
    BY <1>5, <1>6, <2>1, <2>2 DEF Spawn, channel, tally
<1>7. ASSUME NEW t \in Tests,
             \/ SynthOpen(t) \/ SynthWrite(t) \/ SynthFails(t) \/ CompileRead(t)
             \/ CompileWrite(t) \/ Release(t) \/ WgDone(t)
      PROVE  Reports'
  <2>1. /\ UNCHANGED <<results, built, fails>>
        /\ \E to \in Places :
             /\ worker' = [worker EXCEPT ![t] = to]
             /\ to \in {"release", "finish", "finished"}
                  <=> worker[t] \in {"release", "finish", "finished"}
        /\ \/ outcome' = outcome
           \/ /\ worker[t] \in {"synth", "link"}
              /\ \E o \in {"built", "error"} : outcome' = [outcome EXCEPT ![t] = o]
    BY <1>7 DEF SynthOpen, SynthWrite, SynthFails, CompileRead, CompileWrite, Release, WgDone,
       Step, Places, channel, tally
  <2>2. Sent' = Sent
    BY <1>1, <2>1 DEF Sent
  <2>3. \A u \in Sent : outcome'[u] = outcome[u]
    BY <1>1, <2>1 DEF Sent
  <2> QED
    BY <1>5, <2>1, <2>2, <2>3
<1>8. CASE Wait \/ Collected \/ RunProgram \/ Report \/ UNCHANGED vars
  BY <1>5, <1>8 DEF Wait, Collected, RunProgram, Report, Sent, pool, channel, tally, vars
<1> QED
  BY <1>3, <1>4, <1>6, <1>7, <1>8 DEF Next, Main, Terminated, Worker

\* A program is run only when all are built, and is then its own test's.
LEMMA ProgramsKept ==
    ASSUME OwnInv, [Next]_vars
    PROVE  Programs'
<1>1. /\ pc = "spawn" \/ pc = "collect" => runs = << >>
      /\ pc = "run" => built = Tests /\ Len(runs) = next - 1
      /\ \A k \in DOMAIN runs : runs[k].test = k /\ runs[k].code = k
      /\ runs \in Seq([test : Tests, code : 0 .. NumTests]) /\ next \in Nat
      /\ pc \in {"spawn", "collect", "run", "done"}
  BY CliAssumption DEF OwnInv, Programs, PoolInv, Types, FileTypes
<1>2. CASE Collected
  <2>1. CASE fails > 0
    BY <1>1, <1>2, <2>1 DEF Collected, Programs
  <2>2. CASE ~(fails > 0)
    <3>1. /\ pc = "collect" /\ pc' = "run" /\ next' = 1 /\ runs' = runs /\ built' = built
          /\ results = << >>
      BY <1>2, <2>2 DEF Collected
    <3>2. Sent = Tests
      BY <3>1 DEF OwnInv, PoolInv, Progress, Sent
    <3>3. built = Tests
      <4>1. DOMAIN results = {}
        BY <3>1
      <4>2. \A t \in Sent \ built : FALSE
        BY <2>2, <4>1 DEF OwnInv, Reports
      <4>3. built \subseteq Tests
        BY DEF OwnInv, PoolInv, ResultTypes
      <4> QED
        BY <3>2, <4>2, <4>3
    <3> QED
      BY <1>1, <3>1, <3>3 DEF Programs
  <2> QED
    BY <2>1, <2>2
<1>3. CASE RunProgram
  <2> DEFINE p == [test |-> next, code |-> bin[StemOf[next]]]
  <2>1. /\ pc = "run" /\ pc' = "run" /\ next \in Tests /\ next' = next + 1
        /\ runs' = Append(runs, p) /\ built' = built
    BY <1>1, <1>3, CliAssumption DEF RunProgram, OwnInv, PoolInv, Types, Tests
  <2>2. bin[StemOf[next]] = next
    BY <1>1, <2>1 DEF OwnInv, Reports, Builds
  <2>3. /\ Len(runs') = Len(runs) + 1 /\ DOMAIN runs' = 1 .. Len(runs) + 1
        /\ DOMAIN runs = 1 .. Len(runs) /\ Len(runs) = next - 1
        /\ \A k \in 1 .. Len(runs) : runs'[k] = runs[k]
        /\ runs'[Len(runs) + 1] = p
    BY <1>1, <2>1
  <2>4. ASSUME NEW k \in DOMAIN runs' PROVE runs'[k].test = k /\ runs'[k].code = k
    <3>1. CASE k = next
      BY <1>1, <2>2, <2>3, <3>1
    <3>2. CASE k # next
      BY <1>1, <2>3, <3>2
    <3> QED
      BY <3>1, <3>2
  <2> QED
    BY <1>1, <2>1, <2>3, <2>4 DEF Programs
<1>4. CASE Report \/ Wait \/ UNCHANGED vars
  BY <1>1, <1>4 DEF Report, Wait, Programs, tally, vars
<1>5. CASE Spawn \/ Collect
  BY <1>1, <1>5 DEF Spawn, Collect, Programs, tally
<1>6. ASSUME NEW t \in Tests, Worker(t) PROVE Programs'
  BY <1>1, <1>6 DEF Worker, SynthOpen, SynthWrite, SynthFails, CompileRead, CompileWrite, Send,
     Release, WgDone, Programs, tally
<1> QED
  BY <1>2, <1>3, <1>4, <1>5, <1>6 DEF Next, Main, Terminated

\* The exit status is decided when all programs have run, or by a broken test.
LEMMA StatusKept ==
    ASSUME OwnInv, [Next]_vars
    PROVE  StatusIsTruthful'
<1>1. quality \in [Tests -> Qualities] /\ StatusIsTruthful
  BY DEF OwnInv, PoolInv, Types
<1>2. CASE Collected
  <2>1. CASE fails > 0
    <3>1. pc' = "done" /\ status' = 1 /\ quality' = quality
      BY <1>2, <2>1 DEF Collected
    <3>2. \E t \in Tests : quality[t] = "broken"
      BY <2>1 DEF OwnInv, Reports
    <3> QED
      BY <3>1, <3>2 DEF StatusIsTruthful
  <2>2. CASE ~(fails > 0)
    BY <1>2, <2>2 DEF Collected, StatusIsTruthful
  <2> QED
    BY <2>1, <2>2
<1>3. CASE Report
  <2> DEFINE Passing == {k \in Tests : quality[k] = "passes"}
  <2>1. /\ pc = "run" /\ next > NumTests /\ quality' = quality /\ pc' = "done"
        /\ status' = IF Pass = Len(runs) THEN 0 ELSE 1
    BY <1>3 DEF Report
  <2>2. Len(runs) = NumTests /\ DOMAIN runs = Tests
    <3>1. Len(runs) = next - 1 /\ next \in 1 .. NumTests + 1 /\ NumTests \in Nat
      BY <2>1, CliAssumption DEF OwnInv, Programs, PoolInv, Types
    <3>2. DOMAIN runs = 1 .. Len(runs)
      BY DEF OwnInv, PoolInv, FileTypes
    <3> QED
      BY <2>1, <3>1, <3>2 DEF Tests
  <2>3. \A k \in DOMAIN runs : runs[k].code = k
    BY DEF OwnInv, Programs
  <2>4. {k \in DOMAIN runs : quality[runs[k].code] = "passes"} = Passing
    BY <2>2, <2>3
  <2>5. Pass = Cardinality(Passing)
    BY <2>4 DEF Pass
  <2>6. Pass = Len(runs) <=> Passing = Tests
    BY <2>2, <2>5, TestsFinite, FS_Subset
  <2> QED
    BY <2>1, <2>6 DEF StatusIsTruthful
<1>4. ASSUME UNCHANGED <<quality, pc, status>> PROVE StatusIsTruthful'
  BY <1>1, <1>4 DEF StatusIsTruthful
<1>5. CASE Spawn \/ Collect \/ RunProgram \/ UNCHANGED vars
  BY <1>4, <1>5 DEF Spawn, Collect, RunProgram, tally, vars
<1>6. CASE Wait
  BY <1>6 DEF Wait, StatusIsTruthful
<1>7. ASSUME NEW t \in Tests, Worker(t) PROVE StatusIsTruthful'
  BY <1>4, <1>7 DEF Worker, SynthOpen, SynthWrite, SynthFails, CompileRead, CompileWrite, Send,
     Release, WgDone, tally
<1> QED
  BY <1>2, <1>3, <1>5, <1>6, <1>7 DEF Next, Main, Terminated

LEMMA OwnKept == StemsDiffer => (OwnInv /\ [Next]_vars => OwnInv')
BY PoolKept, BuildsKept, ReportsKept, ProgramsKept, StatusKept DEF OwnInv
-----------------------------------------------------------------------------
\* Where the base names differ, every program that is run is its own test's.
THEOREM OwnPrograms ==
    ASSUME StemsDiffer
    PROVE  Spec => []EveryTestRuns
<1>1. OwnInv => EveryTestRuns
  BY DEF OwnInv, Programs, EveryTestRuns
<1>2. OwnInv /\ [Next]_vars => OwnInv'
  BY OwnKept
<1> QED
  BY InitOwn, <1>1, <1>2, PTL DEF Spec

\* There the command succeeds exactly when every test compiles and passes.
THEOREM StatusHolds ==
    ASSUME StemsDiffer
    PROVE  Spec => []StatusIsTruthful
<1>1. OwnInv => StatusIsTruthful
  BY DEF OwnInv
<1>2. OwnInv /\ [Next]_vars => OwnInv'
  BY OwnKept
<1> QED
  BY InitOwn, <1>1, <1>2, PTL DEF Spec
=============================================================================
