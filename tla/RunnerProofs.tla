---------------------------- MODULE RunnerProofs ----------------------------
(***************************************************************************)
(* What holds of the runner for every MaxTests, however many tests are     *)
(* registered, whatever they do and in whatever order the queue is         *)
(* shuffled.                                                               *)
(***************************************************************************)
EXTENDS Runner, FiniteSetTheorems, SequenceTheorems, TLAPS

\* What the program keeps about its suites is disturbed by begin and by
\* registrations only.
LEMMA ProgramTyped ==
    ASSUME ProgramOK, [Next]_vars
    PROVE  ProgramOK'
<1> USE RunnerAssumption DEF ProgramOK, program
<1>1. CASE Begin
  BY <1>1 DEF Begin
<1>2. CASE QueueTest \/ RunTest \/ RunTestCase \/ NestedRunTest
  BY <1>2 DEF QueueTest, RunTest, RunTestCase, NestedRunTest, Register
<1>3. CASE SetShuffleSeed \/ End \/ Exit
  BY <1>3 DEF SetShuffleSeed, End, Exit
<1>4. CASE UserCode
  BY <1>4 DEF UserCode, SetUp, Body, TearDown, Leave
<1>5. CASE RunnerStep
  BY <1>5 DEF RunnerStep, Record, EndCase, Shuffle, StartDrain, DrainNext,
              DrainDone, Report
<1>6. CASE UNCHANGED vars
  BY <1>6 DEF vars
<1> QED
  BY <1>1, <1>2, <1>3, <1>4, <1>5, <1>6 DEF Next, Main, Terminated

\* Enqueue keeps the queue inside s_pending.
LEMMA EnqueueTyped ==
    ASSUME QueueOK, NEW t \in 0 .. MaxRegs, Enqueue(t)
    PROVE  /\ pending' \in [Slots -> 0 .. MaxRegs]
           /\ pending_count' \in 0 .. MaxTests
           /\ pending_count' >= pending_count
BY RunnerAssumption DEF QueueOK, Enqueue, Slots, queue

LEMMA QueueTyped ==
    ASSUME QueueOK, ProgramOK, [Next]_vars
    PROVE  QueueOK'
<1> USE RunnerAssumption DEF QueueOK, queue, locals
<1>1. CASE Begin
  BY <1>1 DEF Begin
<1>2. CASE QueueTest \/ NestedRunTest
  <2>1. regs + 1 \in 0 .. MaxRegs
    BY <1>2 DEF QueueTest, NestedRunTest, Register, ProgramOK
  <2>2. Enqueue(regs + 1) /\ UNCHANGED <<i, n, pc>> /\ pc # "shuffle"
    BY <1>2 DEF QueueTest, NestedRunTest
  <2> QED
    BY <2>1, <2>2, EnqueueTyped
<1>3. CASE RunTest
  BY <1>3 DEF RunTest, Exec
<1>4. CASE RunTestCase
  BY <1>4 DEF RunTestCase
<1>5. CASE SetShuffleSeed \/ End \/ Exit
  BY <1>5 DEF SetShuffleSeed, End, Exit
<1>6. CASE UserCode
  BY <1>6 DEF UserCode, SetUp, Body, TearDown, Leave
<1>7. CASE Record \/ EndCase \/ Report
  BY <1>7 DEF Record, EndCase, Report
<1>8. ASSUME NEW j \in Slots, Shuffle(j) PROVE QueueOK'
  <2>1. i \in Slots /\ pending[i] \in 0 .. MaxRegs /\ pending[j] \in 0 .. MaxRegs
    BY <1>8 DEF Shuffle, Slots
  <2>2. pending' \in [Slots -> 0 .. MaxRegs]
    BY <1>8, <2>1 DEF Shuffle, Swap
  <2> QED
    BY <1>8, <2>2 DEF Shuffle
<1>9. CASE StartDrain \/ DrainDone
  BY <1>9 DEF StartDrain, DrainDone
<1>10. CASE DrainNext
  BY <1>10 DEF DrainNext, Exec
<1>11. CASE UNCHANGED vars
  BY <1>11 DEF vars
<1> QED
  BY <1>1, <1>2, <1>3, <1>4, <1>5, <1>6, <1>7, <1>8, <1>9, <1>10, <1>11
  DEF Next, Main, RunnerStep, Terminated

LEMMA ControlTyped ==
    ASSUME ControlOK, QueueOK, ProgramOK, [Next]_vars
    PROVE  ControlOK'
<1> USE RunnerAssumption DEF ControlOK, flags, program
<1>1. CASE Begin \/ SetShuffleSeed \/ End \/ Exit
  BY <1>1 DEF Begin, SetShuffleSeed, End, Exit
<1>2. CASE QueueTest \/ NestedRunTest
  BY <1>2 DEF QueueTest, NestedRunTest, Register
<1>3. CASE RunTest
  <2>1. regs + 1 \in 0 .. MaxRegs
    BY <1>3 DEF RunTest, Register, ProgramOK
  <2> QED
    BY <1>3, <2>1 DEF RunTest, Exec
<1>4. CASE RunTestCase
  <2>1. regs + 1 \in 0 .. MaxRegs
    BY <1>4 DEF RunTestCase, Register, ProgramOK
  <2> QED
    BY <1>4, <2>1 DEF RunTestCase
<1>5. CASE UserCode
  BY <1>5 DEF UserCode, SetUp, Body, TearDown, Leave
<1>6. CASE Record \/ EndCase \/ Report \/ StartDrain \/ DrainDone
  BY <1>6 DEF Record, EndCase, Report, StartDrain, DrainDone
<1>7. CASE \E j \in Slots : Shuffle(j)
  BY <1>7 DEF Shuffle
<1>8. CASE DrainNext
  <2>1. pending[i] \in 0 .. MaxRegs
    BY <1>8 DEF DrainNext, QueueOK, Slots
  <2> QED
    BY <1>8, <2>1 DEF DrainNext, Exec
<1>9. CASE UNCHANGED vars
  BY <1>9 DEF vars
<1> QED
  BY <1>1, <1>2, <1>3, <1>4, <1>5, <1>6, <1>7, <1>8, <1>9
  DEF Next, Main, RunnerStep, Terminated

\* Recording a test appends one well-typed case.
LEMMA ConcludeTyped ==
    ASSUME ControlOK, CountersOK, Conclude
    PROVE  /\ cases' \in Seq(Case)
           /\ passed' \in Nat /\ failed' \in Nat /\ ignored' \in Nat
<1>1. [test |-> current, result |-> Verdict] \in Case
  BY DEF ControlOK, Case, Verdict, Results
<1> QED
  BY <1>1 DEF Conclude, CountersOK

LEMMA CountersTyped ==
    ASSUME ControlOK, CountersOK, [Next]_vars
    PROVE  CountersOK'
<1> USE RunnerAssumption DEF CountersOK, counters, outcome
<1>1. CASE Begin
  BY <1>1 DEF Begin
<1>2. CASE SetShuffleSeed \/ QueueTest \/ NestedRunTest \/ End
  BY <1>2 DEF SetShuffleSeed, QueueTest, NestedRunTest, End
<1>3. CASE RunTest \/ DrainNext
  BY <1>3 DEF RunTest, DrainNext, Exec
<1>4. CASE RunTestCase
  BY <1>4 DEF RunTestCase
<1>5. CASE Exit
  BY <1>5 DEF Exit
<1>6. CASE UserCode
  BY <1>6 DEF UserCode, SetUp, Body, TearDown, Leave
<1>7. CASE Record
  BY <1>7, ConcludeTyped DEF Record
<1>8. CASE EndCase
  BY <1>8, ConcludeTyped DEF EndCase
<1>9. CASE Report
  BY <1>9 DEF Report, EndResult
<1>10. CASE (\E j \in Slots : Shuffle(j)) \/ StartDrain \/ DrainDone
  BY <1>10 DEF Shuffle, StartDrain, DrainDone
<1>11. CASE UNCHANGED vars
  BY <1>11 DEF vars
<1> QED
  BY <1>1, <1>2, <1>3, <1>4, <1>5, <1>6, <1>7, <1>8, <1>9, <1>10, <1>11
  DEF Next, Main, RunnerStep, Terminated

LEMMA InitTyped == Init => TypeOK
<1>1. Init => ControlOK
  <2>1. Init => current \in 0 .. MaxRegs /\ asserted \subseteq 0 .. MaxRegs
    BY RunnerAssumption DEF Init
  <2>2. Init => /\ current_failed \in BOOLEAN /\ current_ignored \in BOOLEAN
                /\ shuffle_seed \in BOOLEAN /\ reentered \in BOOLEAN
    BY DEF Init
  <2> QED
    BY <2>1, <2>2 DEF Init, ControlOK
<1>2. Init => CountersOK
  BY DEF Init, CountersOK
<1>3. Init => QueueOK /\ ProgramOK
  BY RunnerAssumption DEF Init, QueueOK, ProgramOK, Slots
<1> QED
  BY <1>1, <1>2, <1>3 DEF TypeOK

LEMMA StepTyped == TypeOK /\ [Next]_vars => TypeOK'
BY ProgramTyped, QueueTyped, ControlTyped, CountersTyped DEF TypeOK

\* Every reachable state of the runner is well typed; in particular no index
\* leaves s_pending.
THEOREM TypeCorrect == Spec => []TypeOK
BY InitTyped, StepTyped, PTL DEF Spec

-----------------------------------------------------------------------------
Positions(s, r) == {k \in DOMAIN s : s[k].result = r}

\* Appending a case adds one to the count of its own result and to no other.
LEMMA CountAppend ==
    ASSUME NEW s \in Seq(Case), NEW e \in Case, NEW r
    PROVE  Cardinality(Positions(Append(s, e), r))
             = Cardinality(Positions(s, r)) + (IF e.result = r THEN 1 ELSE 0)
<1> DEFINE P == Positions(s, r)
<1>1. DOMAIN s = 1 .. Len(s) /\ Len(s) \in Nat
  OBVIOUS
<1>2. /\ DOMAIN Append(s, e) = 1 .. (Len(s) + 1)
      /\ Append(s, e)[Len(s) + 1] = e
      /\ \A k \in 1 .. Len(s) : Append(s, e)[k] = s[k]
  BY <1>1
<1>3. IsFiniteSet(P) /\ Len(s) + 1 \notin P
  <2>1. IsFiniteSet(1 .. Len(s))
    BY <1>1, FS_Interval
  <2> QED
    BY <1>1, <2>1, FS_Subset DEF Positions
<1>4. CASE e.result = r
  <2>1. Positions(Append(s, e), r) = P \cup {Len(s) + 1}
    BY <1>1, <1>2, <1>4 DEF Positions
  <2> QED
    BY <2>1, <1>3, <1>4, FS_AddElement
<1>5. CASE e.result # r
  <2>1. Positions(Append(s, e), r) = P
    BY <1>1, <1>2, <1>5 DEF Positions
  <2>2. Cardinality(P) \in Nat
    BY <1>3, FS_CardinalityType
  <2> QED
    BY <2>1, <2>2, <1>5
<1> QED
  BY <1>4, <1>5

\* No result is counted more often than there are cases.
LEMMA CountBound ==
    ASSUME NEW s \in Seq(Case), NEW r
    PROVE  Cardinality(Positions(s, r)) \in 0 .. Len(s)
<1>1. IsFiniteSet(1 .. Len(s)) /\ Cardinality(1 .. Len(s)) = Len(s)
  <2>1. Len(s) \in Nat
    OBVIOUS
  <2>2. /\ IsFiniteSet(1 .. Len(s))
        /\ Cardinality(1 .. Len(s)) = IF 1 > Len(s) THEN 0 ELSE Len(s) - 1 + 1
    BY <2>1, FS_Interval
  <2> QED
    BY <2>1, <2>2
<1>2. Positions(s, r) \subseteq 1 .. Len(s)
  BY DEF Positions
<1>3. IsFiniteSet(Positions(s, r)) /\ Cardinality(Positions(s, r)) <= Len(s)
  BY <1>1, <1>2, FS_Subset
<1> QED
  BY <1>3, FS_CardinalityType

LEMMA CountIs == \A r : ResultCount(r) = Cardinality(Positions(cases, r))
BY DEF ResultCount, Positions

\* Recording keeps the three counters equal to the counts of their results.
LEMMA ConcludeCounts ==
    ASSUME ControlOK, CountersOK, Conclude,
           passed = ResultCount("pass"), failed = ResultCount("fail"),
           ignored = ResultCount("ignore")
    PROVE  /\ passed' = ResultCount("pass")'
           /\ failed' = ResultCount("fail")'
           /\ ignored' = ResultCount("ignore")'
           /\ Len(cases') = Len(cases) + 1
<1> DEFINE e == [test |-> current, result |-> Verdict]
<1>1. e \in Case /\ e.result = Verdict
  BY DEF ControlOK, Case, Verdict, Results
<1>2. cases \in Seq(Case) /\ cases' = Append(cases, e)
  BY DEF CountersOK, Conclude
<1>3. \A r : Cardinality(Positions(cases', r))
               = Cardinality(Positions(cases, r)) + (IF Verdict = r THEN 1 ELSE 0)
  BY <1>1, <1>2, CountAppend
<1>4. \A r : ResultCount(r)' = Cardinality(Positions(cases', r))
  BY DEF ResultCount, Positions
<1>5. Len(cases') = Len(cases) + 1
  BY <1>1, <1>2
<1> HIDE DEF e
<1> QED
  BY <1>3, <1>4, <1>5, CountIs DEF Conclude

\* Only Begin, Record and EndCase touch the cases and their counters.
LEMMA AccountingInit == Init => Accounting
<1> SUFFICES ASSUME Init PROVE Accounting
  OBVIOUS
<1>1. \A r : ResultCount(r) = 0
  <2>1. \A r : {k \in DOMAIN cases : cases[k].result = r} = {}
    BY DEF Init
  <2> QED
    BY <2>1, FS_EmptySet DEF ResultCount
<1> QED
  BY <1>1, RunnerAssumption DEF Init, Accounting, Running

LEMMA AccountingStep == TypeOK /\ Accounting /\ [Next]_vars => Accounting'
<1> SUFFICES ASSUME ControlOK, CountersOK, Accounting, [Next]_vars
             PROVE  Accounting'
  BY DEF TypeOK
<1>1. CASE Begin
  <2>1. \A r : ResultCount(r)' = 0
    <3>1. \A r : {k \in DOMAIN cases' : cases'[k].result = r} = {}
      BY <1>1 DEF Begin
    <3> QED
      BY <3>1, FS_EmptySet DEF ResultCount
  <2> QED
    BY <1>1, <2>1, RunnerAssumption DEF Begin, Accounting, Running
<1>2. CASE Record
  <2>1. total = Len(cases) + 1
    BY <1>2 DEF Record, Accounting, Running, Uncounted
  <2>2. /\ passed' = ResultCount("pass")'
        /\ failed' = ResultCount("fail")'
        /\ ignored' = ResultCount("ignore")'
        /\ Len(cases') = Len(cases) + 1
    BY <1>2, ConcludeCounts DEF Record, Accounting
  <2>3. total' = total /\ ~Running'
    BY <1>2 DEF Record, Running
  <2> QED
    BY <2>1, <2>2, <2>3 DEF Accounting, CountersOK
<1>3. CASE EndCase /\ Len(cases) >= MaxTests
  <2>1. /\ UNCHANGED <<cases, passed, failed, ignored, total>>
        /\ ~Running'
    BY <1>3 DEF EndCase, Running
  <2>2. total = Len(cases)
    BY <1>3, RunnerAssumption DEF EndCase, Running, Uncounted, Accounting, CountersOK
  <2> QED
    BY <2>1, <2>2 DEF Accounting, CountersOK, ResultCount
<1>4. CASE EndCase /\ ~(Len(cases) >= MaxTests)
  <2>1. total = Len(cases) + 1
    BY <1>4, RunnerAssumption DEF EndCase, Accounting, Running, Uncounted, CountersOK
  <2>2. /\ passed' = ResultCount("pass")'
        /\ failed' = ResultCount("fail")'
        /\ ignored' = ResultCount("ignore")'
        /\ Len(cases') = Len(cases) + 1
    BY <1>4, ConcludeCounts DEF EndCase, Accounting
  <2>3. total' = total /\ ~Running'
    BY <1>4 DEF EndCase, Running
  <2> QED
    BY <2>1, <2>2, <2>3 DEF Accounting, CountersOK
<1>5. ASSUME UNCHANGED <<cases, passed, failed, ignored>>,
             total' = Len(cases) + (IF Running' /\ ~Uncounted' THEN 1 ELSE 0),
             total' <= MaxTests
      PROVE  Accounting'
  BY <1>5 DEF Accounting, ResultCount
<1>6. Len(cases) \in Nat /\ total \in Nat
  BY DEF CountersOK
<1>7. CASE SetShuffleSeed \/ QueueTest \/ NestedRunTest \/ End \/ Exit
  BY <1>5, <1>6, <1>7 DEF SetShuffleSeed, QueueTest, NestedRunTest, End, Exit,
       counters, Accounting, Running, Uncounted
<1>8. CASE RunTest \/ DrainNext
  BY <1>5, <1>6, <1>8, RunnerAssumption DEF RunTest, DrainNext, Exec, flags,
       Accounting, Running, Uncounted
<1>9. CASE RunTestCase
  BY <1>5, <1>6, <1>9, RunnerAssumption DEF RunTestCase, flags,
       Accounting, Running, Uncounted
<1>10. CASE UserCode
  BY <1>5, <1>6, <1>10 DEF UserCode, SetUp, Body, TearDown, Leave, counters,
       Accounting, Running, Uncounted
<1>11. CASE (\E j \in Slots : Shuffle(j)) \/ StartDrain \/ DrainDone \/ Report
  BY <1>5, <1>6, <1>11 DEF Shuffle, StartDrain, DrainDone, Report, counters,
       Accounting, Running, Uncounted
<1>12. CASE UNCHANGED vars
  BY <1>5, <1>6, <1>12 DEF vars, counters, Accounting, Running, Uncounted
<1> QED
  BY <1>1, <1>2, <1>3, <1>4, <1>7, <1>8, <1>9, <1>10, <1>11, <1>12
  DEF Next, Main, RunnerStep, Terminated

\* The counters and the recorded cases always agree, and s_cases never
\* overflows.
THEOREM AccountingHolds == Spec => []Accounting
BY TypeCorrect, AccountingInit, AccountingStep, PTL DEF Spec

-----------------------------------------------------------------------------
(* The exit status, when the platform tells more statuses apart than a     *)
(* suite has tests.                                                        *)

\* What ceedless_end decided is what the exit status says.
StatusInv ==
    /\ pc \in {"ended", "exited"} /\ failed > 0 => result % StatusMod # 0
    /\ pc = "exited" => status = result % StatusMod

LEMMA FailedBounded == CountersOK /\ Accounting => failed \in 0 .. MaxTests
<1> SUFFICES ASSUME CountersOK, Accounting PROVE failed \in 0 .. MaxTests
  OBVIOUS
<1>1. cases \in Seq(Case) /\ Len(cases) \in Nat
  BY DEF CountersOK
<1>2. failed \in 0 .. Len(cases)
  BY <1>1, CountBound, CountIs DEF Accounting
<1>3. Len(cases) <= MaxTests
  BY <1>1, RunnerAssumption DEF Accounting, CountersOK
<1> QED
  BY <1>1, <1>2, <1>3, RunnerAssumption

\* A number smaller than the modulus is its own remainder.
LEMMA SmallRemainder ==
    ASSUME NEW m \in Nat, NEW x \in 0 .. (m - 1)
    PROVE  x % m = x
BY SMT

LEMMA StatusStep ==
    ASSUME MaxTests < StatusMod, CountersOK, Accounting, StatusInv, [Next]_vars
    PROVE  StatusInv'
<1>1. CASE Report
  <2>1. PICK rc \in {failed} \cup HookResults : result' = EndResult(rc)
    BY <1>1 DEF Report
  <2>2. failed' = failed /\ failed \in 0 .. MaxTests /\ pc' = "ended"
    BY <1>1, FailedBounded DEF Report, counters
  <2>3. failed \in 0 .. (StatusMod - 1) /\ 1 \in 0 .. (StatusMod - 1)
    BY <2>2, RunnerAssumption
  <2>4. failed % StatusMod = failed /\ 1 % StatusMod = 1
    BY <2>3, SmallRemainder, RunnerAssumption
  <2>5. failed > 0 => result' % StatusMod # 0
    BY <2>1, <2>2, <2>4, HookAssumption DEF EndResult
  <2> QED
    BY <2>2, <2>5 DEF StatusInv
<1>2. CASE Exit
  BY <1>2 DEF Exit, StatusInv, counters
<1>3. CASE Begin \/ SetShuffleSeed \/ QueueTest \/ RunTest \/ RunTestCase \/ End
  BY <1>3 DEF Begin, SetShuffleSeed, QueueTest, RunTest, RunTestCase, End, Exec,
       StatusInv
<1>4. CASE UserCode \/ NestedRunTest
  BY <1>4 DEF UserCode, SetUp, Body, TearDown, NestedRunTest, StatusInv
<1>5. CASE Record \/ EndCase \/ (\E j \in Slots : Shuffle(j)) \/ StartDrain
           \/ DrainNext \/ DrainDone
  BY <1>5 DEF Record, EndCase, Shuffle, StartDrain, DrainNext, DrainDone, Exec,
       StatusInv
<1>6. CASE UNCHANGED vars
  BY <1>6 DEF vars, counters, outcome, StatusInv
<1> QED
  BY <1>1, <1>2, <1>3, <1>4, <1>5, <1>6 DEF Next, Main, RunnerStep, Terminated

\* With fewer tests than exit statuses a recorded failure always reaches the
\* caller of the test program.
THEOREM StatusCorrect ==
    ASSUME MaxTests < StatusMod
    PROVE  Spec => []FailureReachesStatus
<1>1. Init => StatusInv
  BY DEF Init, StatusInv
<1>2. CountersOK /\ Accounting /\ StatusInv /\ [Next]_vars => StatusInv'
  BY StatusStep
<1>3. StatusInv => FailureReachesStatus
  BY DEF StatusInv, FailureReachesStatus
<1>4. TypeOK => CountersOK
  BY DEF TypeOK
<1> QED
  BY <1>1, <1>2, <1>3, <1>4, TypeCorrect, AccountingHolds, PTL DEF Spec

-----------------------------------------------------------------------------
(* Every verdict is its own test's.  What has been recorded, what has      *)
(* asserted and what is running is never waiting in the queue: a suite     *)
(* runs no registration twice, whatever queued tests register.             *)

Used == asserted \cup RecordedTests \cup (IF Running THEN {current} ELSE {})

\* The slots a..b - 1 hold different registrations.
Distinct(a, b) ==
    \A s, t \in Slots :
      s >= a /\ s < b /\ t >= a /\ t < b /\ pending[s] = pending[t] => s = t

\* None of the slots a..b - 1 holds a registration that has been used.
Unused(a, b) == \A s \in Slots : s >= a /\ s < b => pending[s] \notin Used

Draining == pc = "drain" \/ (Running /\ frame = "queued")
Registering == pc \in {"main", "shuffle"} \/ (Running /\ frame # "queued")

FreshIds ==
    /\ Used \subseteq 0 .. regs
    /\ \A s \in Slots : pending[s] \in 0 .. regs

QueueFresh ==
    /\ Distinct(0, pending_count)
    /\ Registering => Unused(0, pending_count)
    /\ Draining => Distinct(i, n) /\ Unused(i, n)

FlagsAreOwn ==
    Running => /\ current \notin RecordedTests
               /\ ~Uncounted => (current_failed <=> current \in asserted)

OwnInv == FreshIds /\ QueueFresh /\ FlagsAreOwn /\ VerdictsAreOwn

LEMMA OwnInit == Init => OwnInv
<1> SUFFICES ASSUME Init PROVE OwnInv
  OBVIOUS
<1>1. RecordedTests = {} /\ DOMAIN cases = {}
  BY DEF Init, RecordedTests
<1>2. Used = {}
  BY <1>1 DEF Init, Used, Running
<1> QED
  BY <1>1, <1>2 DEF Init, OwnInv, FreshIds, QueueFresh, Distinct, Unused,
     Registering, Draining, Running, FlagsAreOwn, VerdictsAreOwn, Slots

\* A step that leaves the queue alone and uses no new registration.
LEMMA SameQueue ==
    ASSUME QueueFresh, UNCHANGED <<pending, pending_count, i, n>>, Used' \subseteq Used,
           Registering' => Registering, Draining' => Draining
    PROVE  QueueFresh'
BY DEF QueueFresh, Distinct, Unused

LEMMA SameFresh ==
    ASSUME FreshIds, UNCHANGED <<pending, regs>>, Used' \subseteq Used
    PROVE  FreshIds'
BY DEF FreshIds

\* Appending the case of the running test.
LEMMA ConcludeOwn ==
    ASSUME ControlOK, CountersOK, Conclude, UNCHANGED asserted, VerdictsAreOwn,
           current_failed <=> current \in asserted
    PROVE  RecordedTests' = RecordedTests \cup {current} /\ VerdictsAreOwn'
<1> DEFINE e == [test |-> current, result |-> Verdict]
<1>1. e \in Case /\ e.test = current /\ (e.result = "fail" <=> current_failed)
  BY DEF ControlOK, Case, Verdict, Results
<1>2. cases \in Seq(Case) /\ cases' = Append(cases, e)
  BY DEF CountersOK, Conclude
<1> HIDE DEF e
<1>3. /\ DOMAIN cases = 1 .. Len(cases) /\ Len(cases) \in Nat
      /\ DOMAIN cases' = 1 .. (Len(cases) + 1)
      /\ cases'[Len(cases) + 1] = e
      /\ \A k \in 1 .. Len(cases) : cases'[k] = cases[k]
  BY <1>1, <1>2
<1>4. \A k \in DOMAIN cases' : k \in DOMAIN cases \/ k = Len(cases) + 1
  BY <1>3
<1>5. RecordedTests' = RecordedTests \cup {current}
  BY <1>1, <1>3, <1>4 DEF RecordedTests
<1>6. VerdictsAreOwn'
  BY <1>1, <1>3, <1>4 DEF VerdictsAreOwn
<1> QED
  BY <1>5, <1>6

\* Executing the fresh registration t: it joins what has been used.
LEMMA ExecOwn ==
    ASSUME ~Running, NEW t, NEW by, NEW back, back \in {"main", "drain"},
           Exec(t, by, back), UNCHANGED <<cases, asserted>>
    PROVE  Used' \subseteq Used \cup {t} /\ RecordedTests' = RecordedTests
BY DEF Exec, Used, RecordedTests, Running, flags

LEMMA BeginOwn == ASSUME OwnInv, ProgramOK, Begin PROVE OwnInv'
<1>1. DOMAIN cases' = {} /\ asserted' = {} /\ ~Running'
  BY DEF Begin, Running
<1>2. Used' = {}
  BY <1>1 DEF Used, RecordedTests
<1>3. FreshIds'
  BY <1>2 DEF OwnInv, FreshIds, Begin, queue
<1>4. QueueFresh'
  BY <1>1, <1>2 DEF OwnInv, QueueFresh, Distinct, Unused, Draining, Begin, queue
<1> QED
  BY <1>1, <1>3, <1>4 DEF OwnInv, FlagsAreOwn, VerdictsAreOwn

\* Putting a fresh registration in the queue.
LEMMA EnqueueOwn ==
    ASSUME QueueOK, ProgramOK, FreshIds, QueueFresh, Register, Enqueue(regs + 1),
           UNCHANGED <<pc, frame, current, cases, asserted, i, n>>
    PROVE  FreshIds' /\ QueueFresh' /\ Used' = Used
<1> DEFINE new == regs + 1
<1>1. Used' = Used /\ Registering' = Registering /\ Draining' = Draining
  BY DEF Used, RecordedTests, Running, Registering, Draining
<1>2. regs \in Nat /\ regs' = new /\ new \in 0 .. new /\ new \notin 0 .. regs
      /\ 0 .. regs \subseteq 0 .. new
  BY DEF ProgramOK, Register
<1>3. Used \subseteq 0 .. regs /\ \A s \in Slots : pending[s] \in 0 .. regs
  BY DEF FreshIds
<1>4. pending \in [Slots -> 0 .. MaxRegs] /\ pending_count \in 0 .. MaxTests
      /\ i \in 0 .. MaxTests /\ n \in 0 .. MaxTests /\ MaxTests \in Nat
  BY RunnerAssumption DEF QueueOK
<1>5. CASE pending_count >= MaxTests
  <2>1. UNCHANGED <<pending, pending_count>>
    BY <1>5 DEF Enqueue, queue
  <2>2. FreshIds'
    BY <1>1, <1>2, <1>3, <2>1 DEF FreshIds
  <2> QED
    BY <1>1, <2>1, <2>2, SameQueue
<1>6. CASE ~(pending_count >= MaxTests)
  <2>1. /\ pending_count \in Slots /\ pending_count' = pending_count + 1
        /\ pending' = [pending EXCEPT ![pending_count] = new]
    BY <1>4, <1>6 DEF Enqueue, Slots
  <2>2. /\ pending'[pending_count] = new
        /\ \A s \in Slots : s # pending_count => pending'[s] = pending[s]
    BY <1>4, <2>1
  <2> HIDE DEF new
  <2>3. FreshIds'
    BY <1>1, <1>2, <1>3, <2>2 DEF FreshIds
  <2>4. Slots \subseteq Nat
    BY DEF Slots
  <2>5. Distinct(0, pending_count)'
    BY <1>2, <1>3, <1>4, <2>1, <2>2, <2>4 DEF QueueFresh, Distinct
  <2>6. Registering => Unused(0, pending_count)'
    BY <1>1, <1>2, <1>3, <1>4, <2>1, <2>2, <2>4 DEF QueueFresh, Unused
  <2>7. Draining => Distinct(i, n)' /\ Unused(i, n)'
    BY <1>1, <1>2, <1>3, <2>2 DEF QueueFresh, Distinct, Unused
  <2> QED
    BY <1>1, <2>3, <2>5, <2>6, <2>7 DEF QueueFresh
<1> QED
  BY <1>5, <1>6

\* User code marks its own test only.
LEMMA UserOwn == ASSUME OwnInv, ControlOK, UserCode PROVE OwnInv'
<1>1. PICK o \in Outcomes : SetUp(o) \/ Body(o) \/ TearDown(o)
  BY DEF UserCode
<1>2. Running /\ Running' /\ Leave(o)
  BY <1>1 DEF SetUp, Body, TearDown, Running
<1>3. UNCHANGED <<pending, pending_count, i, n, regs, cases, current, frame>>
  BY <1>2 DEF Leave, queue, locals, program, counters
<1>4. RecordedTests' = RecordedTests /\ Uncounted' = Uncounted
  BY <1>3 DEF RecordedTests, Uncounted
<1>5. Used' \subseteq Used /\ Registering' = Registering /\ Draining' = Draining
  BY <1>1, <1>2, <1>3, <1>4 DEF Used, Leave, Registering, Draining, Running,
     SetUp, Body, TearDown
<1>6. current \notin RecordedTests
  BY <1>2 DEF OwnInv, FlagsAreOwn
<1>7. FlagsAreOwn'
  BY <1>2, <1>3, <1>4, <1>6 DEF OwnInv, FlagsAreOwn, Leave, ControlOK
<1>8. VerdictsAreOwn'
  BY <1>2, <1>3, <1>6 DEF OwnInv, VerdictsAreOwn, RecordedTests, Leave
<1> QED
  BY <1>3, <1>5, <1>7, <1>8, SameQueue, SameFresh DEF OwnInv

\* Recording the running test, or dropping it from a full suite.
LEMMA RecordOwn ==
    ASSUME OwnInv, ControlOK, CountersOK, Record \/ EndCase
    PROVE  OwnInv'
<1>1. Running /\ ~Running' /\ UNCHANGED <<asserted, pending, pending_count, i, n, regs>>
  BY DEF Record, EndCase, Running, queue, locals, program
<1>2. (Registering' => Registering) /\ (Draining' => Draining)
  BY <1>1 DEF Record, EndCase, Registering, Draining, Running
<1>3. Conclude /\ ~Uncounted => RecordedTests' \subseteq RecordedTests \cup {current} /\ VerdictsAreOwn'
  BY <1>1, ConcludeOwn DEF OwnInv, FlagsAreOwn
<1>4. UNCHANGED cases => RecordedTests' \subseteq RecordedTests \cup {current} /\ VerdictsAreOwn'
  BY <1>1 DEF RecordedTests, OwnInv, VerdictsAreOwn
<1>0. (Conclude /\ ~Uncounted) \/ UNCHANGED cases
  <2>1. CASE Record
    BY <2>1 DEF Record, Uncounted
  <2>2. CASE EndCase
    <3>1. Len(cases) = MaxTests => Len(cases) >= MaxTests
      BY RunnerAssumption
    <3> QED
      BY <2>2, <3>1 DEF EndCase, Uncounted
  <2> QED
    BY <2>1, <2>2
<1>5. RecordedTests' \subseteq RecordedTests \cup {current} /\ VerdictsAreOwn'
  BY <1>0, <1>3, <1>4
<1>6. Used' \subseteq Used
  BY <1>1, <1>5 DEF Used
<1> QED
  BY <1>1, <1>2, <1>5, <1>6, SameQueue, SameFresh DEF OwnInv, FlagsAreOwn

\* A step of the runner between tests that keeps the slots it will use.
LEMMA IdleOwn ==
    ASSUME OwnInv, ~Running, ~Running', UNCHANGED <<cases, asserted, regs, pending>>,
           QueueFresh'
    PROVE  OwnInv'
<1>1. RecordedTests' = RecordedTests /\ Used' \subseteq Used
  BY DEF Used, RecordedTests
<1> QED
  BY <1>1, SameFresh DEF OwnInv, FlagsAreOwn, VerdictsAreOwn

LEMMA ShuffleOwn ==
    ASSUME OwnInv, QueueOK, NEW j \in Slots, Shuffle(j)
    PROVE  OwnInv'
<1>1. /\ UNCHANGED <<pc, frame, cases, asserted, regs, current, pending_count>>
      /\ pc = "shuffle" /\ i \in 0 .. MaxTests /\ i > 0 /\ j \in 0 .. i /\ i < pending_count
      /\ pending_count \in 0 .. MaxTests /\ MaxTests \in Nat
      /\ pending \in [Slots -> 0 .. MaxRegs]
      /\ pending' = [pending EXCEPT ![i] = pending[j], ![j] = pending[i]]
  BY RunnerAssumption DEF Shuffle, QueueOK, counters, program, Swap
<1>2. i \in Slots /\ j \in Slots /\ i < pending_count /\ j < pending_count
      /\ i >= 0 /\ j >= 0
  BY <1>1 DEF Slots
<1>3. /\ \A s \in Slots : s # i /\ s # j => pending'[s] = pending[s]
      /\ pending'[i] = pending[j] /\ pending'[j] = pending[i]
  BY <1>1, <1>2
<1>4. Used' = Used /\ Registering /\ Registering' /\ ~Draining' /\ ~Running /\ ~Running'
  BY <1>1 DEF Used, RecordedTests, Registering, Draining, Running
<1>5. Unused(0, pending_count)'
  BY <1>1, <1>2, <1>3, <1>4 DEF OwnInv, QueueFresh, Unused
<1>6. Distinct(0, pending_count)
  BY DEF OwnInv, QueueFresh
<1>7. Distinct(0, pending_count)'
  BY <1>1, <1>2, <1>3, <1>6 DEF Distinct
<1>8. FreshIds'
  BY <1>1, <1>2, <1>3, <1>4 DEF OwnInv, FreshIds
<1> QED
  BY <1>1, <1>4, <1>5, <1>7, <1>8 DEF OwnInv, QueueFresh, FlagsAreOwn, VerdictsAreOwn

\* A registration made by main is new, and its flags are clear.
LEMMA RegisteredOwn ==
    ASSUME OwnInv, TypeOK, Accounting, RunTest \/ RunTestCase
    PROVE  OwnInv'
<1> DEFINE new == regs + 1
<1>1. /\ pc = "main" /\ ~Running /\ Registering /\ ~Draining
      /\ UNCHANGED <<cases, asserted, pending, pending_count, i, n>>
      /\ regs' = new
  BY DEF RunTest, RunTestCase, Running, Registering, Draining, Register, queue, locals
<1>2. regs \in Nat /\ new \notin 0 .. regs /\ new \in 0 .. new /\ 0 .. regs \subseteq 0 .. new
  BY DEF TypeOK, ProgramOK
<1>3. Used \subseteq 0 .. regs /\ \A s \in Slots : pending[s] \in 0 .. regs
  BY DEF OwnInv, FreshIds
<1>4. RecordedTests' = RecordedTests /\ RecordedTests \subseteq Used /\ asserted \subseteq Used
  BY <1>1 DEF RecordedTests, Used
<1>5. \/ pc' = "main"
      \/ current' = new /\ pc' = "setUp" /\ frame' # "queued"
  BY DEF RunTest, RunTestCase, Exec
<1>6. Used' \subseteq Used \cup {new}
  BY <1>1, <1>4, <1>5 DEF Used, Running
<1>7. ~Draining' /\ FreshIds'
  BY <1>1, <1>2, <1>3, <1>5, <1>6 DEF Draining, Running, FreshIds
<1>8. QueueFresh'
  <2> HIDE DEF new
  <2>1. Distinct(0, pending_count)' /\ Unused(0, pending_count)'
    BY <1>1, <1>2, <1>3, <1>6 DEF OwnInv, QueueFresh, Distinct, Unused
  <2> QED
    BY <2>1, <1>7 DEF QueueFresh
<1>9. Running' => (~Uncounted' => current_failed' = FALSE)
  <2>1. CASE RunTest
    BY <2>1, <1>1 DEF RunTest, Exec, flags, Running
  <2>2. CASE RunTestCase /\ total < MaxTests
    <3>1. total \in Nat /\ MaxTests \in Nat
      BY RunnerAssumption DEF TypeOK, CountersOK
    <3> QED
      BY <2>2, <3>1 DEF RunTestCase
  <2>3. CASE RunTestCase /\ ~(total < MaxTests)
    <3>1. total = Len(cases) /\ total = MaxTests
      BY <1>1, <2>3, RunnerAssumption DEF Accounting, TypeOK, CountersOK
    <3> QED
      BY <2>3, <3>1 DEF RunTestCase, Uncounted
  <2> QED
    BY <2>1, <2>2, <2>3
<1>10. FlagsAreOwn' /\ VerdictsAreOwn'
  BY <1>1, <1>2, <1>3, <1>4, <1>5, <1>9 DEF OwnInv, FlagsAreOwn, VerdictsAreOwn, Running
<1> QED
  BY <1>7, <1>8, <1>10 DEF OwnInv

\* The next queued test has not been used, and none behind it is the same.
LEMMA DrainOwn ==
    ASSUME OwnInv, QueueOK, DrainNext
    PROVE  OwnInv'
<1>1. /\ pc = "drain" /\ ~Running /\ Draining /\ ~Registering' /\ i' = i + 1
      /\ i \in 0 .. MaxTests /\ n \in 0 .. MaxTests /\ i < n /\ MaxTests \in Nat
      /\ UNCHANGED <<cases, asserted, pending, pending_count, n, regs>>
  BY RunnerAssumption DEF DrainNext, Exec, QueueOK, Running, Draining, Registering,
     queue, program
<1>2. i \in Slots
  BY <1>1 DEF Slots
<1> DEFINE t == pending[i]
<1>3. Distinct(0, pending_count) /\ Distinct(i, n) /\ Unused(i, n) /\ t \notin Used
  BY <1>1, <1>2 DEF OwnInv, QueueFresh, Unused
<1>4. /\ RecordedTests' = RecordedTests /\ RecordedTests \subseteq Used /\ asserted \subseteq Used
      /\ Used' \subseteq Used \cup {t}
      /\ Running' => current' = t /\ current_failed' = FALSE
  BY <1>1 DEF DrainNext, Exec, Used, RecordedTests, Running
<1>5. FreshIds'
  BY <1>1, <1>2, <1>4 DEF OwnInv, FreshIds
<1>6. Distinct(i, n)' /\ Unused(i, n)'
  BY <1>1, <1>2, <1>3, <1>4 DEF Distinct, Unused, Slots
<1>7. QueueFresh'
  BY <1>1, <1>3, <1>6 DEF QueueFresh, Distinct, Unused
<1>8. FlagsAreOwn' /\ VerdictsAreOwn'
  BY <1>1, <1>3, <1>4 DEF OwnInv, FlagsAreOwn, VerdictsAreOwn
<1> QED
  BY <1>5, <1>7, <1>8 DEF OwnInv

\* The queue is handed to the drain whole.
LEMMA StartDrainOwn ==
    ASSUME OwnInv, QueueOK, StartDrain
    PROVE  OwnInv'
<1>1. /\ ~Running /\ ~Running' /\ Registering /\ ~Registering' /\ i = 0 /\ i' = 0
      /\ n' = pending_count /\ pending_count' = 0
      /\ UNCHANGED <<cases, asserted, regs, pending>>
  BY DEF StartDrain, Running, Registering, counters, program
<1>2. Used' \subseteq Used
  BY <1>1 DEF Used, RecordedTests
<1>3. Distinct(0, 0)
  BY DEF Distinct, Slots
<1>4. QueueFresh'
  BY <1>1, <1>2, <1>3 DEF OwnInv, QueueFresh, Distinct, Unused
<1> QED
  BY <1>1, <1>4, IdleOwn

\* Steps between tests that neither use nor move the queue.
LEMMA QuietOwn ==
    ASSUME OwnInv, SetShuffleSeed \/ End \/ Exit \/ DrainDone \/ Report
    PROVE  OwnInv'
<1>1. /\ ~Running /\ ~Running' /\ ~Draining'
      /\ UNCHANGED <<cases, asserted, regs, pending, pending_count>>
      /\ Registering' => Registering
  BY DEF SetShuffleSeed, End, Exit, DrainDone, Report, Running, Draining, Registering,
     counters, program, queue
<1>2. Used' \subseteq Used
  BY <1>1 DEF Used, RecordedTests
<1>3. QueueFresh'
  BY <1>1, <1>2 DEF OwnInv, QueueFresh, Distinct, Unused
<1> QED
  BY <1>1, <1>3, IdleOwn

LEMMA OwnStep == TypeOK /\ Accounting /\ OwnInv /\ [Next]_vars => OwnInv'
<1> SUFFICES ASSUME TypeOK, Accounting, OwnInv, [Next]_vars PROVE OwnInv'
  OBVIOUS
<1>1. ControlOK /\ CountersOK /\ QueueOK /\ ProgramOK
  BY DEF TypeOK
<1>2. CASE QueueTest \/ NestedRunTest
  <2>1. Register /\ Enqueue(regs + 1)
        /\ UNCHANGED <<pc, frame, current, current_failed, cases, asserted, i, n>>
    BY <1>2 DEF QueueTest, NestedRunTest, counters, flags, locals
  <2>2. FreshIds' /\ QueueFresh'
    BY <1>1, <2>1, EnqueueOwn DEF OwnInv
  <2> QED
    BY <2>1, <2>2 DEF OwnInv, FlagsAreOwn, VerdictsAreOwn, RecordedTests, Running, Uncounted
<1>3. CASE UNCHANGED vars
  <2>1. UNCHANGED <<pc, frame, current, current_failed, cases, asserted, i, n, pending,
                    pending_count, regs>>
    BY <1>3 DEF vars, counters, flags, queue, locals, program
  <2>2. UNCHANGED <<Used, RecordedTests, Running, Uncounted, Registering, Draining>>
    BY <2>1 DEF Used, RecordedTests, Running, Uncounted, Registering, Draining
  <2> QED
    BY <2>1, <2>2, SameQueue, SameFresh DEF OwnInv, FlagsAreOwn, VerdictsAreOwn
<1>4. CASE \E j \in Slots : Shuffle(j)
  BY <1>1, <1>4, ShuffleOwn
<1>5. CASE Begin \/ SetShuffleSeed \/ End \/ Exit \/ DrainDone \/ Report
  BY <1>1, <1>5, BeginOwn, QuietOwn
<1>6. CASE RunTest \/ RunTestCase
  BY <1>6, RegisteredOwn
<1>7. CASE UserCode
  BY <1>1, <1>7, UserOwn
<1>8. CASE Record \/ EndCase \/ DrainNext \/ StartDrain
  BY <1>1, <1>8, RecordOwn, DrainOwn, StartDrainOwn
<1> QED
  BY <1>2, <1>3, <1>4, <1>5, <1>6, <1>7, <1>8 DEF Next, Main, RunnerStep, Terminated

\* However tests are queued, shuffled and nested, a test is recorded as failed
\* exactly when an assertion failed while it ran.
THEOREM VerdictsOwn == Spec => []VerdictsAreOwn
<1>1. OwnInv => VerdictsAreOwn
  BY DEF OwnInv
<1> QED
  BY <1>1, OwnInit, OwnStep, TypeCorrect, AccountingHolds, PTL DEF Spec

-----------------------------------------------------------------------------
(* The ledger.  Until a queued test registers another, each registration   *)
(* of the suite is recorded, running or in the part of the queue that will *)
(* still be run, unless enough tests are recorded or waiting to fill the   *)
(* suite.                                                                  *)

\* The slots that will still be run.
Live(s) == \/ Registering /\ s < pending_count
           \/ Draining /\ s >= i /\ s < n

Waiting == IF Registering THEN pending_count ELSE IF Draining THEN n - i ELSE 0

Kept ==
    /\ Running => current \in Registered
    /\ \A s \in Slots : Live(s) => pending[s] \in Registered

Accounted ==
    \A id \in Registered :
      \/ id \in RecordedTests
      \/ Running /\ current = id
      \/ \E s \in Slots : Live(s) /\ pending[s] = id

Full == total + Waiting >= MaxTests

KeptInv ==
    reentered \/ /\ ~Registering => pending_count = 0
                 /\ Kept
                 /\ Full \/ Accounted

\* Slot values and current are registrations wherever they are used.
Named ==
    /\ Running => current # 0
    /\ \A s \in Slots : s < pending_count => pending[s] # 0
    /\ Draining => \A s \in Slots : s >= i /\ s < n => pending[s] # 0

Once == \A k, l \in DOMAIN cases : cases[k].test = cases[l].test => k = l

LedgerInv == Named /\ KeptInv /\ Once

LEMMA LedgerInit == Init => LedgerInv
<1> SUFFICES ASSUME Init PROVE LedgerInv
  OBVIOUS
<1>1. ~Running /\ ~Registering /\ ~Draining
  BY DEF Init, Running, Registering, Draining
<1>2. Registered = {} /\ DOMAIN cases = {}
  BY DEF Init, Registered
<1>3. \A s \in Slots : ~(s < 0)
  BY DEF Slots
<1> QED
  BY <1>1, <1>2, <1>3 DEF Init, LedgerInv, Named, KeptInv, Kept, Accounted, Once, Live

\* A step that leaves tests and queue alone.
LEMMA SameLedger ==
    ASSUME LedgerInv,
           UNCHANGED <<pending, pending_count, n, current, cases, regs, base, reentered, total>>,
           i' = i \/ ~Draining,
           Registering' = Registering, Draining' = Draining, Running' = Running
    PROVE  LedgerInv'
<1>1. /\ RecordedTests' = RecordedTests /\ Registered' = Registered
      /\ \A s : Live(s)' = Live(s)
      /\ Waiting' = Waiting
  BY DEF RecordedTests, Registered, Live, Waiting
<1>2. Named' /\ Once'
  BY DEF LedgerInv, Named, Once
<1>3. Kept => Kept'
  BY <1>1 DEF Kept
<1>4. Accounted => Accounted'
  BY <1>1 DEF Accounted
<1>5. Full => Full'
  BY <1>1 DEF Full
<1> QED
  BY <1>2, <1>3, <1>4, <1>5 DEF LedgerInv, KeptInv

LEMMA BeginLedger == ASSUME LedgerInv, TypeOK, Begin PROVE LedgerInv'
<1>1. /\ ~Running' /\ Registering' /\ ~Draining' /\ ~Registering
      /\ UNCHANGED <<pending, pending_count, reentered>> /\ cases' = << >>
      /\ base' = regs /\ regs' = regs /\ regs \in Nat
  BY DEF Begin, Running, Registering, Draining, queue, TypeOK, ProgramOK
<1>2. Registered' = {} /\ DOMAIN cases' = {}
  BY <1>1 DEF Registered
<1>3. \A s \in Slots : ~(s < 0)
  BY DEF Slots
<1>4. Named' /\ Once'
  BY <1>1, <1>2 DEF LedgerInv, Named, Once
<1>5. ~reentered => Kept' /\ Accounted'
  BY <1>1, <1>2, <1>3 DEF LedgerInv, KeptInv, Kept, Accounted, Live
<1> QED
  BY <1>1, <1>4, <1>5 DEF LedgerInv, KeptInv

\* A registration that joins the queue, or finds it full.
LEMMA EnqueueLedger ==
    ASSUME LedgerInv, QueueOK, ProgramOK, CountersOK, Register, Enqueue(regs + 1),
           UNCHANGED <<pc, frame, current, cases, total, i, n>>,
           reentered' = (reentered \/ ~Registering)
    PROVE  LedgerInv'
<1> DEFINE new == regs + 1
<1>1. /\ Running' = Running /\ Registering' = Registering /\ Draining' = Draining
      /\ RecordedTests' = RecordedTests
  BY DEF Running, Registering, Draining, RecordedTests
<1>2. /\ regs \in Nat /\ base \in 0 .. regs /\ new # 0 /\ total \in Nat
      /\ pending \in [Slots -> 0 .. MaxRegs] /\ pending_count \in 0 .. MaxTests
      /\ MaxTests \in Nat
  BY RunnerAssumption DEF QueueOK, ProgramOK, CountersOK
<1>3. Registered' = Registered \cup {new} /\ new \in Registered'
  BY <1>2 DEF Registered, Register
<1>4. Once'
  BY DEF LedgerInv, Once
<1>5. CASE pending_count >= MaxTests
  <2>1. UNCHANGED <<pending, pending_count>>
    BY <1>5 DEF Enqueue, queue
  <2>2. Named'
    BY <1>1, <2>1 DEF LedgerInv, Named
  <2>3. \A s : Live(s)' = Live(s)
    BY <1>1, <2>1 DEF Live
  <2>4. Registering => Full'
    BY <1>1, <1>2, <1>5, <2>1 DEF Full, Waiting
  <2>5. Kept => Kept'
    BY <1>1, <1>3, <2>1, <2>3 DEF Kept
  <2> QED
    BY <1>1, <1>4, <2>2, <2>4, <2>5 DEF LedgerInv, KeptInv
<1>6. CASE ~(pending_count >= MaxTests)
  <2>0. PICK free \in Slots : free = pending_count
    BY <1>2, <1>6 DEF Slots
  <2>1. /\ free = pending_count /\ pending_count' = free + 1
        /\ pending' = [pending EXCEPT ![free] = new]
    BY <1>6, <2>0 DEF Enqueue
  <2>2. /\ pending'[free] = new
        /\ \A s \in Slots : s # free => pending'[s] = pending[s]
    BY <1>2, <2>1
  <2>3. \A s \in Slots : s \in Nat /\ (s < free + 1 <=> s < free \/ s = free)
    BY <1>2, <2>1 DEF Slots
  <2> HIDE DEF new
  <2>4. Named'
    BY <1>1, <1>2, <2>1, <2>2, <2>3 DEF LedgerInv, Named
  <2>5. ASSUME Registering
        PROVE  /\ Live(free)'
               /\ \A s \in Slots : Live(s)' => Live(s) \/ s = free
               /\ \A s \in Slots : Live(s) => Live(s)' /\ s # free
    <3>1. ~Draining
      BY <2>5 DEF Registering, Draining, Running
    <3>2. \A s : (Live(s) <=> s < pending_count) /\ (Live(s)' <=> s < pending_count')
      BY <1>1, <2>5, <3>1 DEF Live
    <3>3. free < free + 1 /\ ~(free < free)
      BY <1>2, <2>1
    <3>4. Live(free)'
      BY <2>1, <3>2, <3>3
    <3>5. ASSUME NEW s \in Slots
          PROVE  /\ Live(s)' => Live(s) \/ s = free
                 /\ Live(s) => Live(s)' /\ s # free
      <4>1. s < pending_count' <=> s < pending_count \/ s = free
        BY <2>1, <2>3
      <4> QED
        BY <2>1, <3>2, <3>3, <4>1
    <3> QED
      BY <3>4, <3>5
  <2>6. Registering /\ Kept => Kept'
    BY <1>1, <1>3, <2>2, <2>5 DEF Kept
  <2>7. Registering /\ Accounted => Accounted'
    <3> SUFFICES ASSUME Registering, Accounted, NEW id \in Registered'
                 PROVE  \/ id \in RecordedTests'
                        \/ Running' /\ current' = id
                        \/ \E s \in Slots : Live(s)' /\ pending'[s] = id
      BY DEF Accounted
    <3>1. CASE id = new
      BY <2>1, <2>2, <2>5, <3>1
    <3>2. CASE \E s \in Slots : Live(s) /\ pending[s] = id
      BY <2>2, <2>5, <3>2
    <3>3. id # new => id \in Registered
      BY <1>3
    <3> QED
      BY <1>1, <3>1, <3>2, <3>3 DEF Accounted
  <2>8. Registering /\ Full => Full'
    BY <1>1, <1>2, <2>1 DEF Full, Waiting
  <2> QED
    BY <1>1, <1>4, <2>4, <2>6, <2>7, <2>8 DEF LedgerInv, KeptInv
<1> QED
  BY <1>5, <1>6

\* A registration that main runs at once, or that finds the suite full.
LEMMA RunLedger ==
    ASSUME LedgerInv, TypeOK, RunTest \/ RunTestCase
    PROVE  LedgerInv'
<1> DEFINE new == regs + 1
<1>1. /\ pc = "main" /\ ~Running /\ Registering /\ ~Draining
      /\ UNCHANGED <<cases, pending, pending_count, i, n, base, reentered>>
      /\ regs' = new
  BY DEF RunTest, RunTestCase, Running, Registering, Draining, Register, queue, locals
<1>2. /\ regs \in Nat /\ base \in 0 .. regs /\ new # 0 /\ total \in Nat
      /\ pending_count \in Nat /\ MaxTests \in Nat
  BY RunnerAssumption DEF TypeOK, QueueOK, ProgramOK, CountersOK
<1>3. Registered' = Registered \cup {new} /\ new \in Registered'
  BY <1>1, <1>2 DEF Registered
<1>4. RecordedTests' = RecordedTests
  BY <1>1 DEF RecordedTests
<1>14. total' = total \/ total' = total + 1
  BY DEF RunTest, RunTestCase, Exec
<1>5. /\ \/ pc' = "main" /\ total >= MaxTests
         \/ current' = new /\ pc' = "setUp" /\ frame' # "queued"
  BY DEF RunTest, RunTestCase, Exec
<1>6. /\ Registering' /\ ~Draining'
      /\ Running' => current' = new
      /\ ~Running' => total >= MaxTests
  BY <1>5 DEF Registering, Draining, Running
<1>7. \A s : Live(s)' = Live(s)
  BY <1>1, <1>6 DEF Live
<1> HIDE DEF new
<1>8. Named' /\ Once'
  BY <1>1, <1>2, <1>6 DEF LedgerInv, Named, Once
<1>9. Kept => Kept'
  BY <1>1, <1>3, <1>6, <1>7 DEF Kept
<1>13. Waiting = pending_count /\ Waiting' = pending_count
  BY <1>1, <1>6 DEF Waiting
<1>10. Full => Full'
  BY <1>2, <1>14, <1>13 DEF Full
<1>11. ~Running' => Full'
  <2>1. ASSUME total >= MaxTests PROVE total' + pending_count >= MaxTests
    BY <1>2, <1>14, <2>1
  <2> QED
    BY <1>6, <1>13, <2>1 DEF Full
<1>12. Accounted /\ Running' => Accounted'
  BY <1>1, <1>3, <1>4, <1>6, <1>7 DEF Accounted
<1> QED
  BY <1>1, <1>6, <1>8, <1>9, <1>10, <1>11, <1>12 DEF LedgerInv, KeptInv

\* A case appended for a test that has none keeps every other test's verdict.
LEMMA VerdictAt ==
    ASSUME NEW s, NEW k \in DOMAIN s,
           \A l, m \in DOMAIN s : s[l].test = s[m].test => l = m
    PROVE  s[CHOOSE m \in DOMAIN s : s[m].test = s[k].test].result = s[k].result
<1> DEFINE c == CHOOSE m \in DOMAIN s : s[m].test = s[k].test
<1>1. c \in DOMAIN s /\ s[c].test = s[k].test
  OBVIOUS
<1> HIDE DEF c
<1>2. c = k
  BY <1>1
<1> QED
  BY <1>2 DEF c

LEMMA ConcludeLedger ==
    ASSUME ControlOK, CountersOK, Conclude, Once, current \notin RecordedTests,
           UNCHANGED current
    PROVE  /\ RecordedTests' = RecordedTests \cup {current}
           /\ Once'
           /\ LastVerdict(current)' = Verdict
           /\ \A id \in RecordedTests : LastVerdict(id)' = LastVerdict(id)
<1> DEFINE e == [test |-> current, result |-> Verdict]
<1>1. e \in Case /\ e.test = current /\ e.result = Verdict
  BY DEF ControlOK, Case, Verdict, Results
<1>2. cases \in Seq(Case) /\ cases' = Append(cases, e)
  BY DEF CountersOK, Conclude
<1> HIDE DEF e
<1>3. /\ DOMAIN cases = 1 .. Len(cases) /\ Len(cases) \in Nat
      /\ DOMAIN cases' = 1 .. (Len(cases) + 1)
      /\ cases'[Len(cases) + 1] = e
      /\ \A k \in 1 .. Len(cases) : cases'[k] = cases[k]
  BY <1>1, <1>2
<1>4. /\ \A k \in DOMAIN cases' : k \in DOMAIN cases \/ k = Len(cases) + 1
      /\ Len(cases) + 1 \in DOMAIN cases' /\ DOMAIN cases \subseteq DOMAIN cases'
  BY <1>3
<1>5. RecordedTests' = RecordedTests \cup {current}
  BY <1>1, <1>3, <1>4 DEF RecordedTests
<1>6. \A k \in DOMAIN cases : cases[k].test # current
  BY DEF RecordedTests
<1>7. Once'
  BY <1>1, <1>3, <1>4, <1>6 DEF Once
<1>8. ASSUME NEW id, NEW k \in DOMAIN cases', cases'[k].test = id
      PROVE  LastVerdict(id)' = cases'[k].result
  <2>1. \A l, m \in DOMAIN cases' : cases'[l].test = cases'[m].test => l = m
    BY <1>7 DEF Once
  <2>2. cases'[CHOOSE m \in DOMAIN cases' : cases'[m].test = cases'[k].test].result
          = cases'[k].result
    BY <2>1, VerdictAt
  <2> QED
    BY <1>8, <2>2 DEF LastVerdict
<1>9. ASSUME NEW id, NEW k \in DOMAIN cases, cases[k].test = id
      PROVE  LastVerdict(id) = cases[k].result
  <2>1. \A l, m \in DOMAIN cases : cases[l].test = cases[m].test => l = m
    BY DEF Once
  <2>2. cases[CHOOSE m \in DOMAIN cases : cases[m].test = cases[k].test].result
          = cases[k].result
    BY <2>1, VerdictAt
  <2> QED
    BY <1>9, <2>2 DEF LastVerdict
<1>10. ASSUME NEW id \in RecordedTests PROVE LastVerdict(id)' = LastVerdict(id)
  <2>1. PICK k \in DOMAIN cases : cases[k].test = id
    BY DEF RecordedTests
  <2>2. k \in DOMAIN cases' /\ cases'[k] = cases[k]
    BY <1>3, <1>4
  <2> QED
    BY <1>8, <1>9, <2>1, <2>2
<1>11. LastVerdict(current)' = Verdict
  <2>1. ASSUME NEW id, id = current PROVE LastVerdict(id)' = Verdict
    BY <1>1, <1>3, <1>4, <1>8, <2>1
  <2> QED
    BY <2>1
<1> QED
  BY <1>5, <1>7, <1>10, <1>11

\* Recording the running test, or dropping it from a full suite.
LEMMA RecordLedger ==
    ASSUME LedgerInv, OwnInv, TypeOK, Accounting, Record \/ EndCase
    PROVE  LedgerInv'
<1>1. /\ Running /\ ~Running'
      /\ UNCHANGED <<pending, pending_count, i, n, regs, base, reentered, total, current>>
  BY DEF Record, EndCase, Running, queue, locals, program
<1>2. Registering' = Registering /\ Draining' = Draining
  BY DEF Record, EndCase, Registering, Draining, Running, ControlOK, TypeOK
<1>3. Registered' = Registered /\ Waiting' = Waiting /\ \A s : Live(s)' = Live(s)
  BY <1>1, <1>2 DEF Registered, Waiting, Live
<1>4. Named'
  BY <1>1, <1>2 DEF LedgerInv, Named
<1>5. (Kept => Kept') /\ (Full => Full')
  BY <1>1, <1>3 DEF Kept, Full
<1>6. CASE Conclude
  <2>1. RecordedTests' = RecordedTests \cup {current} /\ Once'
    BY <1>1, <1>6, ConcludeLedger DEF LedgerInv, OwnInv, FlagsAreOwn, TypeOK
  <2>2. Accounted => Accounted'
    BY <1>1, <1>3, <2>1 DEF Accounted
  <2> QED
    BY <1>1, <1>2, <1>4, <1>5, <2>1, <2>2 DEF LedgerInv, KeptInv
<1>7. CASE ~Conclude
  <2>1. UNCHANGED cases /\ EndCase /\ Len(cases) >= MaxTests
    BY <1>7 DEF Record, EndCase
  <2>2. Once'
    BY <2>1 DEF LedgerInv, Once
  <2>3. Full
    <3>1. /\ total \in Nat /\ MaxTests \in Nat /\ Len(cases) \in Nat /\ pending_count \in Nat
      BY RunnerAssumption DEF TypeOK, CountersOK, QueueOK
    <3>2. total >= Len(cases)
      BY <3>1 DEF Accounting
    <3>3. Registering
      BY <2>1 DEF EndCase, Registering, Running
    <3>4. Waiting = pending_count
      BY <3>3 DEF Waiting
    <3> QED
      BY <2>1, <3>1, <3>2, <3>4 DEF Full
  <2> QED
    BY <1>1, <1>2, <1>4, <1>5, <2>2, <2>3 DEF LedgerInv, KeptInv
<1> QED
  BY <1>6, <1>7

\* ceedless_end: the shuffle permutes what waits.
LEMMA ShuffleLedger ==
    ASSUME LedgerInv, QueueOK, NEW j \in Slots, Shuffle(j)
    PROVE  LedgerInv'
<1>1. /\ UNCHANGED <<pc, frame, cases, regs, base, reentered, total, current, pending_count>>
      /\ pc = "shuffle" /\ i \in 0 .. MaxTests /\ i > 0 /\ j \in 0 .. i /\ i < pending_count
      /\ pending_count \in 0 .. MaxTests /\ MaxTests \in Nat
      /\ pending \in [Slots -> 0 .. MaxRegs]
      /\ pending' = [pending EXCEPT ![i] = pending[j], ![j] = pending[i]]
  BY RunnerAssumption DEF Shuffle, QueueOK, counters, program, Swap
<1>2. PICK a \in Slots : a = i
  BY <1>1 DEF Slots
<1>3. j < pending_count /\ a < pending_count
  BY <1>1, <1>2
<1>4. /\ \A s \in Slots : s # a /\ s # j => pending'[s] = pending[s]
      /\ pending'[a] = pending[j] /\ pending'[j] = pending[a]
  BY <1>1, <1>2
<1>5. /\ Registering /\ Registering' /\ ~Draining /\ ~Draining' /\ ~Running /\ ~Running'
      /\ RecordedTests' = RecordedTests /\ Registered' = Registered
  BY <1>1 DEF Registering, Draining, Running, RecordedTests, Registered
<1>6. \A s \in Slots : (Live(s) <=> s < pending_count) /\ (Live(s)' <=> s < pending_count)
  BY <1>1, <1>5 DEF Live
<1>7. Named' /\ Once'
  BY <1>1, <1>3, <1>4, <1>5 DEF LedgerInv, Named, Once
<1>8. Kept => Kept'
  BY <1>3, <1>4, <1>5, <1>6 DEF Kept
<1>9. Accounted => Accounted'
  BY <1>3, <1>4, <1>5, <1>6 DEF Accounted
<1>10. Full => Full'
  BY <1>1, <1>5 DEF Full, Waiting
<1> QED
  BY <1>1, <1>5, <1>7, <1>8, <1>9, <1>10 DEF LedgerInv, KeptInv

\* The queue is handed to the drain whole.
LEMMA StartDrainLedger ==
    ASSUME LedgerInv, QueueOK, StartDrain
    PROVE  LedgerInv'
<1>1. /\ ~Running /\ ~Running' /\ Registering /\ ~Registering' /\ ~Draining /\ Draining'
      /\ i = 0 /\ i' = 0 /\ n' = pending_count /\ pending_count' = 0
      /\ UNCHANGED <<cases, regs, base, reentered, total, pending>>
  BY DEF StartDrain, Running, Registering, Draining, counters, program
<1>2. RecordedTests' = RecordedTests /\ Registered' = Registered
  BY <1>1 DEF RecordedTests, Registered
<1>3. \A s \in Slots : s >= 0 /\ ~(s < 0)
  BY DEF Slots
<1>4. \A s \in Slots : Live(s)' <=> Live(s)
  BY <1>1, <1>3 DEF Live
<1>5. Named' /\ Once'
  BY <1>1, <1>3 DEF LedgerInv, Named, Once
<1>6. Kept => Kept'
  BY <1>1, <1>2, <1>4 DEF Kept
<1>7. Accounted => Accounted'
  BY <1>1, <1>2, <1>4 DEF Accounted
<1>8. Full => Full'
  <2>1. Waiting = pending_count /\ Waiting' = pending_count - 0 /\ pending_count \in Nat
    BY <1>1, RunnerAssumption DEF Waiting, QueueOK
  <2> QED
    BY <1>1, <2>1 DEF Full
<1> QED
  BY <1>1, <1>5, <1>6, <1>7, <1>8 DEF LedgerInv, KeptInv

\* The drain takes the next slot; when it ends none is left.
LEMMA DrainLedger ==
    ASSUME LedgerInv, QueueOK, CountersOK, DrainNext
    PROVE  LedgerInv'
<1>1. /\ ~Running /\ Draining /\ Draining' /\ ~Registering /\ ~Registering' /\ i' = i + 1
      /\ i \in 0 .. MaxTests /\ n \in 0 .. MaxTests /\ i < n /\ MaxTests \in Nat /\ total \in Nat
      /\ UNCHANGED <<cases, pending, pending_count, n, regs, base, reentered>>
  BY RunnerAssumption DEF DrainNext, Exec, QueueOK, CountersOK, Running, Draining, Registering,
     queue, program
<1>2. PICK a \in Slots : a = i
  BY <1>1 DEF Slots
<1>3. RecordedTests' = RecordedTests /\ Registered' = Registered
  BY <1>1 DEF RecordedTests, Registered
<1>4. \/ Running' /\ current' = pending[a] /\ total' = total + 1
      \/ ~Running' /\ total >= MaxTests /\ total' = total
  BY <1>1, <1>2 DEF DrainNext, Exec, Running
<1>5. \A s \in Slots : (s >= i /\ s < n) <=> (s = a \/ (s >= i + 1 /\ s < n))
  BY <1>1, <1>2 DEF Slots
<1>6. /\ Live(a)
      /\ \A s \in Slots : Live(s) <=> (s = a \/ Live(s)')
  <2>1. \A s \in Slots : (Live(s) <=> (s >= i /\ s < n)) /\ (Live(s)' <=> (s >= i + 1 /\ s < n))
    BY <1>1 DEF Live
  <2> QED
    BY <1>5, <2>1
<1>7. Named' /\ Once'
  BY <1>1, <1>4, <1>5 DEF LedgerInv, Named, Once
<1>8. Kept => Kept'
  BY <1>1, <1>3, <1>4, <1>6 DEF Kept
<1>9. Full => Full'
  <2>1. Waiting = n - i /\ Waiting' = n - (i + 1)
    BY <1>1 DEF Waiting
  <2>2. total' = total + 1 \/ (total >= MaxTests /\ total' = total)
    BY <1>4
  <2> QED
    BY <1>1, <2>1, <2>2 DEF Full
<1>10. ~Running' => Full'
  <2>1. Waiting' = n - (i + 1)
    BY <1>1 DEF Waiting
  <2>2. ASSUME total >= MaxTests, total' = total PROVE Full'
    BY <1>1, <2>1, <2>2 DEF Full
  <2> QED
    BY <1>4, <2>2
<1>11. Running' /\ Accounted => Accounted'
  BY <1>1, <1>3, <1>4, <1>6 DEF Accounted
<1> QED
  BY <1>1, <1>7, <1>8, <1>9, <1>10, <1>11 DEF LedgerInv, KeptInv

LEMMA DrainDoneLedger ==
    ASSUME LedgerInv, QueueOK, CountersOK, DrainDone
    PROVE  LedgerInv'
<1>1. /\ ~Running /\ ~Running' /\ Draining /\ ~Draining' /\ ~Registering /\ ~Registering'
      /\ i \in 0 .. MaxTests /\ n \in 0 .. MaxTests /\ i >= n /\ MaxTests \in Nat /\ total \in Nat
      /\ UNCHANGED <<cases, pending, pending_count, regs, base, reentered, total>>
  BY RunnerAssumption DEF DrainDone, QueueOK, CountersOK, Running, Draining, Registering,
     queue, program, counters
<1>2. RecordedTests' = RecordedTests /\ Registered' = Registered
  BY <1>1 DEF RecordedTests, Registered
<1>3. \A s \in Slots : ~(s >= i /\ s < n)
  BY <1>1 DEF Slots
<1>4. \A s \in Slots : ~Live(s) /\ ~Live(s)'
  BY <1>1, <1>3 DEF Live
<1>5. Named' /\ Once'
  BY <1>1 DEF LedgerInv, Named, Once
<1>6. Kept' /\ (Accounted => Accounted')
  BY <1>1, <1>2, <1>4 DEF Kept, Accounted
<1>7. Full => Full'
  <2>1. Waiting = n - i /\ Waiting' = 0
    BY <1>1 DEF Waiting
  <2> QED
    BY <1>1, <2>1 DEF Full
<1> QED
  BY <1>1, <1>5, <1>6, <1>7 DEF LedgerInv, KeptInv

\* Without a queue ceedless_end goes on to the report.
LEMMA EndLedger ==
    ASSUME LedgerInv, QueueOK, CountersOK, End
    PROVE  LedgerInv'
<1>1. /\ ~Running /\ ~Running' /\ ~Draining /\ ~Draining' /\ Registering
      /\ pending_count \in Nat
      /\ UNCHANGED <<cases, current, pending, pending_count, n, regs, base, reentered, total>>
  BY RunnerAssumption DEF End, QueueOK, Running, Draining, Registering,
     queue, program, counters
<1>2. CASE pending_count > 0
  <2>1. UNCHANGED <<Registering, Draining, Running>>
    BY <1>2 DEF End, Registering, Draining, Running
  <2> QED
    BY <1>1, <2>1, SameLedger
<1>3. CASE ~(pending_count > 0)
  <2>1. ~Registering' /\ pending_count = 0
    BY <1>1, <1>3 DEF End, Registering, Running
  <2>2. \A s \in Slots : ~(s < 0)
    BY DEF Slots
  <2>3. \A s \in Slots : ~Live(s) /\ ~Live(s)'
    BY <1>1, <2>1, <2>2 DEF Live
  <2>4. RecordedTests' = RecordedTests /\ Registered' = Registered
    BY <1>1 DEF RecordedTests, Registered
  <2>5. Named' /\ Once'
    BY <1>1 DEF LedgerInv, Named, Once
  <2>6. Kept' /\ (Accounted => Accounted')
    BY <1>1, <2>3, <2>4 DEF Kept, Accounted
  <2>7. Waiting = 0 /\ Waiting' = 0
    BY <1>1, <2>1 DEF Waiting
  <2>8. Full => Full'
    BY <1>1, <2>7 DEF Full
  <2> QED
    BY <1>1, <2>1, <2>5, <2>6, <2>8 DEF LedgerInv, KeptInv
<1> QED
  BY <1>2, <1>3

LEMMA LedgerStep ==
    TypeOK /\ Accounting /\ OwnInv /\ LedgerInv /\ [Next]_vars => LedgerInv'
<1> SUFFICES ASSUME TypeOK, Accounting, OwnInv, LedgerInv PROVE [Next]_vars => LedgerInv'
  OBVIOUS
<1>1. ControlOK /\ CountersOK /\ QueueOK /\ ProgramOK
  BY DEF TypeOK
<1>2. CASE QueueTest \/ NestedRunTest
  <2>1. /\ Register /\ Enqueue(regs + 1)
        /\ UNCHANGED <<pc, frame, current, cases, total, i, n>>
    BY <1>2 DEF QueueTest, NestedRunTest, counters, locals
  <2>2. reentered' = (reentered \/ ~Registering)
    BY <1>1, <1>2 DEF QueueTest, NestedRunTest, Registering, Running, ControlOK
  <2> QED
    BY <1>1, <2>1, <2>2, EnqueueLedger
<1>3. CASE SetShuffleSeed \/ Report \/ Exit \/ UNCHANGED vars
  <2>1. UNCHANGED <<pending, pending_count, i, n, current, cases, regs, base, reentered, total>>
    BY <1>3 DEF SetShuffleSeed, Report, Exit, vars, counters, queue, locals, program
  <2>2. UNCHANGED <<Registering, Draining, Running>>
    BY <1>3 DEF SetShuffleSeed, Report, Exit, vars, Registering, Draining, Running
  <2> QED
    BY <2>1, <2>2, SameLedger
<1>4. CASE UserCode
  <2>1. PICK o \in Outcomes : SetUp(o) \/ Body(o) \/ TearDown(o)
    BY <1>4 DEF UserCode
  <2>2. Leave(o) /\ Running /\ Running'
    BY <2>1 DEF SetUp, Body, TearDown, Running
  <2>3. UNCHANGED <<pending, pending_count, i, n, current, frame, cases, regs, base, reentered, total>>
    BY <2>2 DEF Leave, counters, queue, locals, program
  <2>4. UNCHANGED <<Registering, Draining, Running>>
    BY <2>1, <2>2, <2>3 DEF SetUp, Body, TearDown, Registering, Draining, Running
  <2> QED
    BY <2>3, <2>4, SameLedger
<1>5. CASE Begin \/ RunTest \/ RunTestCase \/ Record \/ EndCase
  BY <1>5, BeginLedger, RunLedger, RecordLedger
<1>6. CASE End \/ (\E j \in Slots : Shuffle(j)) \/ StartDrain \/ DrainNext \/ DrainDone
  BY <1>1, <1>6, EndLedger, ShuffleLedger, StartDrainLedger, DrainLedger, DrainDoneLedger
<1> QED
  BY <1>2, <1>3, <1>4, <1>5, <1>6 DEF Next, Main, RunnerStep, Terminated

\* What the ledger sees, by the names it gives it.
Phase == IF pc \in {"start", "ended"} THEN "closed"
         ELSE IF pc = "exited" THEN "exited" ELSE "open"

Verdicts == [id \in RecordedTests |-> LastVerdict(id)]

Seen == <<Phase, Registered, Verdicts, Len(cases), status = 0, reentered>>

LEMMA SeenByLedger ==
    UNCHANGED Seen => [Ledger!Next]_(Ledger!vars)
BY DEF Seen, Phase, Verdicts, Ledger!vars

\* A registration the ledger records.
LEMMA RegisterMaps ==
    ASSUME ProgramOK, Register, Phase = "open", Phase' = "open",
           UNCHANGED <<cases, status>>, reentered' \in {reentered, TRUE}
    PROVE  Ledger!Next
<1>1. /\ regs \in Nat /\ base \in 0 .. regs /\ regs' = regs + 1 /\ base' = base
      /\ regs + 1 \in 1 .. MaxRegs
  BY RunnerAssumption DEF ProgramOK, Register
<1>2. Registered' = Registered \cup {regs + 1} /\ regs + 1 \notin Registered
  BY <1>1 DEF Registered
<1>3. Verdicts' = Verdicts
  BY DEF Verdicts, RecordedTests, LastVerdict
<1>4. Ledger!Register(regs + 1)
  BY <1>2, <1>3 DEF Ledger!Register, Phase, Verdicts
<1> QED
  BY <1>1, <1>4 DEF Ledger!Next

\* A verdict for a test that has none.
LEMMA ConcludeMaps ==
    ASSUME LedgerInv, OwnInv, TypeOK, Accounting, Record \/ EndCase
    PROVE  [Ledger!Next]_(Ledger!vars)
<1>1. /\ Running /\ Phase = "open" /\ Phase' = "open"
      /\ UNCHANGED <<current, regs, base, reentered, status>>
  BY DEF Record, EndCase, Running, Phase, program, outcome
<1>2. Registered' = Registered /\ (status = 0)' = (status = 0)
  BY <1>1 DEF Registered
<1>3. CASE ~Conclude
  <2>1. UNCHANGED cases
    BY <1>3 DEF Record, EndCase
  <2>2. Verdicts' = Verdicts /\ Len(cases)' = Len(cases)
    BY <2>1 DEF Verdicts, RecordedTests, LastVerdict
  <2> QED
    BY <1>1, <1>2, <2>2, SeenByLedger DEF Seen
<1>4. CASE Conclude
  <2>1. /\ current \notin RecordedTests /\ (current \in Registered \/ reentered)
        /\ current \in 1 .. MaxRegs
    <3>1. current \in 0 .. MaxRegs /\ current # 0 /\ MaxRegs \in Nat
      BY <1>1, RunnerAssumption DEF LedgerInv, Named, TypeOK, ControlOK
    <3> QED
      BY <1>1, <3>1 DEF OwnInv, FlagsAreOwn, LedgerInv, KeptInv, Kept
  <2>2. /\ RecordedTests' = RecordedTests \cup {current}
        /\ LastVerdict(current)' = Verdict
        /\ \A id \in RecordedTests : LastVerdict(id)' = LastVerdict(id)
    BY <1>1, <1>4, <2>1, ConcludeLedger DEF LedgerInv, TypeOK
  <2>3. Verdicts' = [x \in RecordedTests \cup {current} |->
                        IF x = current THEN Verdict ELSE Verdicts[x]]
    <3>1. \A x \in RecordedTests \cup {current} :
            LastVerdict(x)' = IF x = current THEN Verdict ELSE Verdicts[x]
      <4> SUFFICES ASSUME NEW x \in RecordedTests \cup {current}
                   PROVE  LastVerdict(x)' = IF x = current THEN Verdict ELSE Verdicts[x]
        OBVIOUS
      <4>1. CASE x = current
        BY <1>1, <2>2, <4>1
      <4>2. CASE x # current
        BY <2>2, <4>2 DEF Verdicts
      <4> QED
        BY <4>1, <4>2
    <3>2. Verdicts' = [x \in RecordedTests' |-> LastVerdict(x)']
      BY DEF Verdicts
    <3> QED
      BY <2>2, <3>1, <3>2
  <2>4. Len(cases) < MaxTests /\ Len(cases)' = Len(cases) + 1
    <3>1. cases \in Seq(Case) /\ Len(cases) \in Nat /\ total \in Nat /\ MaxTests \in Nat
      BY RunnerAssumption DEF TypeOK, CountersOK
    <3>2. Len(cases') = Len(cases) + 1
      BY <1>4, <3>1 DEF Conclude
    <3>3. Len(cases) < MaxTests
      <4>1. CASE Uncounted
        BY <1>4, <3>1, <3>2, <4>1 DEF Record, EndCase, Uncounted
      <4>2. CASE ~Uncounted
        <5>1. total = Len(cases) + 1 /\ total <= MaxTests
          BY <1>1, <4>2 DEF Accounting
        <5> QED
          BY <3>1, <5>1
      <4> QED
        BY <4>1, <4>2
    <3> QED
      BY <3>2, <3>3
  <2>5. Verdict \in Results /\ DOMAIN Verdicts = RecordedTests
    BY DEF Verdict, Results, Verdicts
  <2>6. Ledger!Conclude(current, Verdict)
    BY <1>1, <1>2, <2>1, <2>3, <2>4, <2>5
       DEF Ledger!Conclude, Ledger!Recorded, Phase, Verdicts
  <2> QED
    BY <2>1, <2>5, <2>6 DEF Ledger!Next
<1> QED
  BY <1>3, <1>4

\* When a suite is reported, nothing that was registered is left.
LEMMA ReportMaps ==
    ASSUME LedgerInv, TypeOK, Accounting, Report
    PROVE  Ledger!Next
<1>1. /\ ~Running /\ ~Registering /\ ~Draining /\ Phase = "open" /\ Phase' = "closed"
      /\ UNCHANGED <<cases, regs, base, reentered, status>>
  BY DEF Report, Running, Registering, Draining, Phase, counters, program
<1>2. Registered' = Registered /\ Verdicts' = Verdicts
  BY <1>1 DEF Registered, Verdicts, RecordedTests, LastVerdict
<1>3. Accounted => Registered \subseteq RecordedTests
  BY <1>1 DEF Accounted, Live
<1>4. Full => Len(cases) = MaxTests
  <2>1. /\ total \in Nat /\ MaxTests \in Nat /\ Len(cases) \in Nat
    BY RunnerAssumption DEF TypeOK, CountersOK
  <2>2. Waiting = 0 /\ total = Len(cases) + 0 /\ total <= MaxTests
    BY <1>1 DEF Waiting, Accounting
  <2> QED
    BY <2>1, <2>2 DEF Full
<1>5. Registered \subseteq RecordedTests \/ Len(cases) = MaxTests \/ reentered
  BY <1>3, <1>4 DEF LedgerInv, KeptInv
<1>6. DOMAIN Verdicts = RecordedTests
  BY DEF Verdicts
<1>7. Ledger!Close
  BY <1>1, <1>2, <1>5, <1>6 DEF Ledger!Close, Ledger!Recorded, Phase, Verdicts
<1> QED
  BY <1>7 DEF Ledger!Next

\* The program exits with 0 only if its last suite recorded no failure.
LEMMA ExitMaps ==
    ASSUME LedgerInv, TypeOK, Accounting, StatusInv, Exit
    PROVE  Ledger!Next
<1>1. /\ Phase = "closed" /\ Phase' = "exited" /\ pc = "ended" /\ status' = result % StatusMod
      /\ UNCHANGED <<cases, regs, base, reentered, failed, result>>
  BY DEF Exit, Phase, counters, program
<1>2. Registered' = Registered /\ Verdicts' = Verdicts
  BY <1>1 DEF Registered, Verdicts, RecordedTests, LastVerdict
<1>3. ASSUME status' = 0, NEW id \in RecordedTests PROVE Verdicts[id] # "fail"
  <2>1. failed \in Nat /\ ~(failed > 0)
    BY <1>1, <1>3 DEF StatusInv, TypeOK, CountersOK
  <2>2. Cardinality(Positions(cases, "fail")) = 0
    BY <2>1, CountIs DEF Accounting
  <2>3. IsFiniteSet(Positions(cases, "fail"))
    <3>1. cases \in Seq(Case) /\ IsFiniteSet(1 .. Len(cases))
      BY FS_Interval DEF TypeOK, CountersOK
    <3>2. Positions(cases, "fail") \subseteq 1 .. Len(cases)
      BY <3>1 DEF Positions
    <3> QED
      BY <3>1, <3>2, FS_Subset
  <2>4. Positions(cases, "fail") = {}
    BY <2>2, <2>3, FS_EmptySet
  <2>5. PICK k \in DOMAIN cases : cases[k].test = id
    BY DEF RecordedTests
  <2>6. LastVerdict(id) = cases[k].result
    BY <2>5, VerdictAt DEF LedgerInv, Once, LastVerdict
  <2> QED
    BY <2>4, <2>6 DEF Positions, Verdicts
<1>4. DOMAIN Verdicts = RecordedTests /\ (status = 0)' \in BOOLEAN
  BY DEF Verdicts
<1>5. Ledger!Exit
  BY <1>1, <1>2, <1>3, <1>4 DEF Ledger!Exit, Ledger!Recorded, Phase, Verdicts
<1> QED
  BY <1>5 DEF Ledger!Next

\* A new suite, and the steps the ledger does not see.
LEMMA BeginMaps ==
    ASSUME ProgramOK, Begin
    PROVE  Ledger!Next
<1>1. /\ Phase = "closed" /\ Phase' = "open" /\ cases' = << >>
      /\ base' = regs /\ regs' = regs /\ regs \in Nat /\ UNCHANGED <<status, reentered>>
  BY DEF Begin, Phase, outcome, ProgramOK
<1>2. Registered' = {} /\ RecordedTests' = {} /\ Len(cases') = 0
  BY <1>1 DEF Registered, RecordedTests
<1>3. Verdicts' = << >>
  <2>1. Verdicts' = [id \in {} |-> LastVerdict(id)']
    BY <1>2 DEF Verdicts
  <2> QED
    BY <2>1
<1>4. Ledger!Open
  BY <1>1, <1>2, <1>3 DEF Ledger!Open, Phase, Verdicts
<1> QED
  BY <1>4 DEF Ledger!Next

LEMMA OtherMaps ==
    ASSUME \/ SetShuffleSeed \/ End \/ UserCode \/ (\E j \in Slots : Shuffle(j))
           \/ StartDrain \/ DrainNext \/ DrainDone \/ UNCHANGED vars
    PROVE  [Ledger!Next]_(Ledger!vars)
<1>1. /\ UNCHANGED <<cases, regs, base, reentered, status>>
      /\ Phase' = Phase
  <2>1. CASE UserCode
    BY <2>1 DEF UserCode, SetUp, Body, TearDown, Leave, Phase, counters, program, outcome
  <2>2. CASE ~UserCode
    BY <2>2 DEF SetShuffleSeed, End, Shuffle, StartDrain, DrainNext, DrainDone, Exec, vars,
         Phase, counters, program, outcome
  <2> QED
    BY <2>1, <2>2
<1>2. UNCHANGED Seen
  BY <1>1 DEF Seen, Verdicts, RecordedTests, LastVerdict, Registered
<1> QED
  BY <1>2, SeenByLedger

LEMMA StepMaps ==
    LedgerInv /\ OwnInv /\ TypeOK /\ Accounting /\ StatusInv /\ [Next]_vars
      => [Ledger!Next]_(Ledger!vars)
<1> SUFFICES ASSUME LedgerInv, OwnInv, TypeOK, Accounting, StatusInv
             PROVE  [Next]_vars => [Ledger!Next]_(Ledger!vars)
  OBVIOUS
<1>1. ProgramOK
  BY DEF TypeOK
<1>2. CASE QueueTest \/ NestedRunTest \/ RunTest \/ RunTestCase
  <2>1. /\ Register /\ Phase = "open" /\ Phase' = "open" /\ UNCHANGED <<cases, status>>
    <3>1. CASE QueueTest \/ NestedRunTest
      BY <3>1 DEF QueueTest, NestedRunTest, Phase, counters, outcome
    <3>2. CASE RunTest \/ RunTestCase
      BY <3>2 DEF RunTest, RunTestCase, Exec, Phase, outcome
    <3> QED
      BY <1>2, <3>1, <3>2
  <2>2. reentered' = reentered \/ reentered' = TRUE
    <3>1. reentered \in BOOLEAN
      BY DEF TypeOK, ControlOK
    <3> QED
      BY <1>2, <3>1 DEF QueueTest, NestedRunTest, RunTest, RunTestCase
  <2> QED
    BY <1>1, <2>1, <2>2, RegisterMaps
<1>3. CASE Record \/ EndCase
  BY <1>3, ConcludeMaps
<1>4. CASE Begin \/ Report \/ Exit
  BY <1>1, <1>4, BeginMaps, ReportMaps, ExitMaps
<1>5. CASE \/ SetShuffleSeed \/ End \/ UserCode \/ (\E j \in Slots : Shuffle(j))
           \/ StartDrain \/ DrainNext \/ DrainDone \/ UNCHANGED vars
  BY <1>5, OtherMaps
<1> QED
  BY <1>2, <1>3, <1>4, <1>5 DEF Next, Main, RunnerStep, Terminated

\* The runner implements the suite ledger: no test is lost, run twice or given
\* two verdicts, and the exit status follows from them, until a queued test
\* registers another.
THEOREM LedgerHolds ==
    ASSUME MaxTests < StatusMod
    PROVE  Spec => LedgerSpec
<1>1. Init => Ledger!Init
  <2> SUFFICES ASSUME Init PROVE Ledger!Init
    OBVIOUS
  <2>1. RecordedTests = {} /\ Registered = {} /\ Len(cases) = 0
    BY DEF Init, RecordedTests, Registered
  <2>2. Verdicts = << >>
    <3>1. Verdicts = [id \in {} |-> LastVerdict(id)]
      BY <2>1 DEF Verdicts
    <3> QED
      BY <3>1
  <2> QED
    BY <2>1, <2>2 DEF Init, Ledger!Init, Verdicts
<1>2. Init => StatusInv
  BY DEF Init, StatusInv
<1>3. TypeOK /\ Accounting /\ StatusInv /\ [Next]_vars => StatusInv'
  BY StatusStep DEF TypeOK
<1> QED
  BY <1>1, <1>2, <1>3, LedgerInit, LedgerStep, OwnInit, OwnStep, StepMaps, TypeCorrect,
     AccountingHolds, PTL DEF Spec, LedgerSpec, Ledger!Spec
=============================================================================
