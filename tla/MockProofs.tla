----------------------------- MODULE MockProofs -----------------------------
(***************************************************************************)
(* The mock for every capacity, every set of arguments and every sequence  *)
(* of tests.                                                               *)
(***************************************************************************)
EXTENDS Mock, SequenceTheorems, TLAPS

RecordsOK == records \in Seq(Record) /\ Len(records) <= Capacity /\ head \in 0 .. Len(records)

ModesOK ==
    /\ pc \in {"between", "test"} /\ runs \in 0 .. MaxRuns
    /\ ignore \in BOOLEAN /\ ignore_ret \in Rets \cup {Nothing}
    /\ stub \in BOOLEAN
    /\ calls \in 0 .. MaxInvokes

LEMMA NoRecords == << >> \in Seq(Record) /\ Len(<< >>) = 0
OBVIOUS

LEMMA ResetTyped ==
    ASSUME ResetState
    PROVE  /\ RecordsOK'
           /\ ignore' \in BOOLEAN /\ ignore_ret' \in Rets \cup {Nothing}
           /\ stub' \in BOOLEAN /\ calls' \in 0 .. MaxInvokes
<1>1. records' = << >> /\ head' = 0
  BY DEF ResetState
<1>2. RecordsOK'
  BY <1>1, NoRecords, MockAssumption DEF RecordsOK
<1> QED
  <2>1. ignore' = FALSE /\ ignore_ret' = Nothing /\ stub' = FALSE /\ calls' = 0
    BY DEF ResetState
  <2>2. stub' \in BOOLEAN /\ ignore' \in BOOLEAN
    BY <2>1
  <2>3. ignore_ret' \in Rets \cup {Nothing}
    BY <2>1
  <2>4. calls' \in 0 .. MaxInvokes
    BY <2>1, MockAssumption
  <2> QED
    BY <1>2, <2>2, <2>3, <2>4

\* Queue adds at most one record, at the end, and never beyond the array.
LEMMA QueueKeepsRecords ==
    ASSUME RecordsOK, ModesOK, NEW r \in Record, Queue(r)
    PROVE  RecordsOK' /\ ModesOK'
<1> USE MockAssumption DEF Queue, FailTest, modes, control
<1>1. ModesOK'
  BY DEF ModesOK
<1>2. CASE Len(records) >= Capacity
  BY <1>1, <1>2 DEF RecordsOK
<1>3. CASE Len(records) < Capacity
  <2>1. records' = Append(records, r) /\ head' = head
    BY <1>3
  <2>2. records' \in Seq(Record) /\ Len(records') = Len(records) + 1
    BY <2>1 DEF RecordsOK
  <2> QED
    BY <1>1, <1>3, <2>1, <2>2 DEF RecordsOK
<1> QED
  BY <1>1, <1>2, <1>3 DEF RecordsOK

\* Every expectation is a record.
LEMMA ExpectationTyped ==
    ASSUME NEW accepts \in SUBSET Args, NEW ret \in Rets \cup {Nothing},
           NEW throw \in Codes \cup {Nothing}, NEW thru \in Data \cup {Nothing}
    PROVE  [Expecting(accepts, ret, throw) EXCEPT !.thru = thru] \in Record
           /\ Expecting(accepts, ret, throw) \in Record
BY DEF Expecting, Record

LEMMA ExpectationsQueue ==
    ASSUME Expectations
    PROVE  \/ \E r \in Record : Queue(r)
           \/ \E d \in Data : ReturnThruPtr(d)
<1>1. CASE \E a \in Args, ret \in Rets \cup {Nothing} : Expect(a, ret)
  <2>1. PICK a \in Args, ret \in Rets \cup {Nothing} : Expect(a, ret)
    BY <1>1
  <2>2. Expecting({a}, ret, Nothing) \in Record
    BY ExpectationTyped
  <2> QED
    BY <2>1, <2>2 DEF Expect
<1>2. CASE \E ret \in Rets \cup {Nothing} : ExpectAnyArgs(ret)
  <2>1. PICK ret \in Rets \cup {Nothing} : ExpectAnyArgs(ret)
    BY <1>2
  <2>2. Expecting(Args, ret, Nothing) \in Record
    BY ExpectationTyped
  <2> QED
    BY <2>1, <2>2 DEF ExpectAnyArgs
<1>3. CASE \E accepts \in {Args} \cup {{a} : a \in Args}, code \in Codes :
             ExpectAndThrow(accepts, code)
  <2>1. PICK accepts \in {Args} \cup {{a} : a \in Args}, code \in Codes :
           ExpectAndThrow(accepts, code)
    BY <1>3
  <2>2. accepts \in SUBSET Args
    OBVIOUS
  <2>3. Expecting(accepts, Nothing, code) \in Record
    BY <2>2, ExpectationTyped
  <2> QED
    BY <2>1, <2>3 DEF ExpectAndThrow
<1>4. CASE \E accepts \in SUBSET Args, ret \in Rets \cup {Nothing} :
             ExpectWithMatcher(accepts, ret)
  <2>1. PICK accepts \in SUBSET Args, ret \in Rets \cup {Nothing} :
           ExpectWithMatcher(accepts, ret)
    BY <1>4
  <2>2. Expecting(accepts, ret, Nothing) \in Record
    BY ExpectationTyped
  <2> QED
    BY <2>1, <2>2 DEF ExpectWithMatcher
<1> QED
  BY <1>1, <1>2, <1>3, <1>4 DEF Expectations

\* Writing the data into the newest record changes what that record accepts
\* and the number of records only when there was none.
LEMMA ThruPtrKeepsRecords ==
    ASSUME RecordsOK, NEW d \in Data, ReturnThruPtr(d)
    PROVE  /\ records' \in Seq(Record)
           /\ \/ records = << >> /\ Len(records') = 1
              \/ /\ Len(records') = Len(records)
                 /\ \A k \in 1 .. Len(records) : records'[k].accepts = records[k].accepts
<1>1. CASE records = << >>
  <2> DEFINE e == [Expecting(Args, Nothing, Nothing) EXCEPT !.thru = d]
  <2>1. e \in Record
    BY ExpectationTyped
  <2>2. records' = <<e>>
    BY <1>1 DEF ReturnThruPtr
  <2> HIDE DEF e
  <2> QED
    BY <1>1, <2>1, <2>2
<1>2. CASE records # << >>
  <2>1. records \in Seq(Record) /\ Len(records) \in 1 .. Len(records)
    BY <1>2 DEF RecordsOK
  <2> DEFINE e == [records[Len(records)] EXCEPT !.thru = d]
  <2>2. e \in Record /\ e.accepts = records[Len(records)].accepts
    <3>1. records[Len(records)] \in Record
      BY <2>1
    <3> QED
      BY <3>1 DEF Record
  <2>3. records' = [records EXCEPT ![Len(records)] = e]
    BY <1>2 DEF ReturnThruPtr
  <2> HIDE DEF e
  <2>4. records' \in Seq(Record) /\ Len(records') = Len(records)
    BY <2>1, <2>2, <2>3
  <2>5. \A k \in 1 .. Len(records) : records'[k].accepts = records[k].accepts
    BY <2>1, <2>2, <2>3
  <2> QED
    BY <2>4, <2>5
<1> QED
  BY <1>1, <1>2

\* Every step keeps the records inside the array and the modes typed.
LEMMA RecordsStep == RecordsOK /\ ModesOK /\ [Next]_vars => RecordsOK' /\ ModesOK'
<1> SUFFICES ASSUME RecordsOK, ModesOK, [Next]_vars PROVE RecordsOK' /\ ModesOK'
  OBVIOUS
<1> USE MockAssumption DEF modes, control
<1>1. CASE StartTest
  <2>1. CASE ResetsFirst
    BY <1>1, <2>1, ResetTyped DEF StartTest, ModesOK
  <2>2. CASE ~ResetsFirst
    BY <1>1, <2>2 DEF StartTest, RecordsOK, ModesOK
  <2> QED
    BY <2>1, <2>2
<1>2. CASE Reset
  BY <1>2, ResetTyped DEF Reset, ModesOK
<1>3. CASE Expectations
  <2>1. CASE \E r \in Record : Queue(r)
    BY <2>1, QueueKeepsRecords
  <2>2. CASE \E d \in Data : ReturnThruPtr(d)
    <3>1. PICK d \in Data : ReturnThruPtr(d)
      BY <2>2
    <3>2. /\ records' \in Seq(Record)
          /\ Len(records') = Len(records) \/ (records = << >> /\ Len(records') = 1)
      BY <3>1, ThruPtrKeepsRecords
    <3>3. head' = head /\ ModesOK'
      BY <3>1 DEF ReturnThruPtr, ModesOK
    <3>4. CASE Len(records') = Len(records)
      BY <3>2, <3>3, <3>4 DEF RecordsOK
    <3>5. CASE records = << >> /\ Len(records') = 1
      <4>1. Len(records) = 0
        BY <3>5, NoRecords
      <4>2. head' = 0
        BY <3>3, <4>1 DEF RecordsOK
      <4> QED
        BY <3>2, <3>3, <3>5, <4>2 DEF RecordsOK
    <3> QED
      BY <3>2, <3>4, <3>5
  <2> QED
    BY <1>3, <2>1, <2>2, ExpectationsQueue
<1>4. CASE Modes
  BY <1>4 DEF Modes, Ignore, StopIgnore, StubWithCallback, RecordsOK, ModesOK
<1>5. ASSUME NEW a \in Args, Invoke(a) PROVE RecordsOK' /\ ModesOK'
  <2>1. ModesOK'
    BY <1>5 DEF Invoke, InvokeStub, InvokeIgnored, InvokeUnexpected, InvokeRecord,
         FailTest, ModesOK
  <2>2. RecordsOK'
    BY <1>5 DEF Invoke, InvokeStub, InvokeIgnored, InvokeUnexpected, InvokeRecord,
         RecordsOK
  <2> QED
    BY <2>1, <2>2
<1>6. CASE Verify
  BY <1>6 DEF Verify, FailTest, RecordsOK, ModesOK
<1>7. CASE EndTest
  BY <1>7 DEF EndTest, RecordsOK, ModesOK
<1>8. CASE UNCHANGED vars
  BY <1>8 DEF vars, RecordsOK, ModesOK
<1> QED
  BY <1>1, <1>2, <1>3, <1>4, <1>5, <1>6, <1>7, <1>8 DEF Next, Finished

LEMMA InitTyped == Init => RecordsOK /\ ModesOK
<1> SUFFICES ASSUME Init PROVE RecordsOK /\ ModesOK
  OBVIOUS
<1>1. records = << >> /\ head = 0
  BY DEF Init
<1>2. RecordsOK
  BY <1>1, NoRecords, MockAssumption DEF RecordsOK
<1>3. ModesOK
  <2>1. runs \in 0 .. MaxRuns /\ calls \in 0 .. MaxInvokes
    BY MockAssumption DEF Init
  <2>2. ignore \in BOOLEAN /\ stub \in BOOLEAN
    BY DEF Init
  <2>3. pc \in {"between", "test"} /\ ignore_ret \in Rets \cup {Nothing}
    BY DEF Init
  <2> QED
    BY <2>1, <2>2, <2>3 DEF ModesOK
<1> QED
  BY <1>2, <1>3

\* Queued records never overflow the array, and a call never uses a record
\* that was not queued.
THEOREM RecordsInBounds == Spec => [](Len(records) <= Capacity /\ head \in 0 .. Len(records))
<1>1. Init => RecordsOK /\ ModesOK
  BY InitTyped
<1>2. RecordsOK => Len(records) <= Capacity /\ head \in 0 .. Len(records)
  BY DEF RecordsOK
<1> QED
  BY <1>1, <1>2, RecordsStep, PTL DEF Spec

\* What the last operation gave, and the arguments the used records accepted.
GivenOK == last \in Outcome /\ answered \in Seq(Args)

LEMMA DidTyped ==
    ASSUME NEW op \in {"none", "expect", "refused", "thru", "failed", "stub", "verified"}
    PROVE  Did(op) \in Outcome
BY DEF Did, Outcome

LEMMA InvokeGives ==
    ASSUME RecordsOK, ModesOK, GivenOK, NEW a \in Args, Invoke(a)
    PROVE  GivenOK'
<1>1. CASE InvokeStub \/ InvokeUnexpected
  BY <1>1, DidTyped DEF InvokeStub, InvokeUnexpected, FailTest, GivenOK
<1>2. CASE InvokeIgnored
  BY <1>2 DEF InvokeIgnored, ModesOK, GivenOK, Gave, Returned, Outcome
<1>3. CASE InvokeRecord(a)
  <2> DEFINE r == records[head + 1]
  <2>1. r \in Record
    BY <1>3 DEF InvokeRecord, RecordsOK
  <2>2. Gave(Returned(r.ret), r.throw, r.thru) \in Outcome
    BY <2>1 DEF Gave, Returned, Outcome, Record
  <2>3. CASE a \in r.accepts
    <3>1. last' = Gave(Returned(r.ret), r.throw, r.thru) /\ answered' = Append(answered, a)
      BY <1>3, <2>3 DEF InvokeRecord
    <3> QED
      BY <2>2, <3>1 DEF GivenOK
  <2>4. CASE a \notin r.accepts
    BY <1>3, <2>4, DidTyped DEF InvokeRecord, FailTest, GivenOK
  <2> QED
    BY <2>3, <2>4
<1> QED
  BY <1>1, <1>2, <1>3 DEF Invoke

LEMMA GivenStep == RecordsOK /\ ModesOK /\ GivenOK /\ [Next]_vars => GivenOK'
<1> SUFFICES ASSUME RecordsOK, ModesOK, GivenOK PROVE [Next]_vars => GivenOK'
  OBVIOUS
<1>1. ASSUME answered' \in {answered, << >>},
             \/ last' = last
             \/ \E op \in {"none", "expect", "refused", "thru", "failed", "stub", "verified"} :
                  last' = Did(op)
      PROVE  GivenOK'
  <2>1. last' \in Outcome
    BY <1>1, DidTyped DEF GivenOK
  <2>2. answered' \in Seq(Args)
    <3>1. << >> \in Seq(Args)
      OBVIOUS
    <3> QED
      BY <1>1, <3>1 DEF GivenOK
  <2> QED
    BY <2>1, <2>2 DEF GivenOK
<1>2. CASE StartTest \/ Reset
  BY <1>1, <1>2 DEF StartTest, Reset, ResetState
<1>3. CASE Expectations
  <2>1. ASSUME NEW r \in Record, Queue(r) PROVE GivenOK'
    BY <1>1, <2>1 DEF Queue, FailTest
  <2>2. ASSUME NEW d \in Data, ReturnThruPtr(d) PROVE GivenOK'
    BY <1>1, <2>2 DEF ReturnThruPtr
  <2> QED
    BY <1>3, <2>1, <2>2, ExpectationsQueue
<1>4. CASE Modes
  BY <1>1, <1>4 DEF Modes, Ignore, StopIgnore, StubWithCallback
<1>5. CASE Verify \/ EndTest \/ UNCHANGED vars
  BY <1>1, <1>5 DEF Verify, EndTest, FailTest, vars
<1> QED
  BY <1>2, <1>3, <1>4, <1>5, InvokeGives DEF Next, Finished

\* The mock keeps its types: no operation gives a value nobody queued, and the
\* records fit the array.
THEOREM TypeCorrect == Spec => []TypeOK
<1>1. Init => GivenOK
  BY DidTyped DEF Init, GivenOK
<1>2. RecordsOK /\ ModesOK /\ GivenOK => TypeOK
  BY DEF RecordsOK, ModesOK, GivenOK, TypeOK
<1> QED
  BY InitTyped, RecordsStep, GivenStep, <1>1, <1>2, PTL DEF Spec
-----------------------------------------------------------------------------
(* What a successful mock_verify says, when every test resets the mock.    *)

Matched ==
    /\ answered \in Seq(Args) /\ Len(answered) = head
    /\ \A k \in 1 .. head : answered[k] \in records[k].accepts

\* A test that has not failed has used its records in order, each by a call it
\* accepts; and mock_verify was the last operation only if none is left.
MatchInv ==
    /\ pc = "test" \/ last.op = "verified" => Matched
    /\ last.op = "verified" /\ ~ignore => head = Len(records)

\* An operation that uses no record and keeps what the used ones accept.
LEMMA MatchKept ==
    ASSUME RecordsOK, MatchInv, pc = "test",
           head' = head, answered' = answered, last'.op # "verified",
           \A k \in 1 .. head : records'[k].accepts = records[k].accepts
    PROVE  MatchInv'
BY DEF MatchInv, Matched

\* A failed test promises nothing.
LEMMA FailKeepsMatch ==
    ASSUME NEW op, op # "verified", FailTest(op)
    PROVE  MatchInv'
BY DEF FailTest, Did, MatchInv

LEMMA ResetMatches ==
    ASSUME ResetState, last'.op # "verified"
    PROVE  MatchInv'
BY DEF ResetState, MatchInv, Matched

\* A call answered by a record extends the matched prefix by one.
LEMMA UseRecordMatches ==
    ASSUME RecordsOK, MatchInv, pc = "test", NEW a \in Args,
           InvokeRecord(a), UNCHANGED records
    PROVE  MatchInv'
<1>1. records \in Seq(Record) /\ head + 1 \in 1 .. Len(records) /\ head \in Nat
  BY DEF RecordsOK, InvokeRecord
<1>2. CASE a \in records[head + 1].accepts
  <2>1. /\ answered \in Seq(Args) /\ Len(answered) = head
        /\ \A k \in 1 .. head : answered[k] \in records[k].accepts
    BY DEF MatchInv, Matched
  <2>2. /\ answered' = Append(answered, a) /\ head' = head + 1
        /\ records' = records /\ last'.op = "call"
    BY <1>2 DEF InvokeRecord, Gave
  <2>3. /\ answered' \in Seq(Args) /\ Len(answered') = head + 1
        /\ answered'[head + 1] = a
        /\ \A k \in 1 .. head : answered'[k] = answered[k]
    BY <2>1, <2>2
  <2>4. \A k \in 1 .. head' : k \in 1 .. head \/ k = head + 1
    BY <1>1, <2>2
  <2>5. \A k \in 1 .. head' : answered'[k] \in records'[k].accepts
    BY <1>2, <2>1, <2>2, <2>3, <2>4
  <2> QED
    BY <2>2, <2>3, <2>5 DEF MatchInv, Matched
<1>3. CASE a \notin records[head + 1].accepts
  <2>1. FailTest("failed")
    BY <1>3 DEF InvokeRecord
  <2> QED
    BY <2>1, FailKeepsMatch
<1> QED
  BY <1>2, <1>3

LEMMA MatchStep ==
    ASSUME ResetsFirst, RecordsOK, MatchInv, [Next]_vars
    PROVE  MatchInv'
<1>1. CASE StartTest \/ Reset
  <2>1. ResetState /\ last'.op # "verified"
    BY <1>1 DEF StartTest, Reset, Did
  <2> QED
    BY <2>1, ResetMatches
<1>2. ASSUME NEW r \in Record, Queue(r) PROVE MatchInv'
  <2>1. CASE Len(records) >= Capacity
    <3>1. FailTest("refused")
      BY <1>2, <2>1 DEF Queue
    <3> QED
      BY <3>1, FailKeepsMatch
  <2>2. CASE ~(Len(records) >= Capacity)
    <3>1. /\ records' = Append(records, r) /\ last'.op # "verified" /\ pc = "test"
          /\ head' = head /\ answered' = answered
      BY <1>2, <2>2 DEF Queue, Did
    <3>2. \A k \in 1 .. head : records'[k].accepts = records[k].accepts
      BY <3>1 DEF RecordsOK
    <3> QED
      BY <3>1, <3>2, MatchKept
  <2> QED
    BY <2>1, <2>2
<1>3. ASSUME NEW d \in Data, ReturnThruPtr(d) PROVE MatchInv'
  <2>1. /\ last'.op # "verified" /\ pc = "test"
        /\ head' = head /\ answered' = answered
    BY <1>3 DEF ReturnThruPtr, Did
  <2>2. \A k \in 1 .. head : records'[k].accepts = records[k].accepts
    <3>1. CASE records = << >>
      <4>1. head = 0
        BY <3>1, NoRecords DEF RecordsOK
      <4> QED
        BY <4>1
    <3>2. CASE records # << >>
      <4>1. records' = [records EXCEPT ![Len(records)].thru = d]
        BY <1>3, <3>2 DEF ReturnThruPtr
      <4>2. \A k \in 1 .. Len(records) : records[k] \in Record
        BY DEF RecordsOK
      <4> QED
        BY <4>1, <4>2 DEF RecordsOK, Record
    <3> QED
      BY <3>1, <3>2
  <2> QED
    BY <2>1, <2>2, MatchKept
<1>4. CASE Modes
  <2>1. /\ last'.op # "verified" /\ pc = "test"
        /\ head' = head /\ answered' = answered /\ records' = records
    BY <1>4 DEF Modes, Ignore, StopIgnore, StubWithCallback, Did
  <2> QED
    BY <2>1, MatchKept
<1>5. ASSUME NEW a \in Args, Invoke(a) PROVE MatchInv'
  <2>1. pc = "test" /\ records' = records
    BY <1>5 DEF Invoke
  <2>2. CASE InvokeStub \/ InvokeIgnored
    <3>1. last'.op # "verified" /\ head' = head /\ answered' = answered
      BY <2>2 DEF InvokeStub, InvokeIgnored, Did, Gave
    <3> QED
      BY <2>1, <3>1, MatchKept
  <2>3. CASE InvokeUnexpected
    <3>1. FailTest("failed")
      BY <2>3 DEF InvokeUnexpected
    <3> QED
      BY <3>1, FailKeepsMatch
  <2>4. CASE InvokeRecord(a)
    BY <2>1, <2>4, UseRecordMatches
  <2> QED
    BY <1>5, <2>2, <2>3, <2>4 DEF Invoke
<1>6. CASE Verify
  <2>1. CASE ignore \/ head = Len(records)
    BY <1>6, <2>1 DEF Verify, Did, control, modes, MatchInv, Matched
  <2>2. CASE ~(ignore \/ head = Len(records))
    <3>1. FailTest("failed")
      BY <1>6, <2>2 DEF Verify
    <3> QED
      BY <3>1, FailKeepsMatch
  <2> QED
    BY <2>1, <2>2
<1>7. CASE EndTest
  BY <1>7 DEF EndTest, modes, MatchInv, Matched
<1>8. CASE UNCHANGED vars
  BY <1>8 DEF vars, control, modes, MatchInv, Matched
<1> QED
  BY <1>1, <1>2, <1>3, <1>4, <1>5, <1>6, <1>7, <1>8, ExpectationsQueue
  DEF Next, Finished

\* When every test starts with MOCK_RESET, a mock_verify that lets the test go
\* on means that every expectation was met in order, for every capacity and
\* whatever mixture of expectations, stubs and ignored calls the test makes.
THEOREM VerifyMeansMatched ==
    ASSUME ResetsFirst
    PROVE  Spec => []VerifiedMeansMatched
<1>1. Init => RecordsOK /\ ModesOK /\ MatchInv
  <2> SUFFICES ASSUME Init PROVE RecordsOK /\ ModesOK /\ MatchInv
    OBVIOUS
  <2>1. RecordsOK /\ ModesOK
    BY InitTyped
  <2>2. pc # "test" /\ last.op # "verified"
    BY DEF Init, Did
  <2> QED
    BY <2>1, <2>2 DEF MatchInv
<1>2. RecordsOK /\ MatchInv /\ [Next]_vars => MatchInv'
  BY MatchStep
<1>3. RecordsOK /\ MatchInv => VerifiedMeansMatched
  BY DEF RecordsOK, MatchInv, Matched, VerifiedMeansMatched
<1> QED
  BY <1>1, <1>2, <1>3, RecordsStep, PTL DEF Spec
=============================================================================
