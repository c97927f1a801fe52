-------------------------------- MODULE Mock --------------------------------
(***************************************************************************)
(* One mock of src/src/mock.c used by a sequence of tests: expectations    *)
(* are queued, calls of the mocked function are answered from them in      *)
(* order, or by a stub, or ignored, and mock_verify checks that none is    *)
(* left.  A mismatch fails the test through ceedless_fail_msg_, which      *)
(* leaves it by longjmp; the mock keeps its state until it is reset.       *)
(*                                                                         *)
(* Arguments, return values, exception codes and the bytes of a            *)
(* return-through-pointer are opaque.  The byte comparison, "any           *)
(* arguments" and a user matcher are each the set of arguments accepted.   *)
(***************************************************************************)
EXTENDS Naturals, Sequences

CONSTANTS
    Capacity,    \* CEEDLESS_MOCK_MAX_CALLS, 16 by default
    Args, Rets, Codes, Data,
    Zero,        \* the return value of zero bytes
    Nothing,     \* no return value, no exception, no data
    ResetsFirst, \* does every test start with MOCK_RESET?
    MaxRuns,     \* bound: tests
    MaxInvokes   \* bound: calls of the mocked function between two resets

ASSUME MockAssumption ==
    /\ Capacity \in Nat /\ Capacity > 0
    /\ ResetsFirst \in BOOLEAN
    /\ MaxRuns \in Nat /\ MaxInvokes \in Nat

VARIABLES
    pc,          \* "between" tests or inside a "test"
    runs,        \* tests started
    records,     \* records[0 .. count - 1]
    head,        \* how many of them have been used
    ignore,      \* are calls ignored?
    ignore_ret,  \* what an ignored call returns, Nothing for zeros
    stub,        \* is stub_cb set?
    calls,
    answered,    \* history: the arguments each used record accepted
    last         \* the last operation and what it gave

control == <<pc, runs>>
modes == <<ignore, ignore_ret, stub>>
vars == <<control, records, head, modes, calls, answered, last>>

Record == [accepts : SUBSET Args, ret : Rets \cup {Nothing},
           throw : Codes \cup {Nothing}, thru : Data \cup {Nothing}]

Outcome == [op : {"none", "expect", "refused", "thru", "call", "failed",
                  "stub", "verified"},
            ret : Rets \cup {Zero, Nothing}, throw : Codes \cup {Nothing},
            thru : Data \cup {Nothing}]

Did(op) == [op |-> op, ret |-> Nothing, throw |-> Nothing, thru |-> Nothing]
Gave(ret, throw, thru) == [op |-> "call", ret |-> ret, throw |-> throw, thru |-> thru]

ResetState ==
    /\ records' = << >> /\ head' = 0
    /\ ignore' = FALSE /\ ignore_ret' = Nothing /\ stub' = FALSE
    /\ calls' = 0 /\ answered' = << >>

Init ==
    /\ pc = "between" /\ runs = 0
    /\ records = << >> /\ head = 0
    /\ ignore = FALSE /\ ignore_ret = Nothing /\ stub = FALSE
    /\ calls = 0 /\ answered = << >> /\ last = Did("none")

StartTest ==
    /\ pc = "between" /\ runs < MaxRuns
    /\ pc' = "test" /\ runs' = runs + 1
    /\ IF ResetsFirst THEN ResetState
       ELSE UNCHANGED <<records, head, modes, calls, answered>>
    /\ last' = Did("none")

Reset ==
    /\ pc = "test"
    /\ ResetState /\ last' = Did("none")
    /\ UNCHANGED control

\* ceedless_fail_msg_: the test is over, the mock stays as it is.
FailTest(op) == pc' = "between" /\ UNCHANGED runs /\ last' = Did(op)
-----------------------------------------------------------------------------
MutQueueUnbounded(r) ==
    /\ pc = "test"
    /\ records' = Append(records, r) /\ last' = Did("expect") /\ UNCHANGED control
    /\ UNCHANGED <<head, modes, calls, answered>>

\* next_slot and the filling of the slot.  Used records keep their slots.
Queue(r) ==
    /\ pc = "test"
    /\ IF Len(records) >= Capacity
       THEN FailTest("refused") /\ UNCHANGED records
       ELSE records' = Append(records, r) /\ last' = Did("expect") /\ UNCHANGED control
    /\ UNCHANGED <<head, modes, calls, answered>>

Expecting(accepts, ret, throw) ==
    [accepts |-> accepts, ret |-> ret, throw |-> throw, thru |-> Nothing]

\* mock_expect (ret = Nothing) and mock_expect_and_return.
Expect(a, ret) == Queue(Expecting({a}, ret, Nothing))

\* mock_expect_any_args and mock_expect_any_args_and_return.
ExpectAnyArgs(ret) == Queue(Expecting(Args, ret, Nothing))

\* mock_expect_and_throw, with arguments or with none given.
ExpectAndThrow(accepts, code) == Queue(Expecting(accepts, Nothing, code))

\* mock_expect_with_matcher: the callback accepts any set of arguments.
ExpectWithMatcher(accepts, ret) == Queue(Expecting(accepts, ret, Nothing))

\* mock_return_thru_ptr writes into the newest record, used or not, and queues
\* an any-arguments record when there has been none.
ReturnThruPtr(d) ==
    /\ pc = "test"
    /\ records' = IF records = << >>
                  THEN <<[Expecting(Args, Nothing, Nothing) EXCEPT !.thru = d]>>
                  ELSE [records EXCEPT ![Len(records)].thru = d]
    /\ last' = Did("thru")
    /\ UNCHANGED <<control, head, modes, calls, answered>>
-----------------------------------------------------------------------------
\* mock_ignore (ret = Nothing) and mock_ignore_and_return.
Ignore(ret) ==
    /\ pc = "test"
    /\ ignore' = TRUE /\ ignore_ret' = ret /\ last' = Did("none")
    /\ UNCHANGED <<control, records, head, stub, calls, answered>>

StopIgnore ==
    /\ pc = "test"
    /\ ignore' = FALSE /\ ignore_ret' = Nothing /\ last' = Did("none")
    /\ UNCHANGED <<control, records, head, stub, calls, answered>>

\* mock_stub_with_callback, with a callback or with NULL.
StubWithCallback(on) ==
    /\ pc = "test"
    /\ stub' = on /\ last' = Did("none")
    /\ UNCHANGED <<control, records, head, ignore, ignore_ret, calls, answered>>
-----------------------------------------------------------------------------
(* mock_invoke.                                                            *)
Returned(ret) == IF ret = Nothing THEN Zero ELSE ret

InvokeStub ==
    /\ stub
    /\ last' = Did("stub")
    /\ UNCHANGED <<control, head, answered>>

InvokeIgnored ==
    /\ ~stub /\ ignore
    /\ last' = Gave(Returned(ignore_ret), Nothing, Nothing)
    /\ UNCHANGED <<control, head, answered>>

InvokeUnexpected ==
    /\ ~stub /\ ~ignore /\ head >= Len(records)
    /\ FailTest("failed")
    /\ UNCHANGED <<head, answered>>

MutInvokeRecord(a) ==
    /\ ~stub /\ ~ignore /\ head < Len(records)
    /\ head' = head + 1
    /\ last' = Gave(Returned(records[head + 1].ret), records[head + 1].throw,
                    records[head + 1].thru)
    /\ answered' = Append(answered, a)
    /\ UNCHANGED control

\* The record is used up before its arguments are compared; it then writes
\* through the pointer, returns, and throws.
InvokeRecord(a) ==
    /\ ~stub /\ ~ignore /\ head < Len(records)
    /\ head' = head + 1
    /\ LET r == records[head + 1]
       IN  IF a \in r.accepts
           THEN /\ last' = Gave(Returned(r.ret), r.throw, r.thru)
                /\ answered' = Append(answered, a)
                /\ UNCHANGED control
           ELSE FailTest("failed") /\ UNCHANGED answered

Invoke(a) ==
    /\ pc = "test" /\ calls < MaxInvokes
    /\ calls' = calls + 1
    /\ InvokeStub \/ InvokeIgnored \/ InvokeUnexpected \/ InvokeRecord(a)
    /\ UNCHANGED <<records, modes>>

Verify ==
    /\ pc = "test"
    /\ IF ignore \/ head = Len(records)
       THEN last' = Did("verified") /\ UNCHANGED control
       ELSE FailTest("failed")
    /\ UNCHANGED <<records, head, modes, calls, answered>>

\* The test returns.
EndTest ==
    /\ pc = "test"
    /\ pc' = "between"
    /\ UNCHANGED <<runs, records, head, modes, calls, answered, last>>

Finished == pc = "between" /\ runs = MaxRuns /\ UNCHANGED vars

Expectations ==
    \/ \E a \in Args, ret \in Rets \cup {Nothing} : Expect(a, ret)
    \/ \E ret \in Rets \cup {Nothing} : ExpectAnyArgs(ret)
    \/ \E accepts \in {Args} \cup {{a} : a \in Args}, code \in Codes :
         ExpectAndThrow(accepts, code)
    \/ \E accepts \in SUBSET Args, ret \in Rets \cup {Nothing} :
         ExpectWithMatcher(accepts, ret)
    \/ \E d \in Data : ReturnThruPtr(d)

Modes ==
    \/ \E ret \in Rets \cup {Nothing} : Ignore(ret)
    \/ StopIgnore
    \/ \E on \in BOOLEAN : StubWithCallback(on)

Next ==
    \/ StartTest \/ Reset \/ Expectations \/ Modes
    \/ \E a \in Args : Invoke(a)
    \/ Verify \/ EndTest \/ Finished

Spec == Init /\ [][Next]_vars
-----------------------------------------------------------------------------
\* The type invariant: used records are among the queued ones, and these fit
\* the array.
TypeOK ==
    /\ pc \in {"between", "test"} /\ runs \in 0 .. MaxRuns
    /\ records \in Seq(Record) /\ Len(records) <= Capacity
    /\ head \in 0 .. Len(records)
    /\ ignore \in BOOLEAN /\ ignore_ret \in Rets \cup {Nothing}
    /\ stub \in BOOLEAN
    /\ calls \in 0 .. MaxInvokes
    /\ answered \in Seq(Args)
    /\ last \in Outcome

\* When mock_verify lets a test go on and calls are not ignored, every
\* expectation since the reset was met, in the order they were queued, by a
\* call it accepts: whatever was ignored, stubbed or written through a pointer
\* in between.
VerifiedMeansMatched ==
    last.op = "verified" /\ ~ignore =>
        /\ Len(answered) = Len(records)
        /\ \A k \in DOMAIN answered : answered[k] \in records[k].accepts
=============================================================================
