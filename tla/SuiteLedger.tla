---------------------------- MODULE SuiteLedger ----------------------------
(***************************************************************************)
(* What a ceedless test program promises its caller, without hooks, queues,*)
(* shuffling or longjmp: every test that was registered with a suite gets  *)
(* exactly one verdict before the suite is reported, unless the suite has  *)
(* already recorded Cap of them, and a program that recorded a failure in  *)
(* its last suite does not exit with status 0.  Once a queued test has     *)
(* registered another ("reentered"), what is left of the promise is that   *)
(* no test gets two verdicts, that there are at most Cap of them, and that *)
(* the status follows from them.  Runner implements this specification.    *)
(***************************************************************************)
EXTENDS Naturals

CONSTANTS Ids,      \* registrations (one per RUN_TEST / RUN_TEST_CASE executed)
          Verdicts, \* what a test can be recorded as
          Failure,  \* the verdict that must reach the exit status
          Cap       \* how many verdicts one suite can hold

VARIABLES phase,      \* "closed" outside begin..end, "open" inside, "exited"
          registered, \* the registrations of the current (or last) suite
          verdict,    \* registration -> its verdict, once it has one
          given,      \* how many verdicts were given
          succeeded,  \* what the exit status told the caller
          reentered   \* has a queued test ever registered another?

vars == <<phase, registered, verdict, given, succeeded, reentered>>

Recorded == DOMAIN verdict

Init ==
    /\ phase = "closed"
    /\ registered = {}
    /\ verdict = << >>
    /\ given = 0
    /\ succeeded = FALSE
    /\ reentered = FALSE

Open ==
    /\ phase = "closed"
    /\ phase' = "open"
    /\ registered' = {}
    /\ verdict' = << >>
    /\ given' = 0
    /\ UNCHANGED <<succeeded, reentered>>

Register(id) ==
    /\ phase = "open"
    /\ id \notin registered
    /\ registered' = registered \cup {id}
    /\ reentered' \in {reentered, TRUE}
    /\ UNCHANGED <<phase, verdict, given, succeeded>>

Conclude(id, v) ==
    /\ phase = "open"
    /\ id \in registered \/ reentered
    /\ id \notin Recorded
    /\ given < Cap
    /\ verdict' = [x \in Recorded \cup {id} |-> IF x = id THEN v ELSE verdict[x]]
    /\ given' = given + 1
    /\ UNCHANGED <<phase, registered, succeeded, reentered>>

Close ==
    /\ phase = "open"
    /\ registered \subseteq Recorded \/ given = Cap \/ reentered
    /\ phase' = "closed"
    /\ UNCHANGED <<registered, verdict, given, succeeded, reentered>>

Exit ==
    /\ phase = "closed"
    /\ phase' = "exited"
    /\ succeeded' \in {b \in BOOLEAN : b => \A id \in Recorded : verdict[id] # Failure}
    /\ UNCHANGED <<registered, verdict, given, reentered>>

Next ==
    \/ Open
    \/ \E id \in Ids : Register(id)
    \/ \E id \in Ids, v \in Verdicts : Conclude(id, v)
    \/ Close
    \/ Exit

Spec == Init /\ [][Next]_vars
=============================================================================
