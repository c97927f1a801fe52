------------------------------ MODULE Discover ------------------------------
(***************************************************************************)
(* ScanTestEntries of src/cli/discover.go: the lines of a test file, one   *)
(* after another, and the entries of the runner generated from it.         *)
(*                                                                         *)
(* A line is what its regular expressions see: a TEST_CASE annotation, the *)
(* head of a test function, a TEST_SOURCE_FILE annotation, or anything     *)
(* else.  A TEST_CASE's arguments are its line number, which tells every   *)
(* two of them apart.                                                      *)
(***************************************************************************)
EXTENDS Naturals, Sequences, FiniteSets

CONSTANTS
    Names,      \* names of test functions
    MaxLines    \* bound: lines of a file

\* `()`, `(void)`, or parameters.
Params == {"empty", "void", "parameters"}
Line ==
    [kind : {"case", "source", "other"}]
    \cup [kind : {"function"}, name : Names, static : BOOLEAN, params : Params]

VARIABLES
    text,       \* history: the lines read
    pending,    \* the arguments of the TEST_CASE lines without a function
    entries,    \* the entries: their arguments are 0 for RUN_TEST
    caseCounter,
    extras      \* the TEST_SOURCE_FILE lines

vars == <<text, pending, entries, caseCounter, extras>>

Entry(name, label, args) == [name |-> name, label |-> label, args |-> args]

Init ==
    /\ text = << >> /\ pending = << >> /\ entries = << >>
    /\ caseCounter = 0 /\ extras = << >>

\* reTestFnP: any head of a test function whose parentheses are not empty.
Parametric(line) == line.kind = "function" /\ line.params # "empty"

\* reTestFn: `void test_x(void)` without static.
Bare(line) == line.kind = "function" /\ line.params = "void" /\ ~line.static

MutAttach(line) ==
    /\ pending # << >> /\ Parametric(line)
    /\ entries' = entries \o
         [k \in DOMAIN pending |-> Entry(line.name, caseCounter + k, pending[k])]
    /\ caseCounter' = caseCounter + Len(pending)
    /\ UNCHANGED <<pending, extras>>

\* Every pending TEST_CASE becomes an entry of this function; the label is the
\* name with the next number.
Attach(line) ==
    /\ pending # << >> /\ Parametric(line)
    /\ entries' = entries \o
         [k \in DOMAIN pending |-> Entry(line.name, caseCounter + k, pending[k])]
    /\ caseCounter' = caseCounter + Len(pending)
    /\ pending' = << >>
    /\ UNCHANGED extras

AddBare(line) ==
    /\ ~(pending # << >> /\ Parametric(line)) /\ Bare(line)
    /\ entries' = Append(entries, Entry(line.name, 0, 0))
    /\ pending' = << >>
    /\ UNCHANGED <<caseCounter, extras>>

AddCase(line) ==
    /\ line.kind = "case"
    /\ pending' = Append(pending, Len(text) + 1)
    /\ UNCHANGED <<entries, caseCounter, extras>>

AddSource(line) ==
    /\ line.kind = "source"
    /\ extras' = Append(extras, Len(text) + 1)
    /\ UNCHANGED <<pending, entries, caseCounter>>

\* A function that is neither bare nor has a TEST_CASE is no test.
Skip(line) ==
    /\ \/ line.kind = "other"
       \/ line.kind = "function" /\ ~Bare(line) /\ ~(pending # << >> /\ Parametric(line))
    /\ UNCHANGED <<pending, entries, caseCounter, extras>>

Next ==
    /\ Len(text) < MaxLines
    /\ \E line \in Line :
         /\ text' = Append(text, line)
         /\ AddCase(line) \/ Attach(line) \/ AddBare(line) \/ AddSource(line) \/ Skip(line)

Spec == Init /\ [][Next]_vars
-----------------------------------------------------------------------------
Cases == {k \in DOMAIN text : text[k].kind = "case"}

\* The function lines a TEST_CASE may be attached to.
After(k) == {j \in DOMAIN text : j > k /\ Parametric(text[j])}

\* The first of them.
Target(k) == CHOOSE j \in After(k) : \A other \in After(k) : j <= other

\* Every TEST_CASE line with such a function behind it is run once, with that
\* function, under a label no other entry has, and in the order of the file; a
\* bare function without one is run once; nothing else is run.
EntriesAreTheTests ==
    LET args == {k \in DOMAIN entries : entries[k].args # 0}
        bare == {k \in DOMAIN entries : entries[k].args = 0}
    IN  /\ {entries[k].args : k \in args} = {c \in Cases : After(c) # {}}
        /\ \A k \in args : entries[k].name = text[Target(entries[k].args)].name
        /\ \A k, l \in args : k < l =>
             entries[k].args < entries[l].args /\ entries[k].label # entries[l].label
        /\ Cardinality(bare) =
             Cardinality({j \in DOMAIN text :
               Bare(text[j]) /\ \A c \in Cases : After(c) # {} => Target(c) # j})

\* Each TEST_CASE is attached to the next test function with parameters.
CasesAttachToParametric ==
    \A k \in DOMAIN entries : entries[k].args # 0 =>
      text[Target(entries[k].args)].params = "parameters"
=============================================================================
