------------------------------- MODULE Config -------------------------------
(***************************************************************************)
(* LoadConfig of src/cli/config.go: the lines of project.yml, one after    *)
(* another, and the settings the other commands use.                       *)
(*                                                                         *)
(* A line is what is left of it without its comment: its key and its value *)
(* at the margin or indented.  A value is no value, an empty list, or a    *)
(* list, which is the number of its line.                                  *)
(***************************************************************************)
EXTENDS Naturals, Sequences

CONSTANTS
    MaxSettings \* bound: lines of project.yml

\* The keys the code knows, and one it does not.
TopKeys == {"paths", "files", "project", "defines", "cflags", "ldflags", "other"}
Keys == {"src", "include", "test", "extra", "name", "other"}
Fields == {"ProjectName", "SrcDirs", "IncludeDirs", "TestDirs", "Defines",
           "CFlags", "LDFlags", "ExtraFiles"}

Unset == << >>          \* a field without a setting
DefaultList == <<0>>    \* what applyDefaults gives one

Setting ==
    [indented : {FALSE}, key : TopKeys, value : {"none", "empty", "list"}]
    \cup [indented : {TRUE}, key : Keys, value : {"none", "empty", "list"}]

VARIABLES
    lines,      \* history: the lines read
    group,      \* the last key at the margin that had no value, "" if it had one
    config,
    loaded      \* has the end of the file been reached?

vars == <<lines, group, config, loaded>>

Init ==
    /\ lines = << >> /\ group = "" /\ config = [f \in Fields |-> Unset]
    /\ loaded = FALSE

\* parseValue of the line that is read now.
Parsed(line) == IF line.value = "empty" THEN << >> ELSE <<Len(lines) + 1>>

\* The fields assign and assignNested set.
TopField == [defines |-> "Defines", cflags |-> "CFlags", ldflags |-> "LDFlags"]
NestedField ==
    [paths |-> [src |-> "SrcDirs", include |-> "IncludeDirs", test |-> "TestDirs"],
     files |-> [extra |-> "ExtraFiles"],
     project |-> [name |-> "ProjectName"]]

\* A key at the margin without a value opens a group.
ReadGroup(line) ==
    /\ ~line.indented /\ line.value = "none"
    /\ group' = line.key /\ UNCHANGED config

MutReadTop(line) ==
    /\ ~line.indented /\ line.value # "none"
    /\ IF line.key \in DOMAIN TopField
       THEN config' = [config EXCEPT ![TopField[line.key]] = Parsed(line)]
       ELSE UNCHANGED config
    /\ UNCHANGED group

\* One with a value closes the group, whether the key is known or not.
ReadTop(line) ==
    /\ ~line.indented /\ line.value # "none"
    /\ group' = ""
    /\ IF line.key \in DOMAIN TopField
       THEN config' = [config EXCEPT ![TopField[line.key]] = Parsed(line)]
       ELSE UNCHANGED config

Known(g, k) == g \in DOMAIN NestedField /\ k \in DOMAIN NestedField[g]

\* An indented key with a value; a project name is not emptied.
ReadNested(line) ==
    /\ line.indented /\ line.value # "none"
    /\ IF Known(group, line.key)
          /\ (NestedField[group][line.key] = "ProjectName" => Parsed(line) # << >>)
       THEN config' = [config EXCEPT ![NestedField[group][line.key]] = Parsed(line)]
       ELSE UNCHANGED config
    /\ UNCHANGED group

\* An indented line without a value, such as an item of a block list.
Ignored(line) == line.indented /\ line.value = "none" /\ UNCHANGED <<group, config>>

Read(line) ==
    /\ ~loaded /\ Len(lines) < MaxSettings
    /\ lines' = Append(lines, line)
    /\ ReadGroup(line) \/ ReadTop(line) \/ ReadNested(line) \/ Ignored(line)
    /\ UNCHANGED loaded

HasDefault == {"SrcDirs", "IncludeDirs", "TestDirs", "CFlags"}

\* applyDefaults, at the end of the file or because there is none.
ApplyDefaults ==
    /\ ~loaded /\ loaded' = TRUE
    /\ config' = [f \in Fields |->
                    IF f \in HasDefault /\ config[f] = << >> THEN DefaultList ELSE config[f]]
    /\ UNCHANGED <<lines, group>>

Next == (\E line \in Setting : Read(line)) \/ ApplyDefaults

Spec == Init /\ [][Next]_vars
-----------------------------------------------------------------------------
\* The line that opens the section line k is in.
Above(k) == {j \in 1 .. k - 1 : ~lines[j].indented}
Heading(k) == CHOOSE j \in Above(k) : \A i \in Above(k) : i <= j

\* Does line k give field f a value?
Gives(k, f) ==
    /\ lines[k].value # "none"
    /\ IF lines[k].indented
       THEN /\ Above(k) # {} /\ lines[Heading(k)].value = "none"
            /\ Known(lines[Heading(k)].key, lines[k].key)
            /\ NestedField[lines[Heading(k)].key][lines[k].key] = f
       ELSE lines[k].key \in DOMAIN TopField /\ TopField[lines[k].key] = f

\* A loaded setting is the list of the last line that gives its field a value in
\* the section the field belongs to; an empty list there is the default, where
\* there is one, not the list of an earlier line.  Lines of other sections, keys
\* that are not known and lines without a value change nothing.
SettingsAreLastGiven ==
    loaded => \A f \in Fields :
      LET given == {k \in DOMAIN lines :
                      Gives(k, f) /\ (f = "ProjectName" => lines[k].value = "list")}
          last == CHOOSE k \in given : \A j \in given : j <= k
      IN  config[f] =
            IF given # {} /\ lines[last].value = "list" THEN <<last>>
            ELSE IF f \in HasDefault THEN DefaultList ELSE Unset
=============================================================================
