------------------------------- MODULE Golden -------------------------------
(***************************************************************************)
(* TEST_ASSERT_GOLDEN_BYTES: ceedless_check_golden_ of src/src/runner.c.   *)
(* The first check of a label, or one made with CEEDLESS_GOLDEN_UPDATE,    *)
(* captures its output in a file; the others compare with the file.  The   *)
(* files outlive the programs, which may stop in the middle of a capture;  *)
(* the user may delete them.                                               *)
(***************************************************************************)
EXTENDS GoldenFiles

VARIABLES
    disk,       \* what every file holds, None where there is none
    verdict,    \* how the last check ended
    meant,      \* history: what the last capture was to write into a file
    writer,     \* history: whose capture that was
    whole       \* history: was it written whole?

golden == <<disk, verdict, meant, writer, whole>>

Prefix(s, k) == SubSeq(s, 1, k)

GoldenInit ==
    /\ disk = [f \in Files |-> None] /\ verdict = "none"
    /\ meant = [f \in Files |-> None] /\ writer = [f \in Files |-> None]
    /\ whole = [f \in Files |-> FALSE]

Captures(l, update) == disk[File(l)] = None \/ update

MutWrites(l, out, k) == disk' = [disk EXCEPT ![File(l)] =
    IF @ # None /\ Len(@) > k THEN Prefix(out, k) \o SubSeq(@, k + 1, Len(@)) ELSE Prefix(out, k)]

\* The file is truncated and the first k bytes of out reach it.
Writes(l, out, k) == disk' = [disk EXCEPT ![File(l)] = Prefix(out, k)]

\* fwrite is not checked: a short file is a capture as well.
Capture(l, out, update, k) ==
    /\ Captures(l, update) /\ k \in 0 .. Len(out)
    /\ Writes(l, out, k)
    /\ meant' = [meant EXCEPT ![File(l)] = out]
    /\ writer' = [writer EXCEPT ![File(l)] = l]
    /\ whole' = [whole EXCEPT ![File(l)] = (k = Len(out))]
    /\ verdict' \in {"captured", "crashed"}

\* Neither the directory nor the file can be made.
CannotCapture(l, update) ==
    /\ Captures(l, update)
    /\ verdict' = "failed" /\ UNCHANGED <<disk, meant, writer, whole>>

Compare(l, out, update) ==
    /\ ~Captures(l, update)
    /\ verdict' = IF Same(disk[File(l)], out) THEN "same" ELSE "failed"
    /\ UNCHANGED <<disk, meant, writer, whole>>

Delete(f) ==
    /\ disk' = [disk EXCEPT ![f] = None] /\ verdict' = "none"
    /\ UNCHANGED <<meant, writer, whole>>

GoldenNext ==
    \/ \E l \in Labels, out \in Outputs, update \in BOOLEAN :
         \/ \E k \in 0 .. Len(out) : Capture(l, out, update, k)
         \/ CannotCapture(l, update)
         \/ Compare(l, out, update)
    \/ \E f \in Files : Delete(f)

GoldenSpec == GoldenInit /\ [][GoldenNext]_golden
-----------------------------------------------------------------------------
\* The types; a file is a beginning of what was last captured into it,
\* and all of it where the capture was written whole.
FilesAreCaptures ==
    /\ verdict \in {"none", "captured", "crashed", "same", "failed"}
    /\ whole \in [Files -> BOOLEAN]
    /\ \A f \in Files : disk[f] # None =>
         /\ \E k \in 0 .. Len(meant[f]) : disk[f] = Prefix(meant[f], k)
         /\ whole[f] => disk[f] = meant[f]

\* A comparison accepts an output only if it is a beginning of what the last
\* capture of the label's file meant to write.  Where that capture was the
\* label's own and was written whole, it accepts exactly the captured output,
\* whatever was captured, updated, cut short or deleted before.
ComparesWithCapture ==
    [][UNCHANGED disk => \A l \in Labels, out \in Outputs :
         Compare(l, out, FALSE) =>
           LET f == File(l)
           IN  /\ verdict' = "same" =>
                    Len(out) <= Len(meant[f]) /\ out = Prefix(meant[f], Len(out))
               /\ whole[f] /\ writer[f] = l =>
                    (verdict' = "same" <=> out = meant[f])]_golden
=============================================================================
