------------------------------ MODULE LogStore ------------------------------
(***************************************************************************)
(* What a reader of the plugin's log files may rely on: the lines are in   *)
(* the order they were written, only the oldest go away, the newest        *)
(* MaxBytes stay but for the size of one line, and no more than twice a    *)
(* file's Cap is ever on the disk.  CappedLog implements this.             *)
(***************************************************************************)
EXTENDS Integers, Sequences

CONSTANTS Lines,    \* records with a size
          LongestLine, MaxBytes

\* A line that is longer than MaxBytes has a file of its own.
Cap == IF LongestLine > MaxBytes THEN LongestLine ELSE MaxBytes

VARIABLE kept       \* the lines on the disk, the oldest first

Size(ls) == LET upto[n \in 0 .. Len(ls)] == IF n = 0 THEN 0 ELSE upto[n - 1] + ls[n].size
            IN  upto[Len(ls)]

Init == kept = <<>>

Accept == \E l \in Lines : /\ kept' = Append(kept, l)
                           /\ Size(kept') <= 2 * Cap

Forget == \E k \in 1 .. Len(kept) :
             /\ kept' = SubSeq(kept, k + 1, Len(kept))
             /\ Size(kept') + LongestLine > MaxBytes

Next == Accept \/ Forget
Spec == Init /\ [][Next]_kept
=============================================================================
