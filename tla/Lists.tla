------------------------------- MODULE Lists -------------------------------
(***************************************************************************)
(* Lists as CMake and Python edit them.                                    *)
(***************************************************************************)
EXTENDS Integers, Sequences

\* list(REMOVE_ITEM list e), and [x for x in list if x != e]: kept[n] is what
\* is kept of the first n elements.
Without(list, e) ==
    LET kept[n \in 0 .. Len(list)] ==
          IF n = 0 THEN <<>>
          ELSE IF list[n] = e THEN kept[n - 1] ELSE Append(kept[n - 1], list[n])
    IN  kept[Len(list)]
=============================================================================
