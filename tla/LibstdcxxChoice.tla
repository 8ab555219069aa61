--------------------------- MODULE LibstdcxxChoice ---------------------------
(***************************************************************************)
(* What the project promises of a program that starts: of the libstdc++ it *)
(* ships and the first one the system offers it gets the higher, and what  *)
(* it got does not change afterwards.  A system file whose version cannot  *)
(* be read counts as version 0.                                            *)
(***************************************************************************)
EXTENDS Integers

CONSTANTS
    None,        \* no version
    MayMisread   \* can reading the version of a good file fail?

VARIABLES
    shipped,   \* the version that is shipped, None until it is known
    offered,   \* that of the first file the system has, None without one
    chosen     \* the version the program runs with, None until it is mapped

choiceVars == <<shipped, offered, chosen>>

Higher(a, b) == IF a >= b THEN a ELSE b

ChoiceInit == shipped = None /\ chosen = None

Ship ==
    /\ shipped = None /\ chosen = None
    /\ shipped' # None
    /\ UNCHANGED <<offered, chosen>>

Choose ==
    /\ shipped # None /\ chosen = None /\ offered # None
    /\ \/ chosen' = Higher(shipped, offered)
       \/ MayMisread /\ chosen' = shipped
    /\ UNCHANGED <<shipped, offered>>

\* A program that ships none gets whatever the system has.
ChooseUnaided ==
    /\ shipped = None /\ chosen = None
    /\ chosen' # None
    /\ UNCHANGED <<shipped, offered>>

ChoiceNext == Ship \/ Choose \/ ChooseUnaided

ChoiceSpec == ChoiceInit /\ [][ChoiceNext]_choiceVars
=============================================================================
