----------------------------- MODULE MCPyAudit -----------------------------
(***************************************************************************)
(* Instances of PyAudit: the files at each path and what threads load.     *)
(***************************************************************************)
EXTENDS PyAudit

CONSTANTS d1, d2

Elf(v) == [there |-> TRUE, kind |-> "elf", version |-> v, loads |-> TRUE]
Absent == [there |-> FALSE, kind |-> "notelf", version |-> 0, loads |-> FALSE]

\* What may be found in the two places.
EveryShipped ==
    {Absent, Elf(1), Elf(2)} \cup
    {[there |-> TRUE, kind |-> "noverdef", version |-> 0, loads |-> TRUE],
     [there |-> TRUE, kind |-> "notelf", version |-> 0, loads |-> FALSE],
     [there |-> TRUE, kind |-> "elf", version |-> 2, loads |-> FALSE]}
EverySystem == EveryShipped
SoundFiles == {Elf(1), Elf(2)}
HigherShipped == {Elf(2)}
LowerSystem == {Elf(1)}

Import(there, dep, ldd) ==
    [event |-> "import", there |-> there, dep |-> dep, ldd |-> ldd]
Cdll == [event |-> "ctypes.dlopen", there |-> TRUE, dep |-> TRUE, ldd |-> TRUE]

EveryLib ==
    {Import(TRUE, TRUE, TRUE), Import(TRUE, FALSE, TRUE), Import(TRUE, TRUE, FALSE),
     Import(FALSE, TRUE, TRUE), Cdll}
Extensions == {Import(TRUE, TRUE, TRUE), Import(TRUE, FALSE, TRUE)}
OnlyCdll == {Cdll}
=============================================================================
