---------------------------- MODULE ShippedSearch ----------------------------
(***************************************************************************)
(* The start of la_version: copy the executable's path, read DT_RUNPATH    *)
(* and DT_RPATH from its program headers, and search them one after the    *)
(* other with find_libstdcxx_from_dt_path, the walk of DtPathSearch.       *)
(*                                                                         *)
(* The text of an entry is chosen when its search begins, which is when    *)
(* the program first looks at it.                                          *)
(***************************************************************************)
EXTENDS DtPathSearch, SequencesExt

CONSTANTS
    Executables   \* see Executable

SegmentType == {"PT_PHDR", "PT_LOAD", "PT_DYNAMIC"}
DynamicTag  == {"DT_NEEDED", "DT_STRTAB", "DT_RUNPATH", "DT_RPATH"}

\* The types of the program headers and the tags, before DT_NULL, of the first
\* dynamic section.  The base address is taken from PT_PHDR as ld.so takes it,
\* so that the section is found where it lies.
IsExecutable(e) ==
    /\ e.phdr \in Seq(SegmentType) \ {<<>>}
    /\ e.dynamic \in Seq(DynamicTag)

ASSUME ExecutablesAssumption == \A e \in Executables : IsExecutable(e)

VARIABLES
    stage,     \* "origin", "headers", "runpath", "rpath", "shipped" (found),
               \* "none" (la_version returned without), "dead" (an ASSERT)
    entries,   \* the entries the reader delivers
    searching, \* the entry under find_libstdcxx_from_dt_path, or "nothing"
    searched,  \* history: the entries searched
    missed,    \* history: a path in an entry searched in vain opens
    oom        \* history: an mmap failed

shippedVars == <<vars, stage, entries, searching, searched, missed, oom>>

-----------------------------------------------------------------------------
\* An entry counts wherever it stands relative to DT_STRTAB.
EntriesOf(e) == ToSet(e.dynamic) \cap {"DT_RUNPATH", "DT_RPATH"}

get_parent_executable_runpath_rpath(e) ==
    IF ~Contains(e.phdr, "PT_DYNAMIC") THEN "ec_fatal_error"
    ELSE IF ~Contains(e.dynamic, "DT_STRTAB") THEN "abort"
    ELSE IF EntriesOf(e) = {} THEN "ec_fatal_error"
    ELSE "ec_success"

\* Outside a search its local variables stand as after one of an empty text.
ShippedInit ==
    /\ dt_path = <<>> /\ k = 1 /\ len_path_buffer = 0 /\ live = 0
    /\ used = 0 /\ whole = TRUE /\ pc = "failed"
    /\ len_ORIGIN \in OriginLens
    /\ stage = "origin" /\ entries = {} /\ searching = "nothing"
    /\ searched = {} /\ missed = FALSE /\ oom = FALSE

\* The mmap of the copy that dirname cuts succeeds or fails.
CopyOrigin ==
    /\ stage = "origin"
    /\ \/ stage' = "headers" /\ oom' = oom
       \/ stage' = "none" /\ oom' = TRUE
    /\ UNCHANGED <<vars, entries, searching, searched, missed>>

ReadHeaders ==
    /\ stage = "headers"
    /\ \E e \in Executables :
         LET result == get_parent_executable_runpath_rpath(e) IN
         /\ stage' = CASE result = "ec_success" -> "runpath"
                       [] result = "ec_fatal_error" -> "none"
                       [] result = "abort" -> "dead"
         /\ entries' = IF result = "ec_success" THEN EntriesOf(e) ELSE {}
    /\ UNCHANGED <<vars, searching, searched, missed, oom>>

\* The local variables of a search, as they begin.
FreshLocals ==
    /\ k' = 1 /\ len_path_buffer' = 0 /\ used' = 0 /\ whole' = TRUE
    /\ UNCHANGED <<live, len_ORIGIN>>

\* The call of find_libstdcxx_from_dt_path on an entry with a text of lists.
FindIn(entry, lists) ==
    /\ searching = "nothing"
    /\ dt_path' \in lists
    /\ FreshLocals /\ pc' = "scan"
    /\ searching' = entry
    /\ UNCHANGED <<stage, entries, searched, missed, oom>>

Texts == UNION {[1 .. n -> Sections] : n \in 1 .. MaxSections}

FindInRunpath ==
    /\ stage = "runpath" /\ "DT_RUNPATH" \in entries
    /\ FindIn("DT_RUNPATH", Texts)

\* DT_RUNPATH is absent, or its text empty.
SkipRunpath ==
    /\ stage = "runpath" /\ searching = "nothing"
    /\ stage' = "rpath"
    /\ UNCHANGED <<vars, entries, searching, searched, missed, oom>>

FindInRpath ==
    /\ stage = "rpath"
    /\ FindIn("DT_RPATH", IF "DT_RPATH" \in entries THEN Texts \cup {<<>>} ELSE {<<>>})

Walk ==
    /\ searching # "nothing"
    /\ Next
    /\ UNCHANGED <<stage, entries, searching, searched, missed, oom>>

Returned == searching # "nothing" /\ pc \in {"found", "failed", "nomem"}

ReturnFound ==
    /\ Returned /\ pc = "found"
    /\ stage' = "shipped"
    /\ searched' = searched \cup {searching}
    /\ UNCHANGED <<vars, entries, searching, missed, oom>>

BugNoSecondSearch == "none"

\* if (ec_success != found), once after each of the two.
AfterFailure == IF stage = "runpath" THEN "rpath" ELSE "none"

ReturnFailed ==
    /\ Returned /\ pc # "found"
    /\ stage' = AfterFailure
    /\ searching' = "nothing"
    /\ searched' = searched \cup {searching}
    /\ missed' = (missed \/ \E j \in 1 .. Len(dt_path) :
                               ~Empty(dt_path[j]) /\ dt_path[j].opens)
    /\ oom' = (oom \/ pc = "nomem")
    /\ FreshLocals /\ dt_path' = <<>> /\ pc' = "failed"
    /\ UNCHANGED entries

ShippedNext ==
    \/ CopyOrigin \/ ReadHeaders \/ FindInRunpath \/ SkipRunpath \/ FindInRpath
    \/ Walk \/ ReturnFound \/ ReturnFailed

ShippedSpec == ShippedInit /\ [][ShippedNext]_shippedVars

-----------------------------------------------------------------------------
\* The shipped library is the first that opens, of DT_RUNPATH and then of
\* DT_RPATH: a later one is taken, or none, only when no earlier one opens or
\* an mmap failed; and la_version gives up on an executable with an entry only
\* after DT_RPATH was searched too.
ShippedIsFirst ==
    /\ stage = "shipped" =>
         /\ missed => oom
         /\ \A j \in 1 .. k - 1 : Empty(dt_path[j]) \/ ~dt_path[j].opens
    /\ stage = "none" /\ ~oom => ~missed /\ (entries # {} => "DT_RPATH" \in searched)
=============================================================================
