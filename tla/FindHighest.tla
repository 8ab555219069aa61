----------------------------- MODULE FindHighest -----------------------------
(***************************************************************************)
(* Configuring a build (src/cmake): find_highest_libstdcxx edits the list  *)
(* of directories it is given, runs the command get_libstdcxx_version on   *)
(* the libstdc++.so.6 of each, and keeps the highest; libstdcxx.cmake then *)
(* links what was kept.                                                    *)
(*                                                                         *)
(* A library is named by its directory, spelled as in its path.  The list  *)
(* holds directories, the empty element that asks for the default ones,    *)
(* and the two flags.                                                      *)
(***************************************************************************)
EXTENDS Integers, SequencesExt, Lists

CONSTANTS
    Directories,  \* directories, by their spelling
    PathLists,    \* values of AuditLibstdcxx_LIBSTDCXX_SO_PATHS
    Machines,     \* what the directories may hold, see Machine
    NotFound      \* a variable that holds ...-NOTFOUND

Empty == "empty"                      \* the element ""
NoDefaultPath  == "NO_DEFAULT_PATH"
NoCompilerPath == "NO_COMPILER_PATH"
Element == Directories \cup {Empty, NoDefaultPath, NoCompilerPath}

\* What get_libstdcxx_version returns for a file.
Reading == [error : {"ec_success", "ec_non_fatal_error", "ec_fatal_error"},
            version : Nat]

\* The libstdc++.so.6 of each directory that has one, the directory where the
\* default search finds it, whether the compiler is GNU, and the directory of
\* the file it prints for libstdc++.so (NotFound when it prints nothing).
IsMachine(m) ==
    /\ DOMAIN m.files \subseteq Directories
    /\ \A d \in DOMAIN m.files : m.files[d] \in Reading
    /\ m.default \in DOMAIN m.files \cup {NotFound}
    /\ m.gnu \in BOOLEAN
    /\ m.prints \in Directories \cup {NotFound}

\* A list is written as its elements with ";" between them, so that the list of
\* one empty element is the empty list.
ASSUME SearchAssumption ==
    /\ PathLists \subseteq Seq(Element) \ {<<Empty>>}
    /\ \A m \in Machines : IsMachine(m)
    /\ NotFound \notin Directories
    /\ {Empty, NoDefaultPath, NoCompilerPath}
         \cap (Directories \cup {NotFound}) = {}

VARIABLES
    machine, given,   \* the machine and the list the search is called with
    search_paths,     \* SEARCH_PATHS
    at,               \* the next element of the foreach loop
    highest_value,    \* HIGHEST_VALUE
    optimal,          \* OPTIMAL_LIBSTDCXX: the directory of what is kept
    build_rpath,      \* BUILD_RPATH_ of the link target
    stage             \* "idle", "edit", "loop", "link" or "done"

searchVars == <<machine, given, search_paths, at, highest_value, optimal,
                build_rpath, stage>>

-----------------------------------------------------------------------------
\* main: eight hexadecimal digits, or, on any error, an ASSERT and no output.
\* CMake reads the digits back as the same number.
NoOutput == -1
get_libstdcxx_version_command(file) ==
    IF file.error = "ec_success" THEN file.version ELSE NoOutput

find_compiler_libstdcxx(m) == IF m.gnu THEN m.prints ELSE NotFound

\* What a command leaves in the variable reads back as these elements.
AsList(elements) == IF elements = <<Empty>> THEN <<>> ELSE elements

\* list(FIND) and list(APPEND) of the empty element or list(REMOVE_AT) and
\* list(REMOVE_ITEM).
EditedForDefault(paths) ==
    IF Contains(paths, NoDefaultPath)
    THEN Without(RemoveFirst(paths, NoDefaultPath), Empty)
    ELSE AsList(Append(paths, Empty))

BugCompilerKept(paths, dir) ==
    IF Contains(paths, NoCompilerPath)
    THEN AsList(RemoveFirst(paths, NoCompilerPath))
    ELSE IF dir = NotFound THEN paths ELSE Append(paths, dir)

EditedForCompiler(paths, dir) ==
    IF Contains(paths, NoCompilerPath)
    THEN AsList(Without(RemoveFirst(paths, NoCompilerPath), dir))
    ELSE IF dir = NotFound THEN paths ELSE Append(paths, dir)

\* find_library: LIB_FOUND for an element of the list.
find_library(m, path) ==
    IF path = Empty THEN m.default
    ELSE IF path \in DOMAIN m.files THEN path ELSE NotFound

\* The version an element of the list stands for, or NoOutput.
Value(m, path) ==
    LET found == find_library(m, path) IN
    IF found = NotFound THEN NoOutput
    ELSE get_libstdcxx_version_command(m.files[found])

-----------------------------------------------------------------------------
SearchInit ==
    /\ machine = NotFound /\ given = <<>> /\ search_paths = <<>>
    /\ at = 1 /\ highest_value = 0 /\ optimal = NotFound
    /\ build_rpath = NotFound /\ stage = "idle"

\* libstdcxx.cmake calls find_highest_libstdcxx.
Configure ==
    /\ stage = "idle"
    /\ machine' \in Machines
    /\ given' \in PathLists
    /\ search_paths' = given'
    /\ stage' = "edit"
    /\ UNCHANGED <<at, highest_value, optimal, build_rpath>>

EditPaths ==
    /\ stage = "edit"
    /\ search_paths' = EditedForCompiler(EditedForDefault(search_paths),
                                         find_compiler_libstdcxx(machine))
    /\ stage' = "loop"
    /\ UNCHANGED <<machine, given, at, highest_value, optimal, build_rpath>>

\* if (VALUE GREATER HIGHEST_VALUE)
Greater(value) == value > highest_value

TryPath ==
    /\ stage = "loop" /\ at <= Len(search_paths)
    /\ LET path == search_paths[at]
           value == Value(machine, path)
       IN  IF Greater(value)
           THEN /\ highest_value' = value
                /\ optimal' = find_library(machine, path)
           ELSE UNCHANGED <<highest_value, optimal>>
    /\ at' = at + 1
    /\ UNCHANGED <<machine, given, search_paths, build_rpath, stage>>

EndLoop ==
    /\ stage = "loop" /\ at > Len(search_paths)
    /\ stage' = "link"
    /\ UNCHANGED <<machine, given, search_paths, at, highest_value, optimal,
                   build_rpath>>

\* The directory of the compiler becomes a build RPATH when the library kept
\* is found there.
Link ==
    /\ stage = "link"
    /\ build_rpath' = IF optimal = find_compiler_libstdcxx(machine)
                      THEN optimal ELSE NotFound
    /\ stage' = "done"
    /\ UNCHANGED <<machine, given, search_paths, at, highest_value, optimal>>

SearchNext == Configure \/ EditPaths \/ TryPath \/ EndLoop \/ Link

SearchSpec == SearchInit /\ [][SearchNext]_searchVars

-----------------------------------------------------------------------------
\* Where the comment of find_highest_libstdcxx says it looks: the directories
\* given, the default ones and the compiler's unless a flag excludes them.
Given == Range(given)

Excluded ==
    IF NoCompilerPath \in Given THEN {find_compiler_libstdcxx(machine)} ELSE {}

\* But the default directories are lost with a list that is empty, or that
\* excludes the compiler's directory and names nothing else: the empty element
\* that stands for them is then alone, and a list of it is empty.
DefaultLost ==
    \/ given = <<>>
    \/ \E i \in DOMAIN given :
          /\ given[i] = NoCompilerPath
          /\ \A j \in DOMAIN given \ {i} :
                given[j] = find_compiler_libstdcxx(machine)

Places ==
    (((Given \cap Directories) \ Excluded)
      \cup (IF NoDefaultPath \in Given \/ DefaultLost THEN {} ELSE {machine.default})
      \cup (IF NoCompilerPath \in Given
            THEN {} ELSE {find_compiler_libstdcxx(machine)}))
      \cap DOMAIN machine.files

VersionAt(d) == get_libstdcxx_version_command(machine.files[d])

\* The library linked is one of those the caller asked to be considered, none
\* of them is higher, and none is left out but the default ones where they are
\* lost, whatever the order of the list and wherever the flags stand in it: with
\* no version above 0 there is none.
KeepsHighest ==
    stage = "done" =>
        IF \E d \in Places : VersionAt(d) > 0
        THEN /\ optimal \in Places
             /\ \A d \in Places : VersionAt(d) <= VersionAt(optimal)
        ELSE optimal = NotFound
=============================================================================
