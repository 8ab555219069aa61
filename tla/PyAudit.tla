------------------------------ MODULE PyAudit ------------------------------
(***************************************************************************)
(* The Python counterpart of the audit library, audit_libstdcxx.py, in one *)
(* interpreter: the chain of sitecustomize.py at startup, then threads     *)
(* that import extension modules or load libraries with CDLL while the     *)
(* audit hook watches.  Every call that waits for a child process or for   *)
(* the loader lets the other threads run, so the hook is cut there.        *)
(* Files and ld.so are the environment.                                    *)
(***************************************************************************)
EXTENDS Integers, Sequences, FiniteSets, Functions, Lists

CONSTANTS
    Threads,
    Dirs,         \* directories with a sitecustomize.py of this project
    System,       \* the libstdc++.so.6 that find_library("stdc++") names
    Other,        \* a directory with some other sitecustomize.py
    NoPath,       \* the empty path
    Shipped,      \* the files that may be shipped
    SystemFiles,  \* the files that may be the system's libstdc++
    Libs,         \* what threads import or load
    MaxOps        \* bound on what a thread imports or loads

File == [there : BOOLEAN, kind : {"elf", "noverdef", "notelf"}, version : Nat,
         loads : BOOLEAN]

\* there: the path exists; dep: needs libstdc++.so.6; ldd: ldd succeeds on it.
Lib == [event : {"import", "ctypes.dlopen"}, there : BOOLEAN, dep : BOOLEAN,
        ldd : BOOLEAN]

ASSUME PyAssumption ==
    /\ Shipped \subseteq File /\ SystemFiles \subseteq File /\ Libs \subseteq Lib
    /\ Libs # {} /\ IsFiniteSet(Dirs)
    /\ System \notin Dirs /\ Other \notin Dirs /\ NoPath \notin Dirs \cup {System}
    /\ MaxOps \in Nat

VARIABLES
    file,        \* what is at each path
    sys_path,    \* the directories of sys.path with a sitecustomize.py
    phase,       \* "site" or "user"
    global_libstdcxx_path,
    hooks,       \* audit_hook is registered so many times
    global_disable_audit_hook,
    mapped,      \* the copies of libstdc++ in the process; the first serves all
    reported,    \* warnings printed and exceptions raised by the hook
    pc, lib, nr, \* per thread: control, what it loads, the hook that runs
    found,       \* per thread: already_loaded and system_libstdcxx
    left         \* per thread: what it may still load

thread == <<pc, lib, nr, found, left>>
vars == <<file, sys_path, phase, global_libstdcxx_path, hooks,
          global_disable_audit_hook, mapped, reported, thread>>

Paths == Dirs \cup {System}
IsFile(p) == p # NoPath /\ file[p].there

-----------------------------------------------------------------------------
Init ==
    /\ file \in {f \in [Paths -> Shipped \cup SystemFiles] :
                    /\ f[System] \in SystemFiles
                    /\ \A d \in Dirs : f[d] \in Shipped}
    /\ sys_path \in {s \in UNION {[1 .. n -> Dirs \cup {Other}] :
                                     n \in 1 .. Cardinality(Dirs) + 1} :
                        IsInjective(s)}
    /\ phase = "site"
    /\ global_libstdcxx_path = NoPath /\ hooks = 0
    /\ global_disable_audit_hook = FALSE
    /\ mapped = <<>> /\ reported = {}
    /\ pc = [t \in Threads |-> "idle"]
    /\ lib = [t \in Threads |-> CHOOSE l \in Libs : TRUE]
    /\ nr = [t \in Threads |-> 1]
    /\ found = [t \in Threads |-> [already |-> FALSE, path |-> NoPath]]
    /\ left = [t \in Threads |-> MaxOps]

unchangedSite == UNCHANGED <<file, sys_path, phase, global_libstdcxx_path, hooks>>

\* One of the project's sitecustomize.py: set_hooks_and_audit, its own
\* directory off sys.path, and on to the next sitecustomize.
BugKeepsDirectory(d) == sys_path
Stripped(d) == Without(sys_path, d)

Sitecustomize ==
    /\ phase = "site" /\ sys_path # <<>> /\ Head(sys_path) \in Dirs
    /\ global_libstdcxx_path' = Head(sys_path)
    /\ hooks' = IF hooks > Cardinality(Dirs) THEN hooks ELSE hooks + 1
    /\ sys_path' = Stripped(Head(sys_path))
    /\ UNCHANGED <<file, phase, global_disable_audit_hook, mapped, reported, thread>>

\* Another sitecustomize.py, or none at all: an ImportError that site ignores.
SiteDone ==
    /\ phase = "site" /\ (sys_path # <<>> => Head(sys_path) \notin Dirs)
    /\ phase' = "user"
    /\ UNCHANGED <<file, sys_path, global_libstdcxx_path, hooks,
                   global_disable_audit_hook, mapped, reported, thread>>

-----------------------------------------------------------------------------
\* A thread imports an extension module or calls CDLL: the interpreter raises
\* the audit event before it calls dlopen.
Begin(t) ==
    /\ phase = "user" /\ pc[t] = "idle" /\ left[t] > 0
    /\ \E l \in Libs : lib' = [lib EXCEPT ![t] = l]
    /\ nr' = [nr EXCEPT ![t] = 1]
    /\ pc' = [pc EXCEPT ![t] = "hook"]
    /\ left' = [left EXCEPT ![t] = @ - 1]
    /\ unchangedSite
    /\ UNCHANGED <<global_disable_audit_hook, mapped, reported, found>>

Jump(t, to) ==
    /\ pc' = [pc EXCEPT ![t] = to]
    /\ unchangedSite
    /\ UNCHANGED <<lib, left>>

\* The hook is done: the next one registered, or dlopen, follows.
Return(t) ==
    /\ Jump(t, "hook")
    /\ nr' = [nr EXCEPT ![t] = @ + 1]

\* An exception leaves the hook, and the import with it.
Raise(t, what) ==
    /\ Jump(t, "idle")
    /\ reported' = reported \cup {what}
    /\ UNCHANGED <<global_disable_audit_hook, mapped, nr, found>>

AtHook(t) == pc[t] = "hook" /\ nr[t] <= hooks

\* Only "import" carries the file of an extension module.  CDLL's event is
\* "ctypes.dlopen", which audit_hook does not look for.
Watched(t) == ~global_disable_audit_hook /\ lib[t].event = "import" /\ lib[t].there

HookPasses(t) ==
    /\ AtHook(t) /\ ~Watched(t)
    /\ Return(t)
    /\ UNCHANGED <<global_disable_audit_hook, mapped, reported, found>>

HookRunsLdd(t) ==
    /\ AtHook(t) /\ Watched(t)
    /\ Jump(t, "ldd")
    /\ UNCHANGED <<global_disable_audit_hook, mapped, reported, nr, found>>

LddFails(t) ==
    /\ pc[t] = "ldd" /\ ~lib[t].ldd
    /\ reported' = reported \cup {"ldd"}
    /\ Return(t)
    /\ UNCHANGED <<global_disable_audit_hook, mapped, found>>

LddFindsNone(t) ==
    /\ pc[t] = "ldd" /\ lib[t].ldd /\ ~lib[t].dep
    /\ Return(t)
    /\ UNCHANGED <<global_disable_audit_hook, mapped, reported, found>>

BugRecursesOnLib(t) ==
    /\ pc[t] = "ldd" /\ lib[t].ldd /\ lib[t].dep
    /\ Jump(t, "ldd")
    /\ global_disable_audit_hook' = TRUE
    /\ UNCHANGED <<mapped, reported, nr, found>>

\* check_shared_lib_dependencies calls itself on "libstdc++.so.6": the hook is
\* disabled first, then the versions are checked.
LddFindsLibstdcxx(t) ==
    /\ pc[t] = "ldd" /\ lib[t].ldd /\ lib[t].dep
    /\ Jump(t, "probe")
    /\ global_disable_audit_hook' = TRUE
    /\ UNCHANGED <<mapped, reported, nr, found>>

-----------------------------------------------------------------------------
\* CDLL(find_library("stdc++"), RTLD_NOLOAD).  When find_library returns None,
\* the handle is the program's own and its path is empty.
ProbeFinds(t, p) ==
    /\ pc[t] = "probe"
    /\ found' = [found EXCEPT ![t] = [already |-> TRUE, path |-> p]]
    /\ Jump(t, "examine")
    /\ UNCHANGED <<global_disable_audit_hook, mapped, reported, nr>>

ProbeOfNone(t) == ~file[System].there /\ ProbeFinds(t, NoPath)

BugNoProbe == FALSE
Loaded == mapped # <<>>

ProbeOfLoaded(t) ==
    /\ file[System].there /\ Loaded
    /\ ProbeFinds(t, Head(mapped))

ProbeFails(t) ==
    /\ pc[t] = "probe" /\ file[System].there /\ ~Loaded
    /\ Jump(t, "child")
    /\ UNCHANGED <<global_disable_audit_hook, mapped, reported, nr, found>>

\* The script run as an executable loads libstdc++ and prints its path.
ChildFinds(t) ==
    /\ pc[t] = "child" /\ file[System].loads
    /\ found' = [found EXCEPT ![t] = [already |-> FALSE, path |-> System]]
    /\ Jump(t, "examine")
    /\ UNCHANGED <<global_disable_audit_hook, mapped, reported, nr>>

\* CalledProcessError is not caught.
ChildFails(t) ==
    /\ pc[t] = "child" /\ ~file[System].loads
    /\ Raise(t, "raise")

-----------------------------------------------------------------------------
BothFiles(t) == IsFile(global_libstdcxx_path) /\ IsFile(found[t].path)

\* The system's file is read first; the kind of the first that has no versions.
ReadKind(t) ==
    LET s == file[found[t].path].kind
    IN  IF s # "elf" THEN s ELSE file[global_libstdcxx_path].kind

BugLowerShipped(s, p) == p < s
SystemLower(s, p) == s < p

Lower(t) ==
    SystemLower(file[found[t].path].version, file[global_libstdcxx_path].version)

BothRead(t) == pc[t] = "examine" /\ BothFiles(t) /\ ReadKind(t) = "elf"

\* A path that is no file, a library without versions (ValueError), or a lower
\* one that is loaded already: a warning.
ExamineWarns(t) ==
    /\ pc[t] = "examine"
    /\ BothFiles(t) =>
          \/ ReadKind(t) = "noverdef"
          \/ ReadKind(t) = "elf" /\ Lower(t) /\ found[t].already
    /\ reported' = reported \cup {"version"}
    /\ Return(t)
    /\ UNCHANGED <<global_disable_audit_hook, mapped, found>>

\* An ELFError is no ValueError.
ExamineRaises(t) ==
    /\ pc[t] = "examine" /\ BothFiles(t) /\ ReadKind(t) = "notelf"
    /\ Raise(t, "raise")

ExamineContent(t) ==
    /\ BothRead(t) /\ ~Lower(t)
    /\ Return(t)
    /\ UNCHANGED <<global_disable_audit_hook, mapped, reported, found>>

ExamineLower(t) ==
    /\ BothRead(t) /\ Lower(t) /\ ~found[t].already
    /\ Jump(t, "load")
    /\ UNCHANGED <<global_disable_audit_hook, mapped, reported, nr, found>>

\* CDLL by path maps a second copy where libstdc++ came in meanwhile.
Mapped(p) == IF p \in Range(mapped) THEN mapped ELSE Append(mapped, p)

LoadShipped(t) ==
    /\ pc[t] = "load" /\ file[global_libstdcxx_path].loads
    /\ mapped' = Mapped(global_libstdcxx_path)
    /\ Return(t)
    /\ UNCHANGED <<global_disable_audit_hook, reported, found>>

BugLoadSilent(t) ==
    /\ pc[t] = "load" /\ ~file[global_libstdcxx_path].loads
    /\ Return(t)
    /\ UNCHANGED <<global_disable_audit_hook, mapped, reported, found>>

LoadFails(t) ==
    /\ pc[t] = "load" /\ ~file[global_libstdcxx_path].loads
    /\ reported' = reported \cup {"version"}
    /\ Return(t)
    /\ UNCHANGED <<global_disable_audit_hook, mapped, found>>

-----------------------------------------------------------------------------
\* The hooks let it pass and dlopen brings in libstdc++ if it is needed and
\* not yet there.
AtDlopen(t) == pc[t] = "hook" /\ nr[t] > hooks

Dlopen(t) ==
    /\ AtDlopen(t)
    /\ mapped' = IF /\ lib[t].there /\ lib[t].dep /\ mapped = <<>>
                     /\ file[System].loads
                  THEN <<System>> ELSE mapped
    /\ Jump(t, "idle")
    /\ UNCHANGED <<global_disable_audit_hook, reported, nr, found>>

Hook(t) ==
    \/ HookPasses(t) \/ HookRunsLdd(t)
    \/ LddFails(t) \/ LddFindsNone(t) \/ LddFindsLibstdcxx(t)
    \/ ProbeOfNone(t) \/ ProbeOfLoaded(t) \/ ProbeFails(t)
    \/ ChildFinds(t) \/ ChildFails(t)
    \/ ExamineWarns(t) \/ ExamineRaises(t) \/ ExamineContent(t) \/ ExamineLower(t)
    \/ LoadShipped(t) \/ LoadFails(t)

Step(t) == Hook(t) \/ Dlopen(t)
Site == Sitecustomize \/ SiteDone

Next == Site \/ \E t \in Threads : Begin(t) \/ Step(t)

Spec == Init /\ [][Next]_vars

\* The interpreter runs the startup, and every thread that has begun an import:
\* child processes end and threads are scheduled.
FairSpec == Spec /\ WF_vars(Site) /\ \A t \in Threads : WF_vars(Step(t))

-----------------------------------------------------------------------------
TypeOK ==
    /\ file \in [Paths -> File]
    /\ sys_path \in Seq(Dirs \cup {Other}) /\ phase \in {"site", "user"}
    /\ global_libstdcxx_path \in Dirs \cup {NoPath}
    /\ hooks \in 0 .. Cardinality(Dirs)
    /\ global_disable_audit_hook \in BOOLEAN
    /\ mapped \in Seq(Paths) /\ reported \subseteq {"ldd", "version", "raise"}
    /\ pc \in [Threads -> {"idle", "hook", "ldd", "probe", "child", "examine", "load"}]
    /\ lib \in [Threads -> Lib] /\ nr \in [Threads -> Nat \ {0}]
    /\ found \in [Threads -> [already : BOOLEAN, path : Paths \cup {NoPath}]]
    /\ left \in [Threads -> 0 .. MaxOps]

Checking(t) == pc[t] \in {"probe", "child", "examine", "load"}

\* The library that serves the process, or would serve it on the next import.
Serving == IF mapped # <<>> THEN Head(mapped) ELSE System

\* The hook disables itself before it has done anything.  Once the check is
\* over, whichever way it went, libstdc++ is at least the shipped one or the
\* user was told (a warning of check_and_load, or its exception).
ProtectedOrTold ==
    global_disable_audit_hook /\ (\A t \in Threads : ~Checking(t)) =>
        \/ reported \cap {"version", "raise"} # {}
        \/ file[Serving].version >= file[global_libstdcxx_path].version

\* The hook never brings a second libstdc++ into the process: that is what the
\* RTLD_NOLOAD probe is for.
OneCopy == Len(mapped) <= 1

\* The shipped library is loaded only if it is higher than the system's, also
\* when threads race in the hook (README, step 13).
ShippedOnlyIfHigher ==
    \A p \in Range(mapped) : p # System => file[p].version > file[System].version

\* What is in use is never lower than the shipped library without a word.
NoSilentDowngrade ==
    mapped # <<>> /\ global_libstdcxx_path # NoPath /\ reported = {} =>
        file[Head(mapped)].version >= file[global_libstdcxx_path].version

\* The chain of sitecustomize.py comes to its end: each takes its own directory
\* off sys.path before it imports the next.
ChainEnds == <>(phase = "user")

\* Every import and every CDLL ends, however many hooks are registered.
EveryLoadEnds == \A t \in Threads : (pc[t] # "idle") ~> (pc[t] = "idle")
=============================================================================
