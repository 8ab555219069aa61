--------------------------- MODULE PyAuditProofs ---------------------------
(***************************************************************************)
(* What the Python hook loads, for any number of threads, any chain of     *)
(* sitecustomize.py and any files.                                         *)
(***************************************************************************)
EXTENDS PyAudit, InductionFacts, FiniteSetTheorems

\* The parts of the type invariant that the argument needs.
Typed ==
    /\ global_libstdcxx_path \in Dirs \cup {NoPath}
    /\ mapped \in Seq(Paths)
    /\ pc \in [Threads -> {"idle", "hook", "ldd", "probe", "child", "examine", "load"}]
    /\ found \in [Threads -> [already : BOOLEAN, path : Paths \cup {NoPath}]]

\* Threads run only after the chain of sitecustomize.py has set the path.
StartedLate == \A t \in Threads : pc[t] # "idle" => phase = "user"

\* A thread that compares versions without a loaded libstdc++ has the system's.
ComparesSystem ==
    \A t \in Threads :
        pc[t] = "examine" /\ ~found[t].already => found[t].path = System

\* A thread about to load has compared, and nothing can change the outcome.
LoadsHigher ==
    \A t \in Threads :
        pc[t] = "load" =>
            /\ global_libstdcxx_path # NoPath
            /\ file[System].version < file[global_libstdcxx_path].version

IInv == Typed /\ StartedLate /\ ComparesSystem /\ LoadsHigher /\ ShippedOnlyIfHigher

-----------------------------------------------------------------------------
LEMMA InvInit == Init => IInv
  BY DEF Init, IInv, Typed, StartedLate, ComparesSystem, LoadsHigher,
         ShippedOnlyIfHigher, Range, Paths

\* The chain of sitecustomize.py runs while every thread is idle.
LEMMA InvSite ==
    ASSUME IInv, Site
    PROVE  IInv'
  <1>. USE DEF IInv
  <1>1. /\ phase = "site"
        /\ UNCHANGED <<file, mapped, pc, found>>
        /\ global_libstdcxx_path' \in Dirs \cup {NoPath}
    BY DEF Site, Sitecustomize, SiteDone, Typed, thread
  <1>2. \A t \in Threads : pc[t] = "idle"
    BY <1>1 DEF StartedLate
  <1>. QED
    BY <1>1, <1>2 DEF Typed, StartedLate, ComparesSystem, LoadsHigher,
       ShippedOnlyIfHigher

LEMMA InvBegin ==
    ASSUME IInv, NEW t \in Threads, Begin(t)
    PROVE  IInv'
  <1>. USE DEF IInv
  <1>1. /\ phase = "user" /\ pc' = [pc EXCEPT ![t] = "hook"]
        /\ UNCHANGED <<file, phase, global_libstdcxx_path, mapped, found>>
    BY DEF Begin, unchangedSite
  <1>. QED
    BY <1>1 DEF Typed, StartedLate, ComparesSystem, LoadsHigher, ShippedOnlyIfHigher

\* A step that maps nothing, starts no load and no comparison.
LEMMA InvQuiet ==
    ASSUME IInv, NEW t \in Threads, pc[t] # "idle",
           NEW to \in {"idle", "hook", "ldd", "probe", "child"}, Jump(t, to),
           UNCHANGED <<mapped, found>>
    PROVE  IInv'
  <1>. USE DEF IInv
  <1>1. /\ pc' = [pc EXCEPT ![t] = to]
        /\ UNCHANGED <<file, phase, global_libstdcxx_path, mapped, found>>
    BY DEF Jump, unchangedSite
  <1>. QED
    BY <1>1 DEF Typed, StartedLate, ComparesSystem, LoadsHigher, ShippedOnlyIfHigher

\* The probe and the child process leave a path to compare with.
LEMMA InvFound ==
    ASSUME IInv, NEW t \in Threads, pc[t] # "idle", Jump(t, "examine"),
           NEW r \in [already : BOOLEAN, path : Paths \cup {NoPath}],
           ~r.already => r.path = System,
           found' = [found EXCEPT ![t] = r], UNCHANGED mapped
    PROVE  IInv'
  <1>. USE DEF IInv
  <1>1. /\ pc' = [pc EXCEPT ![t] = "examine"]
        /\ UNCHANGED <<file, phase, global_libstdcxx_path, mapped>>
    BY DEF Jump, unchangedSite
  <1>. QED
    BY <1>1 DEF Typed, StartedLate, ComparesSystem, LoadsHigher, ShippedOnlyIfHigher

LEMMA InvLower ==
    ASSUME IInv, NEW t \in Threads, ExamineLower(t)
    PROVE  IInv'
  <1>. USE DEF IInv
  <1>1. /\ pc[t] = "examine" /\ pc' = [pc EXCEPT ![t] = "load"]
        /\ ~found[t].already
        /\ global_libstdcxx_path # NoPath
        /\ file[found[t].path].version < file[global_libstdcxx_path].version
        /\ UNCHANGED <<file, phase, global_libstdcxx_path, mapped, found>>
    BY DEF ExamineLower, BothRead, BothFiles, IsFile, Lower, SystemLower, Jump,
           unchangedSite
  <1>2. found[t].path = System
    BY <1>1 DEF ComparesSystem
  <1>. QED
    BY <1>1, <1>2 DEF Typed, StartedLate, ComparesSystem, LoadsHigher,
       ShippedOnlyIfHigher

LEMMA InvLoad ==
    ASSUME IInv, NEW t \in Threads, LoadShipped(t)
    PROVE  IInv'
  <1>. USE DEF IInv
  <1>1. /\ pc[t] = "load" /\ pc' = [pc EXCEPT ![t] = "hook"]
        /\ mapped' = Mapped(global_libstdcxx_path)
        /\ UNCHANGED <<file, phase, global_libstdcxx_path, found>>
    BY DEF LoadShipped, Return, Jump, unchangedSite
  <1>2. /\ global_libstdcxx_path \in Paths
        /\ file[global_libstdcxx_path].version > file[System].version
    BY <1>1, PyAssumption DEF LoadsHigher, Typed, Paths
  <1>3. mapped' \in Seq(Paths) /\ Range(mapped') \subseteq Range(mapped) \cup {global_libstdcxx_path}
    BY <1>1, <1>2 DEF Mapped, Range, Typed
  <1>4. ShippedOnlyIfHigher'
    BY <1>1, <1>2, <1>3 DEF ShippedOnlyIfHigher
  <1>. QED
    BY <1>1, <1>3, <1>4 DEF Typed, StartedLate, ComparesSystem, LoadsHigher

LEMMA InvDlopen ==
    ASSUME IInv, NEW t \in Threads, Dlopen(t)
    PROVE  IInv'
  <1>. USE DEF IInv
  <1>1. /\ pc' = [pc EXCEPT ![t] = "idle"]
        /\ mapped' \in {mapped, <<System>>}
        /\ UNCHANGED <<file, phase, global_libstdcxx_path, found>>
    BY DEF Dlopen, Jump, unchangedSite
  <1>2. <<System>> \in Seq(Paths) /\ Range(<<System>>) = {System}
    BY DEF Paths, Range
  <1>3. ShippedOnlyIfHigher'
    BY <1>1, <1>2 DEF ShippedOnlyIfHigher
  <1>. QED
    BY <1>1, <1>2, <1>3 DEF Typed, StartedLate, ComparesSystem, LoadsHigher

LEMMA InvHook ==
    ASSUME IInv, NEW t \in Threads, Hook(t)
    PROVE  IInv'
  <1>1. CASE HookPasses(t)
    BY <1>1, InvQuiet DEF HookPasses, AtHook, Return
  <1>2. CASE HookRunsLdd(t)
    BY <1>2, InvQuiet DEF HookRunsLdd, AtHook
  <1>3. CASE LddFails(t)
    BY <1>3, InvQuiet DEF LddFails, Return
  <1>4. CASE LddFindsNone(t)
    BY <1>4, InvQuiet DEF LddFindsNone, Return
  <1>5. CASE LddFindsLibstdcxx(t)
    BY <1>5, InvQuiet DEF LddFindsLibstdcxx
  <1>6. CASE ProbeOfNone(t)
    BY <1>6, InvFound DEF ProbeOfNone, ProbeFinds
  <1>7. CASE ProbeOfLoaded(t)
    <2>1. Head(mapped) \in Paths
      BY <1>7 DEF ProbeOfLoaded, Loaded, IInv, Typed
    <2>. QED
      BY <1>7, <2>1, InvFound DEF ProbeOfLoaded, ProbeFinds
  <1>8. CASE ProbeFails(t)
    BY <1>8, InvQuiet DEF ProbeFails
  <1>9. CASE ChildFinds(t)
    BY <1>9, InvFound DEF ChildFinds, Paths
  <1>10. CASE ChildFails(t)
    BY <1>10, InvQuiet DEF ChildFails, Raise
  <1>11. CASE ExamineWarns(t)
    BY <1>11, InvQuiet DEF ExamineWarns, Return
  <1>12. CASE ExamineRaises(t)
    BY <1>12, InvQuiet DEF ExamineRaises, Raise
  <1>13. CASE ExamineContent(t)
    BY <1>13, InvQuiet DEF ExamineContent, BothRead, Return
  <1>14. CASE ExamineLower(t)
    BY <1>14, InvLower
  <1>15. CASE LoadShipped(t)
    BY <1>15, InvLoad
  <1>16. CASE LoadFails(t)
    BY <1>16, InvQuiet DEF LoadFails, Return
  <1>. QED
    BY <1>1, <1>2, <1>3, <1>4, <1>5, <1>6, <1>7, <1>8, <1>9, <1>10, <1>11, <1>12,
       <1>13, <1>14, <1>15, <1>16 DEF Hook

LEMMA InvNext ==
    ASSUME IInv, [Next]_vars
    PROVE  IInv'
  <1>1. CASE Site
    BY <1>1, InvSite
  <1>2. ASSUME NEW t \in Threads, Begin(t) PROVE IInv'
    BY <1>2, InvBegin
  <1>3. ASSUME NEW t \in Threads, Step(t) PROVE IInv'
    BY <1>3, InvHook, InvDlopen DEF Step
  <1>4. CASE UNCHANGED vars
    BY <1>4 DEF vars, thread, IInv, Typed, StartedLate, ComparesSystem, LoadsHigher,
       ShippedOnlyIfHigher
  <1>. QED
    BY <1>1, <1>2, <1>3, <1>4 DEF Next

\* Every reachable state satisfies the inductive invariant.
THEOREM Invariance == Spec => []IInv
  BY InvInit, InvNext, PTL DEF Spec

\* However the threads interleave in the hook, a shipped libstdc++ is loaded
\* only if it is higher than the system's.
THEOREM LoadsOnlyHigher == Spec => []ShippedOnlyIfHigher
  BY Invariance, PTL DEF IInv

-----------------------------------------------------------------------------
(***************************************************************************)
(* Types, and the number of hooks.                                         *)
(***************************************************************************)
\* A directory registers a hook when it leaves sys.path, and none comes back:
\* no more hooks than directories that have left.
HooksCounted == hooks <= Cardinality(Dirs \ Range(sys_path))

TypeInv == IInv /\ TypeOK /\ HooksCounted

LEMMA TypeInit == Init => TypeInv
  <1>. SUFFICES ASSUME Init PROVE TypeOK /\ HooksCounted
    BY InvInit DEF TypeInv
  <1>1. IsFiniteSet(Dirs) /\ Cardinality(Dirs) \in Nat
    BY PyAssumption, FS_CardinalityType
  <1>2. Cardinality(Dirs \ Range(sys_path)) \in Nat
    BY <1>1, FS_Difference, FS_CardinalityType
  <1>3. HooksCounted
    BY <1>2 DEF Init, HooksCounted
  <1>4. file \in [Paths -> File]
    <2>1. \A p \in Paths : file[p] \in File
      BY PyAssumption DEF Init, Paths
    <2>. QED
      BY <2>1 DEF Init
  <1>5. sys_path \in Seq(Dirs \cup {Other})
    <2>1. PICK n \in 1 .. Cardinality(Dirs) + 1 : sys_path \in [1 .. n -> Dirs \cup {Other}]
      BY DEF Init
    <2>. QED
      BY <1>1, <2>1
  <1>6. (CHOOSE l \in Libs : TRUE) \in Lib
    BY PyAssumption
  <1>7. /\ mapped \in Seq(Paths) /\ reported \subseteq {"ldd", "version", "raise"}
        /\ hooks \in 0 .. Cardinality(Dirs) /\ global_libstdcxx_path \in Dirs \cup {NoPath}
        /\ global_disable_audit_hook \in BOOLEAN /\ phase \in {"site", "user"}
    <2>1. <<>> \in Seq(Paths)
      OBVIOUS
    <2>2. 0 \in 0 .. Cardinality(Dirs)
      BY <1>1
    <2>. QED
      BY <2>1, <2>2 DEF Init
  <1>8. /\ pc \in [Threads -> {"idle", "hook", "ldd", "probe", "child", "examine", "load"}]
        /\ lib \in [Threads -> Lib] /\ nr \in [Threads -> Nat \ {0}]
        /\ found \in [Threads -> [already : BOOLEAN, path : Paths \cup {NoPath}]]
        /\ left \in [Threads -> 0 .. MaxOps]
    BY <1>6, PyAssumption DEF Init
  <1>. QED
    BY <1>3, <1>4, <1>5, <1>7, <1>8 DEF TypeOK

\* The directory at the head of sys.path leaves it as its hook is registered.
LEMMA TypeSite ==
    ASSUME TypeInv, Site
    PROVE  TypeOK' /\ HooksCounted'
  <1>. USE DEF TypeInv
  <1>1. CASE Sitecustomize
    <2>. DEFINE d == Head(sys_path)
                gone == Dirs \ Range(sys_path)
    <2>1. /\ sys_path \in Seq(Dirs \cup {Other}) /\ sys_path # <<>> /\ d \in Dirs
          /\ sys_path' = Without(sys_path, d)
          /\ hooks' \in {hooks, hooks + 1} /\ hooks \in Nat
      BY <1>1 DEF Sitecustomize, Stripped, TypeOK
    <2>2. /\ sys_path' \in Seq(Dirs \cup {Other})
          /\ Range(sys_path') = Range(sys_path) \ {d}
      BY <2>1, WithoutElement
    <2>3. d \in Range(sys_path)
      <3>1. Len(sys_path) \in Nat /\ Len(sys_path) # 0 /\ DOMAIN sys_path = 1 .. Len(sys_path)
        BY <2>1, EmptySeq, LenProperties
      <3>2. d = sys_path[1] /\ 1 \in DOMAIN sys_path
        BY <2>1, <3>1
      <3>. QED
        BY <3>2 DEF Range
    <2>. HIDE DEF d
    <2>4. (Dirs \ Range(sys_path))' = gone \cup {d} /\ d \notin gone
      BY <2>1, <2>2, <2>3
    <2>5. IsFiniteSet(gone) /\ Cardinality(gone) \in Nat
      BY PyAssumption, FS_Difference, FS_CardinalityType
    <2>6. Cardinality(gone \cup {d}) = Cardinality(gone) + 1
      BY <2>4, <2>5, FS_AddElement
    <2>7. HooksCounted'
      <3>1. hooks <= Cardinality(gone)
        BY DEF HooksCounted
      <3>2. hooks' <= Cardinality(gone) + 1
        BY <2>1, <2>5, <3>1
      <3>3. HooksCounted' <=> hooks' <= Cardinality((Dirs \ Range(sys_path))')
        BY DEF HooksCounted
      <3>. QED
        BY <2>4, <2>6, <3>2, <3>3
    <2>8. hooks' <= Cardinality(Dirs) /\ hooks' \in Nat
      <3>1. gone \cup {d} \subseteq Dirs
        BY <2>1
      <3>2. /\ Cardinality(gone \cup {d}) <= Cardinality(Dirs)
            /\ Cardinality(Dirs) \in Nat
        BY <3>1, PyAssumption, FS_Subset, FS_CardinalityType
      <3>3. hooks <= Cardinality(gone)
        BY DEF HooksCounted
      <3>. QED
        BY <2>1, <2>5, <2>6, <3>2, <3>3
    <2>9. Cardinality(Dirs) \in Nat
      BY PyAssumption, FS_CardinalityType
    <2>. QED
      BY <1>1, <2>1, <2>2, <2>7, <2>8, <2>9 DEF Sitecustomize, TypeOK, thread, d
  <1>2. CASE SiteDone
    BY <1>2 DEF SiteDone, TypeOK, HooksCounted, thread
  <1>. QED
    BY <1>1, <1>2 DEF Site

LEMMA TypeBegin ==
    ASSUME TypeInv, NEW t \in Threads, Begin(t)
    PROVE  TypeOK' /\ HooksCounted'
  <1>1. PICK l \in Libs : lib' = [lib EXCEPT ![t] = l]
    BY DEF Begin
  <1>2. l \in Lib
    BY PyAssumption
  <1>3. left[t] - 1 \in 0 .. MaxOps
    BY PyAssumption DEF Begin, TypeInv, TypeOK
  <1>. QED
    BY <1>1, <1>2, <1>3 DEF Begin, unchangedSite, TypeInv, TypeOK, HooksCounted

\* What any step of the hook may change.
LEMMA HookChanges ==
    ASSUME TypeInv, NEW t \in Threads, Hook(t)
    PROVE  /\ \E to \in {"idle", "hook", "ldd", "probe", "child", "examine", "load"} :
                 Jump(t, to)
           /\ nr' \in {nr, [nr EXCEPT ![t] = @ + 1]}
           /\ \E r \in [already : BOOLEAN, path : Paths \cup {NoPath}] :
                 found' \in {found, [found EXCEPT ![t] = r]}
           /\ global_disable_audit_hook' \in {global_disable_audit_hook, TRUE}
           /\ reported' \subseteq reported \cup {"ldd", "version", "raise"}
  <1>1. \E to \in {"idle", "hook", "ldd", "probe", "child", "examine", "load"} : Jump(t, to)
    BY DEF Hook, HookPasses, HookRunsLdd, LddFails, LddFindsNone, LddFindsLibstdcxx,
           ProbeOfNone, ProbeOfLoaded, ProbeFinds, ProbeFails, ChildFinds, ChildFails,
           ExamineWarns, ExamineRaises, ExamineContent, ExamineLower, LoadShipped,
           LoadFails, Return, Raise
  <1>2. nr' \in {nr, [nr EXCEPT ![t] = @ + 1]}
    BY DEF Hook, HookPasses, HookRunsLdd, LddFails, LddFindsNone, LddFindsLibstdcxx,
           ProbeOfNone, ProbeOfLoaded, ProbeFinds, ProbeFails, ChildFinds, ChildFails,
           ExamineWarns, ExamineRaises, ExamineContent, ExamineLower, LoadShipped,
           LoadFails, Return, Raise
  <1>3. \E r \in [already : BOOLEAN, path : Paths \cup {NoPath}] :
           found' \in {found, [found EXCEPT ![t] = r]}
    <2>1. found[t] \in [already : BOOLEAN, path : Paths \cup {NoPath}]
      BY DEF TypeInv, TypeOK
    <2>2. CASE UNCHANGED found
      BY <2>1, <2>2
    <2>3. CASE ProbeOfNone(t)
      BY <2>3 DEF ProbeOfNone, ProbeFinds
    <2>4. CASE ProbeOfLoaded(t)
      <3>1. Head(mapped) \in Paths
        BY <2>4 DEF ProbeOfLoaded, Loaded, TypeInv, TypeOK
      <3>. QED
        BY <2>4, <3>1 DEF ProbeOfLoaded, ProbeFinds
    <2>5. CASE ChildFinds(t)
      BY <2>5 DEF ChildFinds, Paths
    <2>6. UNCHANGED found \/ ProbeOfNone(t) \/ ProbeOfLoaded(t) \/ ChildFinds(t)
      BY DEF Hook, HookPasses, HookRunsLdd, LddFails, LddFindsNone, LddFindsLibstdcxx,
             ProbeFails, ChildFails, ExamineWarns, ExamineRaises, ExamineContent,
             ExamineLower, LoadShipped, LoadFails, Raise
    <2>. QED
      BY <2>2, <2>3, <2>4, <2>5, <2>6
  <1>4. /\ global_disable_audit_hook' \in {global_disable_audit_hook, TRUE}
        /\ reported' \subseteq reported \cup {"ldd", "version", "raise"}
    BY DEF Hook, HookPasses, HookRunsLdd, LddFails, LddFindsNone, LddFindsLibstdcxx,
           ProbeOfNone, ProbeOfLoaded, ProbeFinds, ProbeFails, ChildFinds, ChildFails,
           ExamineWarns, ExamineRaises, ExamineContent, ExamineLower, LoadShipped,
           LoadFails, Raise
  <1>. QED
    BY <1>1, <1>2, <1>3, <1>4

LEMMA TypeStep ==
    ASSUME TypeInv, NEW t \in Threads, Step(t)
    PROVE  TypeOK' /\ HooksCounted'
  <1>1. mapped' \in Seq(Paths)
    BY InvHook, InvDlopen DEF TypeInv, IInv, Typed, Step
  <1>2. CASE Hook(t)
    <2>1. PICK to \in {"idle", "hook", "ldd", "probe", "child", "examine", "load"} : Jump(t, to)
      BY <1>2, HookChanges
    <2>2. PICK r \in [already : BOOLEAN, path : Paths \cup {NoPath}] :
             found' \in {found, [found EXCEPT ![t] = r]}
      BY <1>2, HookChanges
    <2>3. /\ nr' \in {nr, [nr EXCEPT ![t] = @ + 1]}
          /\ global_disable_audit_hook' \in {global_disable_audit_hook, TRUE}
          /\ reported' \subseteq reported \cup {"ldd", "version", "raise"}
      BY <1>2, HookChanges
    <2>4. pc' \in [Threads -> {"idle", "hook", "ldd", "probe", "child", "examine", "load"}]
      BY <2>1 DEF Jump, TypeInv, TypeOK
    <2>5. nr' \in [Threads -> Nat \ {0}]
      <3>1. nr \in [Threads -> Nat \ {0}] /\ nr[t] + 1 \in Nat \ {0}
        BY DEF TypeInv, TypeOK
      <3>. QED
        BY <2>3, <3>1
    <2>6. found' \in [Threads -> [already : BOOLEAN, path : Paths \cup {NoPath}]]
      BY <2>2 DEF TypeInv, TypeOK
    <2>7. UNCHANGED <<file, sys_path, phase, global_libstdcxx_path, hooks, lib, left>>
      BY <2>1 DEF Jump, unchangedSite
    <2>. QED
      BY <1>1, <2>3, <2>4, <2>5, <2>6, <2>7 DEF TypeInv, TypeOK, HooksCounted
  <1>3. CASE Dlopen(t)
    BY <1>1, <1>3 DEF Dlopen, Jump, unchangedSite, TypeInv, TypeOK, HooksCounted
  <1>. QED
    BY <1>2, <1>3 DEF Step

LEMMA TypeNext ==
    ASSUME TypeInv, [Next]_vars
    PROVE  TypeInv'
  <1>1. IInv'
    BY InvNext DEF TypeInv
  <1>2. CASE UNCHANGED vars
    BY <1>1, <1>2 DEF vars, thread, TypeInv, TypeOK, HooksCounted
  <1>. QED
    BY <1>1, <1>2, TypeSite, TypeBegin, TypeStep DEF TypeInv, Next

\* Every variable has its type; among them: the hook is registered no more
\* often than there are sitecustomize.py, each of which takes its own directory
\* off sys.path.
THEOREM TypeCorrect == Spec => []TypeOK
  <1>1. TypeInv => TypeOK
    BY DEF TypeInv
  <1>. QED
    BY <1>1, TypeInit, TypeNext, PTL DEF Spec

-----------------------------------------------------------------------------
(***************************************************************************)
(* The copies of libstdc++ in the process.                                 *)
(***************************************************************************)
\* The system's is mapped by dlopen into a process without any, the shipped one
\* by the hook, and a path that is mapped is not mapped again.
Copies ==
    \/ mapped \in {<<>>, <<System>>}
    \/ /\ global_libstdcxx_path # NoPath
       /\ mapped \in {<<global_libstdcxx_path>>, <<System, global_libstdcxx_path>>}

\* While the chain of sitecustomize.py runs, no hook has run.
StartsClean == phase = "site" => mapped = <<>> /\ ~global_disable_audit_hook

CopiesInv == TypeInv /\ Copies /\ StartsClean

LEMMA CopiesInit == Init => CopiesInv
  BY TypeInit DEF Init, CopiesInv, Copies, StartsClean

\* A thread of the user maps a library as dlopen does or as the hook does.
LEMMA StepMaps ==
    ASSUME CopiesInv, NEW t \in Threads, Step(t)
    PROVE  /\ UNCHANGED <<file, phase, global_libstdcxx_path>> /\ phase = "user"
           /\ \/ UNCHANGED mapped
              \/ Dlopen(t) /\ mapped = <<>> /\ mapped' = <<System>>
              \/ /\ LoadShipped(t) /\ global_libstdcxx_path # NoPath
                 /\ mapped' = Mapped(global_libstdcxx_path)
  <1>1. pc[t] # "idle" /\ phase = "user"
    <2>1. pc[t] # "idle"
      BY DEF Step, Dlopen, AtDlopen, Hook, HookPasses, HookRunsLdd, AtHook, LddFails,
             LddFindsNone, LddFindsLibstdcxx, ProbeOfNone, ProbeOfLoaded, ProbeFinds,
             ProbeFails, ChildFinds, ChildFails, ExamineWarns, ExamineRaises,
             ExamineContent, ExamineLower, BothRead, LoadShipped, LoadFails
    <2>. QED
      BY <2>1 DEF CopiesInv, TypeInv, IInv, StartedLate
  <1>2. UNCHANGED <<file, phase, global_libstdcxx_path>>
    <2>1. \E to : Jump(t, to)
      BY HookChanges DEF CopiesInv, Step, Dlopen
    <2>. QED
      BY <2>1 DEF Jump, unchangedSite
  <1>3. LoadShipped(t) => global_libstdcxx_path # NoPath
    BY DEF LoadShipped, CopiesInv, TypeInv, IInv, LoadsHigher
  <1>4. \/ UNCHANGED mapped
        \/ Dlopen(t) /\ mapped = <<>> /\ mapped' = <<System>>
        \/ LoadShipped(t) /\ mapped' = Mapped(global_libstdcxx_path)
    BY DEF Step, Dlopen, Hook, HookPasses, HookRunsLdd, LddFails,
           LddFindsNone, LddFindsLibstdcxx, ProbeOfNone, ProbeOfLoaded, ProbeFinds,
           ProbeFails, ChildFinds, ChildFails, ExamineWarns, ExamineRaises,
           ExamineContent, ExamineLower, LoadShipped, LoadFails, Raise
  <1>. QED
    BY <1>1, <1>2, <1>3, <1>4

\* What loading the shipped library makes of the copies there are.
LEMMA ShippedMapped ==
    ASSUME Copies, global_libstdcxx_path # NoPath
    PROVE  Mapped(global_libstdcxx_path) =
             IF mapped = <<>> THEN <<global_libstdcxx_path>>
             ELSE IF mapped = <<System>> /\ global_libstdcxx_path # System
                  THEN <<System, global_libstdcxx_path>> ELSE mapped
  <1>. DEFINE p == global_libstdcxx_path
  <1>1. Range(<<>>) = {} /\ Append(<<>>, p) = <<p>>
    BY DEF Range
  <1>2. Range(<<System>>) = {System} /\ Append(<<System>>, p) = <<System, p>>
    <2>1. Range(<<System>>) = {System}
      BY DEF Range
    <2>2. /\ Append(<<System>>, p) \in Seq({System, p})
          /\ Len(Append(<<System>>, p)) = 2
          /\ Append(<<System>>, p)[1] = System /\ Append(<<System>>, p)[2] = p
      <3>1. <<System>> \in Seq({System, p}) /\ Len(<<System>>) = 1 /\ <<System>>[1] = System
        OBVIOUS
      <3>. QED
        BY <3>1, AppendProperties
    <2>3. /\ <<System, p>> \in Seq({System, p})
          /\ Len(<<System, p>>) = 2
          /\ <<System, p>>[1] = System /\ <<System, p>>[2] = p
      OBVIOUS
    <2>4. \A x, y \in Seq({System, p}) :
             Len(x) = 2 /\ Len(y) = 2 /\ x[1] = y[1] /\ x[2] = y[2] => x = y
      <3>1. \A i \in 1 .. 2 : i = 1 \/ i = 2
        OBVIOUS
      <3>. QED
        BY <3>1, SeqEqual
    <2>5. Append(<<System>>, p) = <<System, p>>
      BY <2>2, <2>3, <2>4, Zenon
    <2>. QED
      BY <2>1, <2>5
  <1>3. p \in Range(<<p>>)
    BY DEF Range
  <1>4. p \in Range(<<System, p>>)
    <2>1. 2 \in DOMAIN <<System, p>> /\ <<System, p>>[2] = p
      OBVIOUS
    <2>. QED
      BY <2>1 DEF Range
  <1>5. <<System>> # <<>> /\ <<p>> # <<>> /\ <<System, p>> # <<>> /\ <<System, p>> # <<System>>
    OBVIOUS
  <1>6. <<p>> = <<System>> => p = System
    OBVIOUS
  <1>. QED
    BY <1>1, <1>2, <1>3, <1>4, <1>5, <1>6 DEF Copies, Mapped

LEMMA CopiesNext ==
    ASSUME CopiesInv, [Next]_vars
    PROVE  CopiesInv'
  <1>1. TypeInv'
    BY TypeNext DEF CopiesInv
  <1>2. CASE Site
    BY <1>1, <1>2 DEF Site, Sitecustomize, SiteDone, CopiesInv, Copies, StartsClean
  <1>3. ASSUME NEW t \in Threads, Begin(t) PROVE CopiesInv'
    BY <1>1, <1>3 DEF Begin, unchangedSite, CopiesInv, Copies, StartsClean
  <1>4. ASSUME NEW t \in Threads, Step(t) PROVE CopiesInv'
    <2>1. /\ UNCHANGED <<file, phase, global_libstdcxx_path>> /\ phase = "user"
          /\ \/ UNCHANGED mapped
             \/ mapped = <<>> /\ mapped' = <<System>>
             \/ global_libstdcxx_path # NoPath /\ mapped' = Mapped(global_libstdcxx_path)
      BY <1>4, StepMaps
    <2>2. Copies'
      BY <2>1, ShippedMapped DEF CopiesInv, Copies
    <2>. QED
      BY <1>1, <2>1, <2>2 DEF CopiesInv, StartsClean
  <1>5. CASE UNCHANGED vars
    BY <1>1, <1>5 DEF vars, CopiesInv, Copies, StartsClean
  <1>. QED
    BY <1>2, <1>3, <1>4, <1>5 DEF Next

\* However many threads race in the hook, there are at most the system's copy
\* and one shipped one, the system's first: CDLL by path does not map a file
\* that is there, and only a process without libstdc++ maps the system's.
THEOREM TwoCopiesAtMost == Spec => []Copies
  <1>1. CopiesInv => Copies
    BY DEF CopiesInv
  <1>. QED
    BY <1>1, CopiesInit, CopiesNext, PTL DEF Spec

-----------------------------------------------------------------------------
(***************************************************************************)
(* One thread: nothing happens between the probe and what it decides.      *)
(***************************************************************************)
SingleThread == \A s, t \in Threads : s = t

\* From a probe that failed to the load, no libstdc++ comes in.
NothingMapped ==
    \A t \in Threads :
        \/ pc[t] \in {"child", "load"}
        \/ pc[t] = "examine" /\ ~found[t].already
        => mapped = <<>>

\* A loaded library that is examined is the one that serves the process.
ExaminesServing ==
    \A t \in Threads :
        pc[t] = "examine" /\ found[t].already =>
            \/ found[t].path = NoPath
            \/ mapped # <<>> /\ found[t].path = Head(mapped)

SingleInv ==
    CopiesInv /\ NothingMapped /\ ExaminesServing /\ OneCopy /\ ProtectedOrTold

LEMMA SingleInit == Init => SingleInv
  BY CopiesInit DEF Init, SingleInv, NothingMapped, ExaminesServing, OneCopy,
                    ProtectedOrTold

\* No step of the startup, and no import begun, disturbs a settled check.
LEMMA SingleBegin ==
    ASSUME SingleThread, SingleInv, NEW t \in Threads, Begin(t)
    PROVE  NothingMapped' /\ ExaminesServing' /\ OneCopy' /\ ProtectedOrTold'
  <1>1. /\ pc[t] = "idle" /\ pc' = [pc EXCEPT ![t] = "hook"]
        /\ UNCHANGED <<file, global_libstdcxx_path, global_disable_audit_hook,
                       mapped, reported, found>>
    BY DEF Begin, unchangedSite
  <1>2. pc \in [Threads -> {"idle", "hook", "ldd", "probe", "child", "examine", "load"}]
    BY DEF SingleInv, CopiesInv, TypeInv, TypeOK
  <1>3. \A s \in Threads : s = t /\ pc'[s] = "hook"
    BY <1>1, <1>2 DEF SingleThread
  <1>4. \A s \in Threads : ~Checking(s)
    BY <1>1, <1>3 DEF Checking
  <1>. QED
    BY <1>1, <1>3, <1>4 DEF SingleInv, NothingMapped, ExaminesServing, OneCopy,
       ProtectedOrTold, Serving

\* A step that changes neither what is mapped nor what was found, into a place
\* that asks nothing of them: settled if it was settled or something was told.
LEMMA SingleQuiet ==
    ASSUME SingleThread, SingleInv, NEW t \in Threads,
           NEW to \in {"idle", "hook", "ldd", "probe"}, Jump(t, to),
           UNCHANGED <<mapped, found>>, reported \subseteq reported',
           \/ ~Checking(t) /\ UNCHANGED global_disable_audit_hook
           \/ to = "probe"
           \/ reported' \cap {"version", "raise"} # {}
           \/ file[Serving].version >= file[global_libstdcxx_path].version
    PROVE  NothingMapped' /\ ExaminesServing' /\ OneCopy' /\ ProtectedOrTold'
  <1>1. /\ pc' = [pc EXCEPT ![t] = to]
        /\ UNCHANGED <<file, global_libstdcxx_path>>
    BY DEF Jump, unchangedSite
  <1>2. pc \in [Threads -> {"idle", "hook", "ldd", "probe", "child", "examine", "load"}]
    BY DEF SingleInv, CopiesInv, TypeInv, TypeOK
  <1>3. \A s \in Threads : s = t /\ pc'[s] = to
    BY <1>1, <1>2 DEF SingleThread
  <1>4. NothingMapped' /\ ExaminesServing' /\ OneCopy'
    BY <1>3 DEF NothingMapped, ExaminesServing, SingleInv, OneCopy
  <1>5. ProtectedOrTold'
    <2>1. Serving' = Serving
      BY DEF Serving
    <2>2. (\A s \in Threads : ~Checking(s))' => to # "probe"
      BY <1>3 DEF Checking
    <2>3. ~Checking(t) => \A s \in Threads : ~Checking(s)
      BY DEF SingleThread
    <2>. QED
      BY <1>1, <2>1, <2>2, <2>3 DEF SingleInv, ProtectedOrTold
  <1>. QED
    BY <1>4, <1>5

\* A step to a place within the check: the hazards are what is mapped and found.
LEMMA SingleInside ==
    ASSUME SingleThread, SingleInv, NEW t \in Threads,
           NEW to \in {"child", "examine", "load"}, Jump(t, to), UNCHANGED mapped,
           to \in {"child", "load"} => mapped = <<>>,
           to = "examine" /\ ~found'[t].already => mapped = <<>>,
           to = "examine" /\ found'[t].already =>
              found'[t].path = NoPath \/ (mapped # <<>> /\ found'[t].path = Head(mapped))
    PROVE  NothingMapped' /\ ExaminesServing' /\ OneCopy' /\ ProtectedOrTold'
  <1>1. pc' = [pc EXCEPT ![t] = to]
    BY DEF Jump
  <1>2. pc \in [Threads -> {"idle", "hook", "ldd", "probe", "child", "examine", "load"}]
    BY DEF SingleInv, CopiesInv, TypeInv, TypeOK
  <1>3. \A s \in Threads : s = t /\ pc'[s] = to
    BY <1>1, <1>2 DEF SingleThread
  <1>4. NothingMapped' /\ ExaminesServing' /\ OneCopy'
    BY <1>3 DEF NothingMapped, ExaminesServing, SingleInv, OneCopy
  <1>5. Checking(t)'
    BY <1>3 DEF Checking
  <1>. QED
    BY <1>4, <1>5 DEF ProtectedOrTold

\* The library that is not lower is the one that serves the process, or will.
LEMMA SingleContent ==
    ASSUME SingleInv, NEW t \in Threads, ExamineContent(t)
    PROVE  file[Serving].version >= file[global_libstdcxx_path].version
  <1>1. /\ pc[t] = "examine" /\ found[t].path # NoPath /\ global_libstdcxx_path # NoPath
        /\ ~(file[found[t].path].version < file[global_libstdcxx_path].version)
    BY DEF ExamineContent, BothRead, BothFiles, IsFile, Lower, SystemLower
  <1>2. /\ file[found[t].path].version \in Nat
        /\ file[global_libstdcxx_path].version \in Nat
    BY <1>1, PyAssumption DEF SingleInv, CopiesInv, TypeInv, TypeOK, Paths, File
  <1>3. found[t].path = Serving
    <2>1. CASE found[t].already
      BY <1>1, <2>1 DEF SingleInv, ExaminesServing, Serving
    <2>2. CASE ~found[t].already
      BY <1>1, <2>2 DEF SingleInv, CopiesInv, TypeInv, IInv, ComparesSystem,
                        NothingMapped, Serving
    <2>. QED
      BY <2>1, <2>2
  <1>. QED
    BY <1>1, <1>2, <1>3

\* The shipped library is loaded into a process without libstdc++: it serves.
LEMMA SingleLoad ==
    ASSUME SingleThread, SingleInv, NEW t \in Threads, LoadShipped(t)
    PROVE  NothingMapped' /\ ExaminesServing' /\ OneCopy' /\ ProtectedOrTold'
  <1>1. /\ pc[t] = "load" /\ pc' = [pc EXCEPT ![t] = "hook"]
        /\ mapped' = Mapped(global_libstdcxx_path)
        /\ UNCHANGED <<file, global_libstdcxx_path>>
    BY DEF LoadShipped, Return, Jump, unchangedSite
  <1>2. mapped = <<>> /\ global_libstdcxx_path # NoPath
    BY <1>1 DEF SingleInv, NothingMapped, CopiesInv, TypeInv, IInv, LoadsHigher
  <1>3. mapped' = <<global_libstdcxx_path>>
    BY <1>1, <1>2, ShippedMapped DEF SingleInv, CopiesInv
  <1>4. pc \in [Threads -> {"idle", "hook", "ldd", "probe", "child", "examine", "load"}]
    BY DEF SingleInv, CopiesInv, TypeInv, TypeOK
  <1>5. \A s \in Threads : pc'[s] = "hook"
    BY <1>1, <1>4 DEF SingleThread
  <1>6. Serving' = global_libstdcxx_path
    BY <1>3 DEF Serving
  <1>7. file[global_libstdcxx_path].version \in Nat
    BY <1>2, PyAssumption DEF SingleInv, CopiesInv, TypeInv, TypeOK, Paths, File
  <1>8. OneCopy'
    BY <1>3 DEF OneCopy
  <1>. QED
    BY <1>1, <1>5, <1>6, <1>7, <1>8 DEF NothingMapped, ExaminesServing, ProtectedOrTold

\* dlopen maps the library that was to serve the process.
LEMMA SingleDlopen ==
    ASSUME SingleThread, SingleInv, NEW t \in Threads, Dlopen(t)
    PROVE  NothingMapped' /\ ExaminesServing' /\ OneCopy' /\ ProtectedOrTold'
  <1>1. /\ pc[t] = "hook" /\ pc' = [pc EXCEPT ![t] = "idle"]
        /\ \/ mapped' = mapped
           \/ mapped = <<>> /\ mapped' = <<System>>
        /\ UNCHANGED <<file, global_libstdcxx_path, global_disable_audit_hook, reported>>
    BY DEF Dlopen, AtDlopen, Jump, unchangedSite
  <1>2. pc \in [Threads -> {"idle", "hook", "ldd", "probe", "child", "examine", "load"}]
    BY DEF SingleInv, CopiesInv, TypeInv, TypeOK
  <1>3. \A s \in Threads : s = t /\ pc'[s] = "idle"
    BY <1>1, <1>2 DEF SingleThread
  <1>4. \A s \in Threads : ~Checking(s)
    BY <1>1, <1>3 DEF Checking
  <1>5. Serving' = Serving
    BY <1>1 DEF Serving
  <1>6. OneCopy'
    <2>1. Len(mapped) <= 1
      BY DEF SingleInv, OneCopy
    <2>2. mapped' = <<System>> => Len(mapped') <= 1
      OBVIOUS
    <2>3. mapped' = mapped => Len(mapped') <= 1
      BY <2>1
    <2>. QED
      BY <1>1, <2>2, <2>3 DEF OneCopy
  <1>7. ProtectedOrTold'
    BY <1>1, <1>4, <1>5 DEF SingleInv, ProtectedOrTold
  <1>. QED
    BY <1>3, <1>6, <1>7 DEF NothingMapped, ExaminesServing

LEMMA SingleHook ==
    ASSUME SingleThread, SingleInv, NEW t \in Threads, Hook(t)
    PROVE  NothingMapped' /\ ExaminesServing' /\ OneCopy' /\ ProtectedOrTold'
  <1>1. CASE HookPasses(t)
    BY <1>1, SingleQuiet DEF HookPasses, AtHook, Return, Checking
  <1>2. CASE HookRunsLdd(t)
    BY <1>2, SingleQuiet DEF HookRunsLdd, AtHook, Checking
  <1>3. CASE LddFails(t)
    BY <1>3, SingleQuiet DEF LddFails, Return, Checking
  <1>4. CASE LddFindsNone(t)
    BY <1>4, SingleQuiet DEF LddFindsNone, Return, Checking
  <1>5. CASE LddFindsLibstdcxx(t)
    BY <1>5, SingleQuiet DEF LddFindsLibstdcxx
  <1>6. CASE ProbeOfNone(t)
    BY <1>6, SingleInside DEF ProbeOfNone, ProbeFinds, SingleInv, CopiesInv, TypeInv, TypeOK
  <1>7. CASE ProbeOfLoaded(t)
    BY <1>7, SingleInside DEF ProbeOfLoaded, ProbeFinds, Loaded, SingleInv, CopiesInv,
       TypeInv, TypeOK
  <1>8. CASE ProbeFails(t)
    BY <1>8, SingleInside DEF ProbeFails, Loaded
  <1>9. CASE ChildFinds(t)
    BY <1>9, SingleInside DEF ChildFinds, SingleInv, NothingMapped, CopiesInv, TypeInv, TypeOK
  <1>10. CASE ChildFails(t)
    BY <1>10, SingleQuiet DEF ChildFails, Raise
  <1>11. CASE ExamineWarns(t)
    BY <1>11, SingleQuiet DEF ExamineWarns, Return
  <1>12. CASE ExamineRaises(t)
    BY <1>12, SingleQuiet DEF ExamineRaises, Raise
  <1>13. CASE ExamineContent(t)
    BY <1>13, SingleContent, SingleQuiet DEF ExamineContent, Return
  <1>14. CASE ExamineLower(t)
    BY <1>14, SingleInside DEF ExamineLower, BothRead, SingleInv, NothingMapped
  <1>15. CASE LoadShipped(t)
    BY <1>15, SingleLoad
  <1>16. CASE LoadFails(t)
    BY <1>16, SingleQuiet DEF LoadFails, Return
  <1>. QED
    BY <1>1, <1>2, <1>3, <1>4, <1>5, <1>6, <1>7, <1>8, <1>9, <1>10, <1>11, <1>12,
       <1>13, <1>14, <1>15, <1>16 DEF Hook

LEMMA SingleNext ==
    ASSUME SingleThread, SingleInv, [Next]_vars
    PROVE  SingleInv'
  <1>1. CopiesInv'
    BY CopiesNext DEF SingleInv
  <1>2. CASE Site
    <2>1. phase = "site" /\ UNCHANGED <<mapped, pc, found, global_disable_audit_hook>>
      BY <1>2 DEF Site, Sitecustomize, SiteDone, thread
    <2>2. mapped = <<>> /\ ~global_disable_audit_hook /\ \A t \in Threads : pc[t] = "idle"
      BY <2>1 DEF SingleInv, CopiesInv, StartsClean, TypeInv, IInv, StartedLate
    <2>. QED
      BY <1>1, <2>1, <2>2 DEF SingleInv, NothingMapped, ExaminesServing, OneCopy,
         ProtectedOrTold
  <1>3. CASE UNCHANGED vars
    BY <1>1, <1>3 DEF vars, thread, SingleInv, NothingMapped, ExaminesServing, OneCopy,
       ProtectedOrTold, Checking, Serving
  <1>. QED
    BY <1>1, <1>2, <1>3, SingleBegin, SingleHook, SingleDlopen DEF SingleInv, Next, Step

\* In a program with one thread the hook never brings in a second libstdc++.
\* With two it may: the other thread's dlopen maps the system's between the
\* RTLD_NOLOAD probe and CDLL.
THEOREM OneCopyInOneThread == SingleThread /\ Spec => []OneCopy
  <1>. SUFFICES ASSUME SingleThread
                PROVE  Spec => []OneCopy
    OBVIOUS
  <1>1. SingleInv /\ [Next]_vars => SingleInv'
    BY SingleNext
  <1>2. SingleInv => OneCopy
    BY DEF SingleInv
  <1>. QED
    BY <1>1, <1>2, SingleInit, PTL DEF Spec

\* In a program with one thread, a hook that has disabled itself leaves a
\* libstdc++ at least the shipped one, or the user was told.
THEOREM ProtectedInOneThread == SingleThread /\ Spec => []ProtectedOrTold
  <1>. SUFFICES ASSUME SingleThread
                PROVE  Spec => []ProtectedOrTold
    OBVIOUS
  <1>1. SingleInv /\ [Next]_vars => SingleInv'
    BY SingleNext
  <1>2. SingleInv => ProtectedOrTold
    BY DEF SingleInv
  <1>. QED
    BY <1>1, <1>2, SingleInit, PTL DEF Spec
=============================================================================
