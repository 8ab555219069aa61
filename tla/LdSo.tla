-------------------------------- MODULE LdSo --------------------------------
(***************************************************************************)
(* A process whose executable names the audit library in DT_AUDIT.  ld.so  *)
(* is external: it is modelled as far as it drives the library, from the   *)
(* calls the library is written for and the flags it tests.                *)
(*                                                                         *)
(*   start     la_version has not been called                              *)
(*   startup   from LA_ACT_ADD to LA_ACT_CONSISTENT: LD_PRELOAD and the    *)
(*             dependencies of the executable are mapped                   *)
(*   running   the program runs and may call dlopen                        *)
(*   dead      the process was terminated by ld.so or by an ASSERT         *)
(***************************************************************************)
EXTENDS AuditLib

CONSTANTS
    DtPaths,              \* values of DT_RUNPATH and DT_RPATH to consider
    LibPath,              \* LD_LIBRARY_PATH, a sequence of candidates
    Config,               \* what /etc/ld.so.cache gives, likewise
    Default,              \* the system directories, likewise
    PathTargets,          \* paths LD_PRELOAD or dlopen may ask for
    MaxRequests           \* bound on the requests of one behaviour

ASSUME LdSoAssumption ==
    /\ DtPaths \subseteq Seq(Suffixed)
    /\ LibPath \in Seq(Suffixed)
    /\ Config \in Seq(Suffixed)
    /\ Default \in Seq(Suffixed)
    /\ PathTargets \subseteq Loc
    /\ MaxRequests \in Nat

VARIABLES
    phase,
    todo,      \* what is left to search for the current request
    asked,     \* how the current request names the library, or "none"
    loaded,    \* the libraries mapped, with the phase they were mapped in and
               \* how they were asked for
    requests   \* how many requests were begun

ldVars == <<phase, todo, asked, loaded, requests>>
vars == <<libVars, ldVars>>

Candidate == [loc : Loc, flag : Flags]

Flagged(s, f) == [i \in 1 .. Len(s) |-> [loc |-> s[i], flag |-> f]]

\* The order of a search by name.  DT_RPATH counts only without DT_RUNPATH,
\* and both carry LA_SER_RUNPATH.
SearchList ==
    (IF dt_runpath = <<>> THEN Flagged(dt_rpath, "RUNPATH") ELSE <<>>)
      \o Flagged(LibPath, "LIBPATH")
      \o Flagged(dt_runpath, "RUNPATH")
      \o Flagged(Config, "CONFIG")
      \o Flagged(Default, "DEFAULT")

Loadable(l)  == fs[l].kind \in {"lib", "bare", "broken"}
LoadedIn(ph) == {m.loc : m \in {n \in loaded : n.phase = ph}}

-----------------------------------------------------------------------------
Init ==
    /\ LibInit
    /\ dt_runpath \in DtPaths /\ dt_rpath \in DtPaths
    /\ phase = "start"
    /\ todo = <<>>
    /\ asked = "none"
    /\ loaded = {}
    /\ requests = 0

\* A failed ASSERT ends the process from inside the call.
AliveIn(ph) == IF returned' = Aborted THEN "dead" ELSE ph

CallLaVersion ==
    /\ phase = "start"
    /\ la_version
    /\ phase' = AliveIn("startup")
    /\ UNCHANGED <<todo, asked, loaded, requests>>

\* Only between requests, and nothing is pending then.
Idle == phase \in {"startup", "running"} /\ asked = "none"

CallLaActivity(flag) ==
    /\ Idle
    /\ la_activity(flag)
    /\ returned' = Nothing
    /\ UNCHANGED <<todo, asked, loaded, requests>>

LinkMapAdd == CallLaActivity("ADD") /\ UNCHANGED phase

\* An executable that needs libstdc++ has it by the time the map is consistent,
\* but a program may have none and dlopen a library that needs it later.
LinkMapConsistent == CallLaActivity("CONSISTENT") /\ phase' = "running"

Begin(how, list) ==
    /\ Idle
    /\ requests < MaxRequests
    /\ requests' = requests + 1
    /\ asked' = how
    /\ todo' = list
    /\ returned' = Nothing
    /\ UNCHANGED <<fs, dt_runpath, dt_rpath, shipped_glibcxx_version,
                   shipped_libstdcxx_path, mapped, recorded, phase, loaded>>

\* A library already mapped answers to the name and is not searched again.
\* (la_objsearch is first given the plain name, which has no "/" and passes.)
RequestByName == loaded = {} /\ Begin("name", SearchList)

RequestByPath ==
    \E l \in PathTargets : Begin("path", <<[loc |-> l, flag |-> "ORIG"]>>)

-----------------------------------------------------------------------------
Searching == asked # "none" /\ phase # "dead"

CallLaObjsearch ==
    /\ Searching /\ todo # <<>> /\ returned = Nothing
    /\ la_objsearch(todo[1].loc, todo[1].flag)
    /\ phase' = AliveIn(phase)
    /\ UNCHANGED <<todo, asked, loaded, requests>>

Answered == Searching /\ todo # <<>> /\ returned # Nothing

\* The rest of the search.
GoOn(rest) ==
    /\ todo' = rest
    /\ returned' = Nothing
    /\ UNCHANGED <<fs, dt_runpath, dt_rpath, shipped_glibcxx_version,
                   shipped_libstdcxx_path, mapped, recorded, phase, asked,
                   loaded, requests>>

\* A path that was vetted as asked for is vetted again when it is opened.
OpenVerify ==
    /\ Answered /\ returned # Null
    /\ todo[1].flag = "ORIG"
    /\ GoOn(<<[loc |-> returned.loc, flag |-> "OPEN"]>>)

\* A candidate was dropped by the library.  ld.so then reads an errno nothing
\* has set and may leave out what follows in the same list of directories.
DropCandidate ==
    /\ Answered /\ returned = Null
    /\ \E n \in 1 .. Len(todo) :
          /\ \A i \in 1 .. n : todo[i].flag = todo[1].flag
          /\ GoOn(SubSeq(todo, n + 1, Len(todo)))

Opening == Answered /\ returned # Null /\ todo[1].flag # "ORIG"

\* Absent, or an ELF file for another machine.
OpenRejected ==
    /\ Opening
    /\ fs[returned.loc].kind \in {"absent", "class", "foreign"}
    /\ GoOn(Tail(todo))

Finish(ph, mappings) ==
    /\ todo' = <<>>
    /\ asked' = "none"
    /\ returned' = Nothing
    /\ phase' = ph
    /\ loaded' = loaded \cup mappings
    /\ UNCHANGED <<fs, dt_runpath, dt_rpath, shipped_glibcxx_version,
                   shipped_libstdcxx_path, mapped, recorded, requests>>

OpenLoads ==
    /\ Opening /\ Loadable(returned.loc)
    /\ Finish(phase, {[loc |-> returned.loc, phase |-> phase, asked |-> asked,
                       suffixed |-> todo[1].loc \in Suffixed]})

\* The request fails: nothing is left to search, or the file opened is not an
\* ELF file at all.  A missing dependency ends a process that is starting; a
\* missing LD_PRELOAD entry and a failed dlopen do not.
RequestFails ==
    /\ Searching
    /\ \/ todo = <<>>
       \/ Opening /\ fs[returned.loc].kind = "text"
    /\ \/ phase = "startup" /\ Finish("dead", {})
       \/ (phase = "running" \/ asked = "path") /\ Finish(phase, {})

Next ==
    \/ CallLaVersion
    \/ LinkMapAdd \/ LinkMapConsistent
    \/ RequestByName \/ RequestByPath
    \/ CallLaObjsearch
    \/ OpenVerify \/ DropCandidate \/ OpenRejected \/ OpenLoads
    \/ RequestFails

Spec == Init /\ [][Next]_vars

\* ld.so is one sequential program: a request it began, it carries on with.
SearchStep ==
    \/ CallLaObjsearch
    \/ OpenVerify \/ DropCandidate \/ OpenRejected \/ OpenLoads
    \/ RequestFails

FairSpec == Spec /\ WF_vars(CallLaVersion) /\ WF_vars(SearchStep)

-----------------------------------------------------------------------------
TypeOK ==
    /\ LibTypeOK
    /\ phase \in {"start", "startup", "running", "dead"}
    /\ todo \in Seq(Candidate)
    /\ asked \in {"none", "name", "path"}
    /\ loaded \subseteq [loc : Loc, phase : {"startup", "running"},
                         asked : {"name", "path"}, suffixed : BOOLEAN]
    /\ requests \in 0 .. MaxRequests

\* Whatever ld.so is about to open under the name of the buffer, the buffer is
\* still mapped and holds the path of the shipped library (la_objsearch returns
\* the pointer, la_activity frees it).
NoDanglingName ==
    returned.from = "buffer" =>
        "path" \in mapped /\ returned.loc = shipped_libstdcxx_path

\* Once la_version recorded a shipped version, no libstdc++ older than it is
\* mapped while the program starts (the la_objsearch comment: loaded ONLY if
\* greater than or equal to the shipped version).
NeverBelowShipped ==
    recorded # Invalid =>
        \A m \in loaded :
            m.phase = "startup" /\ m.suffixed =>
                fs[m.loc].version >= recorded

\* A candidate the library lets through never lowers the version to beat, and
\* nothing re-arms or disarms the comparison once la_version has returned.
RatchetNeverFalls ==
    [][phase # "start" =>
         /\ shipped_glibcxx_version' >= shipped_glibcxx_version
         /\ shipped_glibcxx_version = Invalid <=> shipped_glibcxx_version' = Invalid
      ]_vars
=============================================================================
