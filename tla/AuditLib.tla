------------------------------ MODULE AuditLib ------------------------------
(***************************************************************************)
(* The rtld-audit library of src/load_libstdcxx/audit.c: its static state  *)
(* and its three entry points, la_version, la_objsearch and la_activity.   *)
(* An entry point is an action that leaves what it hands back to ld.so in  *)
(* returned.  The module LdSo calls them in the order ld.so does.          *)
(*                                                                         *)
(* A path is a location of Loc and fs says what open() finds there.  Of a  *)
(* file only the facts the two programs tell apart are kept.               *)
(***************************************************************************)
EXTENDS Integers, Sequences

CONSTANTS
    Loc,          \* paths of files
    Suffixed,     \* those that end in "/libstdc++.so.6"
    Versions,     \* packed GLIBCXX versions, 0x00AABBCC, never 0
    Invalid,      \* invalid_glibcxx_version, 0xDEADBEEF
    PlainKinds,   \* kinds of file without a readable version, see below
    VersionKinds, \* kinds of file with one
    NULL,         \* the null pointer
    MmapMayFail   \* can mmap return MAP_FAILED?

(***************************************************************************)
(*   absent   open() fails                                                 *)
(*   text     not an ELF file, or one that cannot be mapped                *)
(*   bare     an ELF library with no GLIBCXX_ version                      *)
(*   class    an ELF file of the other class (32 bit against 64)           *)
(*   broken   an ELF library with section headers an ASSERT rejects        *)
(*   lib      a libstdc++ this machine can load                            *)
(*   foreign  a libstdc++ of the right class for another machine           *)
(***************************************************************************)
ASSUME KindAssumption ==
    /\ PlainKinds \subseteq {"absent", "text", "bare", "class", "broken"}
    /\ VersionKinds \subseteq {"lib", "foreign"}
    /\ "absent" \in PlainKinds

ASSUME LibAssumption ==
    /\ Suffixed \subseteq Loc
    /\ NULL \notin Loc
    /\ Versions \subseteq Nat \ {0}
    /\ Invalid \in Nat \ {0}
    /\ \A v \in Versions : v < Invalid
    /\ MmapMayFail \in BOOLEAN

File == [kind : PlainKinds, version : {0}]
            \cup [kind : VersionKinds, version : Versions]

\* The value of the flag argument of la_objsearch; "OPEN" is the 0 that
\* open_verify passes for a path it was given.
Flags == {"ORIG", "LIBPATH", "RUNPATH", "CONFIG", "DEFAULT", "OPEN"}

VARIABLES
    fs,                      \* [Loc -> File]
    dt_runpath, dt_rpath,    \* Seq(Loc): the candidate of each section, <<>>
                             \* when the executable has no such entry
    shipped_glibcxx_version, \* static: the version to beat
    shipped_libstdcxx_path,  \* static: the path buffer, or NULL
    mapped,                  \* memory this library has mmapped and not unmapped
    returned,                \* what the last entry point handed back
    recorded                 \* history: the version la_version recorded

libVars == <<fs, dt_runpath, dt_rpath, shipped_glibcxx_version,
             shipped_libstdcxx_path, mapped, returned, recorded>>

Nothing   == [from |-> "nothing", loc |-> NULL]  \* no call is pending
Current   == [from |-> "current", loc |-> NULL]  \* la_version: LAV_CURRENT
Null      == [from |-> "null",    loc |-> NULL]  \* la_objsearch: (char*)NULL
Aborted   == [from |-> "abort",   loc |-> NULL]  \* a failed ASSERT
Name(l)   == [from |-> "name",    loc |-> l]     \* the name ld.so passed in
Buffer(l) == [from |-> "buffer",  loc |-> l]     \* shipped_libstdcxx_path

Returns == {Nothing, Current, Null, Aborted}
             \cup {Name(l) : l \in Loc} \cup {Buffer(l) : l \in Loc}

-----------------------------------------------------------------------------
Openable(l) == fs[l].kind # "absent"

\* What get_libstdcxx_version may answer on an open file: an error code and,
\* on success, the version.  On an error the caller's variable is untouched.
Read(error, v) == [error |-> error, version |-> v]

get_libstdcxx_version(l) ==
    {r \in [error : {"success", "fatal", "non_fatal", "abort"},
            version : Versions \cup {0}] :
        \/ r = Read("fatal", 0) /\ (MmapMayFail \/ fs[l].kind \in {"text", "bare"})
        \/ r = Read("non_fatal", 0) /\ fs[l].kind = "class"
        \/ r = Read("abort", 0) /\ fs[l].kind = "broken"
        \/ r = Read("success", fs[l].version) /\ fs[l].kind \in {"lib", "foreign"}}

\* find_libstdcxx_from_dt_path: the first section whose candidate opens ...
Finds(dt, l) ==
    \E i \in DOMAIN dt :
        /\ dt[i] = l
        /\ Openable(l)
        /\ \A j \in 1 .. i - 1 : ~Openable(dt[j])

\* ... or an error, when none does or its buffer cannot be allocated.
FindsNone(dt) ==
    \/ \A i \in DOMAIN dt : ~Openable(dt[i])
    \/ MmapMayFail

\* la_version looks in DT_RUNPATH and, if that gives nothing, in DT_RPATH.
FindsShipped(l) ==
    \/ Finds(dt_runpath, l)
    \/ FindsNone(dt_runpath) /\ Finds(dt_rpath, l)

-----------------------------------------------------------------------------
LibInit ==
    /\ fs \in [Loc -> File]
    /\ shipped_glibcxx_version = Invalid
    /\ shipped_libstdcxx_path = NULL
    /\ mapped = {}
    /\ returned = Nothing
    /\ recorded = Invalid

\* The library found nothing to protect: every later call is a pass-through.
StayDisarmed(left) ==
    /\ mapped' = left
    /\ returned' = Current
    /\ UNCHANGED <<shipped_glibcxx_version, shipped_libstdcxx_path, recorded>>

NoOrigin == MmapMayFail /\ StayDisarmed({})

\* The copy of the executable's path is not released on this return.
NoDtPath == dt_runpath = <<>> /\ dt_rpath = <<>> /\ StayDisarmed({"origin"})

\* dirname may answer "." from static storage, and munmap(ORIGIN) then misses
\* the copy: left is what remains mapped of it.
NoShipped ==
    /\ dt_runpath # <<>> \/ dt_rpath # <<>>
    /\ FindsNone(dt_runpath) /\ FindsNone(dt_rpath)
    /\ \E left \in {{}, {"origin"}} : StayDisarmed(left)

RecordShipped ==
    \E l \in Loc : FindsShipped(l) /\
        \E r \in get_libstdcxx_version(l), left \in {{}, {"origin"}} :
            \/ /\ r.error = "success"
               /\ shipped_glibcxx_version' = r.version
               /\ shipped_libstdcxx_path' = l
               /\ mapped' = left \cup {"path"}
               /\ returned' = Current
               /\ recorded' = r.version
            \/ /\ r.error \in {"fatal", "non_fatal"}
               /\ StayDisarmed(left)
            \/ /\ r.error = "abort"
               /\ returned' = Aborted
               /\ mapped' = {"origin", "path"}
               /\ UNCHANGED <<shipped_glibcxx_version, recorded>>
               /\ shipped_libstdcxx_path' = l

la_version ==
    /\ NoOrigin \/ NoDtPath \/ NoShipped \/ RecordShipped
    /\ UNCHANGED <<fs, dt_runpath, dt_rpath>>

-----------------------------------------------------------------------------
Disarmed ==
    shipped_glibcxx_version = Invalid \/ shipped_libstdcxx_path = NULL

\* The answers that leave the static state alone.
Answer(r) ==
    /\ returned' = r
    /\ UNCHANGED <<shipped_glibcxx_version>>

\* Faulty variants, named Bug...: each is an error one could make in the
\* definition that follows it, and breaks one of the properties.
BugStoreFirst(l, v) ==
    /\ shipped_glibcxx_version' = IF v = 0 THEN shipped_glibcxx_version ELSE v
    /\ returned' = IF v < shipped_glibcxx_version
                   THEN Buffer(shipped_libstdcxx_path) ELSE Name(l)

BugNoComparison(l, v) == shipped_glibcxx_version' = v /\ returned' = Name(l)

BugSkipLower(l, v) ==
    IF v < shipped_glibcxx_version
    THEN Answer(Null)
    ELSE shipped_glibcxx_version' = v /\ returned' = Name(l)

BugDropsHigher(l, v) ==
    IF v < shipped_glibcxx_version
    THEN Answer(Buffer(shipped_libstdcxx_path))
    ELSE shipped_glibcxx_version' = v /\ returned' = Null

\* Compare the candidate with the version to beat.  After a fatal error the
\* candidate's version is the 0 it was initialised with.
Compare(l, v) ==
    IF v < shipped_glibcxx_version
    THEN Answer(Buffer(shipped_libstdcxx_path))
    ELSE /\ shipped_glibcxx_version' = v
         /\ returned' = Name(l)

BugFatalPasses(l) ==
    \E r \in get_libstdcxx_version(l) :
        \/ r.error = "success" /\ Compare(l, r.version)
        \/ r.error = "fatal" /\ Answer(Name(l))
        \/ r.error = "non_fatal" /\ Answer(Null)
        \/ r.error = "abort" /\ Answer(Aborted)

Examine(l) ==
    \E r \in get_libstdcxx_version(l) :
        \/ r.error \in {"success", "fatal"} /\ Compare(l, r.version)
        \/ r.error = "non_fatal" /\ Answer(Null)
        \/ r.error = "abort" /\ Answer(Aborted)

BugIgnoresFlag(l, flag) ==
    /\ IF Disarmed \/ l \notin Suffixed \/ ~Openable(l)
       THEN Answer(Name(l)) ELSE Examine(l)
    /\ UNCHANGED <<fs, dt_runpath, dt_rpath, shipped_libstdcxx_path, mapped,
                   recorded>>

BugFlagBeforeExit(l, flag) ==
    /\ \/ flag = "RUNPATH" /\ l \in Suffixed /\ Answer(Null)
       \/ /\ flag # "RUNPATH" \/ l \notin Suffixed
          /\ IF Disarmed \/ l \notin Suffixed \/ ~Openable(l)
             THEN Answer(Name(l)) ELSE Examine(l)
    /\ UNCHANGED <<fs, dt_runpath, dt_rpath, shipped_libstdcxx_path, mapped,
                   recorded>>

la_objsearch(l, flag) ==
    /\ \/ (Disarmed \/ l \notin Suffixed) /\ Answer(Name(l))
       \/ /\ ~Disarmed /\ l \in Suffixed
          /\ \/ flag = "RUNPATH" /\ Answer(Null)
             \/ flag # "RUNPATH" /\ ~Openable(l) /\ Answer(Name(l))
             \/ flag # "RUNPATH" /\ Openable(l) /\ Examine(l)
    /\ UNCHANGED <<fs, dt_runpath, dt_rpath, shipped_libstdcxx_path, mapped,
                   recorded>>

BugPointerKept(flag) ==
    /\ mapped' = IF flag = "CONSISTENT" THEN mapped \ {"path"} ELSE mapped
    /\ UNCHANGED <<fs, dt_runpath, dt_rpath, shipped_glibcxx_version,
                   shipped_libstdcxx_path, recorded>>

la_activity(flag) ==
    /\ IF flag = "CONSISTENT" /\ shipped_libstdcxx_path # NULL
       THEN /\ mapped' = mapped \ {"path"}
            /\ shipped_libstdcxx_path' = NULL
       ELSE UNCHANGED <<mapped, shipped_libstdcxx_path>>
    /\ UNCHANGED <<fs, dt_runpath, dt_rpath, shipped_glibcxx_version, recorded>>

-----------------------------------------------------------------------------
LibTypeOK ==
    /\ fs \in [Loc -> File]
    /\ dt_runpath \in Seq(Loc) /\ dt_rpath \in Seq(Loc)
    /\ shipped_glibcxx_version \in Versions \cup {Invalid}
    /\ shipped_libstdcxx_path \in Loc \cup {NULL}
    /\ mapped \subseteq {"origin", "path"}
    /\ returned \in Returns
    /\ recorded \in Versions \cup {Invalid}

\* The path buffer is owned by the static pointer: it is mapped exactly while
\* the pointer is set, so that la_activity frees it once and la_objsearch never
\* hands out freed memory (la_version, la_activity, and the ownership note of
\* find_libstdcxx_from_dt_path).
Ownership == "path" \in mapped <=> shipped_libstdcxx_path # NULL
=============================================================================
