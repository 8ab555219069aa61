----------------------------- MODULE LdSoProofs -----------------------------
(***************************************************************************)
(* Invariance proofs for LdSo: the type invariant, the ownership of the    *)
(* path buffer, and that startup maps nothing older than what is shipped.  *)
(* Then what a search finds, for every search path, every set of files and *)
(* any number of requests: with the library unarmed, what ld.so finds      *)
(* alone; with the library armed, what LibstdcxxChoice promises.           *)
(***************************************************************************)
EXTENDS LdSoChoice, SequenceTheorems, TLAPS

\* Before la_version the statics have their initial values.
Fresh ==
    phase = "start" =>
        /\ recorded = Invalid /\ shipped_glibcxx_version = Invalid
        /\ shipped_libstdcxx_path = NULL /\ mapped = {} /\ loaded = {}
        /\ returned = Nothing /\ asked = "none"

\* A request under way waits for la_objsearch, or has its answer.
Pending ==
    /\ returned = Aborted => phase = "dead"
    /\ asked # "none" => returned # Current

\* What the path buffer names is what la_version recorded.
PathIsShipped ==
    recorded # Invalid /\ shipped_libstdcxx_path # NULL =>
        /\ fs[shipped_libstdcxx_path].kind \in {"lib", "foreign"}
        /\ fs[shipped_libstdcxx_path].version = recorded

\* Until the map is consistent the library stays armed.
ArmedThroughStartup ==
    phase = "startup" /\ recorded # Invalid =>
        /\ ~Disarmed
        /\ shipped_glibcxx_version >= recorded

\* What la_objsearch hands out during startup is not an older library.
Vetted ==
    /\ phase = "startup" /\ recorded # Invalid
    /\ returned.from \in {"name", "buffer"} /\ todo[1].loc \in Suffixed
    => (Loadable(returned.loc) => fs[returned.loc].version >= recorded)

IInv ==
    /\ TypeOK /\ Ownership /\ NoDanglingName /\ NeverBelowShipped
    /\ Fresh /\ Pending /\ PathIsShipped /\ ArmedThroughStartup /\ Vetted

-----------------------------------------------------------------------------
LEMMA FlaggedType ==
    ASSUME NEW s \in Seq(Loc), NEW f \in Flags
    PROVE  Flagged(s, f) \in Seq(Candidate)
  <1>1. Len(s) \in Nat
    OBVIOUS
  <1>2. \A i \in 1 .. Len(s) : [loc |-> s[i], flag |-> f] \in Candidate
    BY DEF Candidate
  <1>. QED
    BY <1>1, <1>2, IsASeq DEF Flagged

LEMMA SearchListType ==
    ASSUME dt_runpath \in Seq(Loc), dt_rpath \in Seq(Loc)
    PROVE  SearchList \in Seq(Candidate)
  <1>1. LibPath \in Seq(Loc) /\ Config \in Seq(Loc) /\ Default \in Seq(Loc)
    BY LdSoAssumption, LibAssumption
  <1>2. /\ Flagged(dt_rpath, "RUNPATH") \in Seq(Candidate)
        /\ Flagged(LibPath, "LIBPATH") \in Seq(Candidate)
        /\ Flagged(dt_runpath, "RUNPATH") \in Seq(Candidate)
        /\ Flagged(Config, "CONFIG") \in Seq(Candidate)
        /\ Flagged(Default, "DEFAULT") \in Seq(Candidate)
    BY <1>1, FlaggedType DEF Flags
  <1>. QED
    BY <1>2, ConcatProperties, EmptySeq DEF SearchList

LEMMA InvInit == Init => IInv
  <1>. SUFFICES ASSUME Init PROVE IInv
    OBVIOUS
  <1>. USE DEF Init, LibInit
  <1>1. TypeOK
    BY LdSoAssumption, LibAssumption, KindAssumption, EmptySeq, SMTT(30)
       DEF TypeOK, LibTypeOK, Returns
  <1>. QED
    BY <1>1, LibAssumption DEF IInv, Ownership, NoDanglingName, NeverBelowShipped, Fresh, Pending,
       PathIsShipped, Current, Aborted, ArmedThroughStartup, Vetted, Nothing

-----------------------------------------------------------------------------
(***************************************************************************)
(* Three facts about the entry points, from which the steps follow.        *)
(***************************************************************************)

\* get_libstdcxx_version answers with a version only for a library it read.
LEMMA ReadProperties ==
    ASSUME TypeOK, NEW l \in Loc, NEW r \in get_libstdcxx_version(l)
    PROVE  /\ r.error \in {"success", "fatal", "non_fatal", "abort"}
           /\ r.error = "success" =>
                /\ fs[l].kind \in {"lib", "foreign"}
                /\ r.version = fs[l].version
                /\ r.version \in Versions
           /\ r.error # "success" => r.version = 0
  <1>1. fs[l] \in File
    BY DEF TypeOK, LibTypeOK
  <1>2. /\ fs[l].kind \in PlainKinds \cup VersionKinds
        /\ fs[l].kind \in {"lib", "foreign"} => fs[l].version \in Versions
    BY <1>1, KindAssumption DEF File
  <1>. QED
    BY <1>2, KindAssumption DEF get_libstdcxx_version, Read

\* la_version starts from the initial statics and only runs once.
LEMMA LaVersionProperties ==
    ASSUME IInv, phase = "start", la_version
    PROVE  /\ shipped_glibcxx_version' \in Versions \cup {Invalid}
           /\ shipped_libstdcxx_path' \in Loc \cup {NULL}
           /\ mapped' \subseteq {"origin", "path"}
           /\ returned' \in {Current, Aborted}
           /\ recorded' \in Versions \cup {Invalid}
           /\ "path" \in mapped' <=> shipped_libstdcxx_path' # NULL
           /\ recorded' # Invalid =>
                /\ shipped_glibcxx_version' = recorded'
                /\ shipped_libstdcxx_path' # NULL
                /\ fs[shipped_libstdcxx_path'].kind \in {"lib", "foreign"}
                /\ fs[shipped_libstdcxx_path'].version = recorded'
           /\ recorded' = Invalid => shipped_glibcxx_version' = Invalid
           /\ UNCHANGED <<fs, dt_runpath, dt_rpath>>
  <1>. USE LibAssumption
  <1>a. /\ recorded = Invalid /\ shipped_glibcxx_version = Invalid
        /\ shipped_libstdcxx_path = NULL /\ TypeOK
    BY DEF IInv, Fresh
  <1>1. CASE NoOrigin
    BY <1>1, <1>a DEF NoOrigin, StayDisarmed, la_version
  <1>2. CASE NoDtPath
    BY <1>2, <1>a DEF NoDtPath, StayDisarmed, la_version
  <1>3. CASE NoShipped
    BY <1>3, <1>a DEF NoShipped, StayDisarmed, la_version
  <1>4. CASE RecordShipped
    <2>0. PICK l \in Loc : \E r \in get_libstdcxx_version(l), left \in {{}, {"origin"}} :
              \/ /\ r.error = "success"
                 /\ shipped_glibcxx_version' = r.version
                 /\ shipped_libstdcxx_path' = l
                 /\ mapped' = left \cup {"path"}
                 /\ returned' = Current
                 /\ recorded' = r.version
              \/ /\ r.error \in {"fatal", "non_fatal"}
                 /\ StayDisarmed(left)
              \/ /\ r.error = "abort"
                 /\ returned' = Aborted
                 /\ mapped' = {"origin", "path"}
                 /\ UNCHANGED <<shipped_glibcxx_version, recorded>>
                 /\ shipped_libstdcxx_path' = l
      BY <1>4 DEF RecordShipped
    <2>1. PICK r \in get_libstdcxx_version(l), left \in {{}, {"origin"}} :
              \/ /\ r.error = "success"
                 /\ shipped_glibcxx_version' = r.version
                 /\ shipped_libstdcxx_path' = l
                 /\ mapped' = left \cup {"path"}
                 /\ returned' = Current
                 /\ recorded' = r.version
              \/ /\ r.error \in {"fatal", "non_fatal"}
                 /\ StayDisarmed(left)
              \/ /\ r.error = "abort"
                 /\ returned' = Aborted
                 /\ mapped' = {"origin", "path"}
                 /\ UNCHANGED <<shipped_glibcxx_version, recorded>>
                 /\ shipped_libstdcxx_path' = l
      BY <2>0
    <2>2. /\ r.error = "success" =>
                /\ fs[l].kind \in {"lib", "foreign"}
                /\ r.version = fs[l].version
                /\ r.version \in Versions
      BY <1>a, ReadProperties
    <2>. QED
      BY <2>1, <2>2, <1>a DEF StayDisarmed, la_version
  <1>. QED
    BY <1>1, <1>2, <1>3, <1>4 DEF la_version

\* la_objsearch lets a candidate through, substitutes the shipped path, drops
\* the candidate, or aborts; the version to beat never falls.
LEMMA LaObjsearchProperties ==
    ASSUME TypeOK, NEW l \in Loc, NEW flag \in Flags, la_objsearch(l, flag)
    PROVE  /\ returned' \in {Name(l), Buffer(shipped_libstdcxx_path), Null, Aborted}
           /\ shipped_glibcxx_version' \in Versions \cup {Invalid}
           /\ shipped_glibcxx_version' >= shipped_glibcxx_version
           /\ shipped_glibcxx_version = Invalid <=> shipped_glibcxx_version' = Invalid
           /\ returned' = Buffer(shipped_libstdcxx_path) => ~Disarmed
           /\ returned' = Name(l) /\ ~Disarmed /\ l \in Suffixed =>
                \/ ~Openable(l)
                \/ fs[l].version >= shipped_glibcxx_version
           /\ UNCHANGED <<fs, dt_runpath, dt_rpath, shipped_libstdcxx_path, mapped,
                          recorded>>
  <1>. USE LibAssumption
  <1>a. shipped_glibcxx_version \in Versions \cup {Invalid}
    BY DEF TypeOK, LibTypeOK
  <1>b. shipped_glibcxx_version \in Nat
    BY <1>a
  <1>c. UNCHANGED <<fs, dt_runpath, dt_rpath, shipped_libstdcxx_path, mapped, recorded>>
    BY DEF la_objsearch
  <1>1. CASE (Disarmed \/ l \notin Suffixed) /\ Answer(Name(l))
    BY <1>1, <1>a, <1>b, <1>c DEF Answer, Name, Buffer
  <1>2. CASE flag = "RUNPATH" /\ Answer(Null)
    BY <1>2, <1>a, <1>b, <1>c DEF Answer, Name, Buffer, Null
  <1>3. CASE ~Openable(l) /\ Answer(Name(l))
    BY <1>3, <1>a, <1>b, <1>c DEF Answer, Name, Buffer
  <1>4. CASE ~Disarmed /\ Examine(l)
    <2>1. PICK r \in get_libstdcxx_version(l) :
              \/ r.error \in {"success", "fatal"} /\ Compare(l, r.version)
              \/ r.error = "non_fatal" /\ Answer(Null)
              \/ r.error = "abort" /\ Answer(Aborted)
      BY <1>4 DEF Examine
    <2>2. CASE r.error \in {"success", "fatal"} /\ Compare(l, r.version)
      <3>1. /\ r.version \in Nat
            /\ r.version >= shipped_glibcxx_version =>
                  r.version \in Versions /\ r.version = fs[l].version
        <4>1. shipped_glibcxx_version > 0
          BY <1>a
        <4>2. CASE r.error = "success"
          BY <4>2, ReadProperties
        <4>3. CASE r.error = "fatal"
          BY <4>1, <4>3, <1>b, ReadProperties
        <4>. QED
          BY <2>2, <4>2, <4>3
      <3>2. shipped_glibcxx_version # Invalid
        BY <1>4 DEF Disarmed
      <3>3. CASE r.version < shipped_glibcxx_version
        BY <3>3, <2>2, <1>4, <1>a, <1>b, <1>c DEF Compare, Answer, Name, Buffer
      <3>4. CASE r.version >= shipped_glibcxx_version
        <4>1. shipped_glibcxx_version' = r.version /\ returned' = Name(l)
          BY <3>1, <3>4, <2>2, <1>b DEF Compare
        <4>2. r.version \in Versions /\ r.version = fs[l].version
          BY <3>1, <3>4
        <4>3. r.version # Invalid
          BY <4>2
        <4>. QED
          BY <4>1, <4>2, <4>3, <3>2, <3>4, <1>c DEF Name, Buffer
      <3>. QED
        BY <3>1, <3>3, <3>4, <1>b
    <2>3. CASE Answer(Null) \/ Answer(Aborted)
      BY <2>3, <1>a, <1>b, <1>c DEF Answer, Name, Buffer, Null, Aborted
    <2>. QED
      BY <2>1, <2>2, <2>3
  <1>. QED
    BY <1>1, <1>2, <1>3, <1>4 DEF la_objsearch

-----------------------------------------------------------------------------
(***************************************************************************)
(* The invariant is inductive: one step per action.                        *)
(***************************************************************************)
LEMMA InvNext ==
    ASSUME IInv, [Next]_vars
    PROVE  IInv'
  <1>. USE LibAssumption DEF IInv
  <1>1. CASE CallLaVersion
    <2>1. /\ shipped_glibcxx_version' \in Versions \cup {Invalid}
          /\ shipped_libstdcxx_path' \in Loc \cup {NULL}
          /\ mapped' \subseteq {"origin", "path"}
          /\ returned' \in {Current, Aborted}
          /\ recorded' \in Versions \cup {Invalid}
          /\ "path" \in mapped' <=> shipped_libstdcxx_path' # NULL
          /\ recorded' # Invalid =>
               /\ shipped_glibcxx_version' = recorded'
               /\ shipped_libstdcxx_path' # NULL
               /\ fs[shipped_libstdcxx_path'].kind \in {"lib", "foreign"}
               /\ fs[shipped_libstdcxx_path'].version = recorded'
          /\ UNCHANGED <<fs, dt_runpath, dt_rpath>>
      BY <1>1, LaVersionProperties DEF CallLaVersion
    <2>2. /\ phase = "start" /\ phase' \in {"startup", "dead"}
          /\ returned' = Aborted => phase' = "dead"
          /\ UNCHANGED <<todo, asked, loaded, requests>>
      BY <1>1 DEF CallLaVersion, AliveIn
    <2>3. TypeOK'
      BY <2>1, <2>2 DEF TypeOK, LibTypeOK, Returns
    <2>4. loaded' = {} /\ asked' = "none"
      BY <2>2 DEF Fresh
    <2>. QED
      BY <2>1, <2>2, <2>3, <2>4 DEF Ownership, NoDanglingName, NeverBelowShipped, Fresh, Pending,
         PathIsShipped, ArmedThroughStartup, Vetted, Disarmed, Current, Aborted
  <1>2. CASE LinkMapAdd
    <2>1. /\ UNCHANGED <<fs, dt_runpath, dt_rpath, shipped_glibcxx_version, recorded,
                         todo, asked, loaded, requests, phase, mapped,
                         shipped_libstdcxx_path>>
          /\ returned' = Nothing
      BY <1>2 DEF LinkMapAdd, CallLaActivity, la_activity
    <2>2. TypeOK'
      BY <2>1 DEF TypeOK, LibTypeOK, Returns
    <2>. QED
      BY <2>1, <2>2 DEF Ownership, NoDanglingName, NeverBelowShipped, Fresh, Pending,
         PathIsShipped, ArmedThroughStartup, Vetted, Disarmed, Nothing, Current, Aborted
  <1>3. CASE LinkMapConsistent
    <2>1. /\ UNCHANGED <<fs, dt_runpath, dt_rpath, shipped_glibcxx_version, recorded,
                         todo, asked, loaded, requests>>
          /\ returned' = Nothing /\ phase' = "running"
          /\ \/ UNCHANGED <<mapped, shipped_libstdcxx_path>>
             \/ mapped' = mapped \ {"path"} /\ shipped_libstdcxx_path' = NULL
      BY <1>3 DEF LinkMapConsistent, CallLaActivity, la_activity
    <2>2. TypeOK'
      BY <2>1 DEF TypeOK, LibTypeOK, Returns
    <2>. QED
      BY <2>1, <2>2 DEF Ownership, NoDanglingName, NeverBelowShipped, Fresh, Pending,
         PathIsShipped, ArmedThroughStartup, Vetted, Disarmed, Nothing, Current, Aborted
  <1>4. CASE RequestByName \/ RequestByPath
    <2>1. /\ UNCHANGED <<fs, dt_runpath, dt_rpath, shipped_glibcxx_version, recorded,
                         mapped, shipped_libstdcxx_path, phase, loaded>>
          /\ returned' = Nothing /\ phase # "start"
          /\ asked' \in {"name", "path"}
          /\ requests < MaxRequests /\ requests' = requests + 1
      BY <1>4 DEF RequestByName, RequestByPath, Begin, Idle
    <2>2. todo' \in Seq(Candidate)
      <3>1. CASE RequestByName
        BY <3>1, SearchListType DEF RequestByName, Begin, TypeOK, LibTypeOK
      <3>2. CASE RequestByPath
        BY <3>2, LdSoAssumption DEF RequestByPath, Begin, Candidate, Flags
      <3>. QED
        BY <1>4, <3>1, <3>2
    <2>3. requests' \in 0 .. MaxRequests
      BY <2>1, LdSoAssumption DEF TypeOK
    <2>4. TypeOK'
      BY <2>1, <2>2, <2>3 DEF TypeOK, LibTypeOK, Returns
    <2>. QED
      BY <2>1, <2>4 DEF Ownership, NoDanglingName, NeverBelowShipped, Fresh, Pending,
         PathIsShipped, ArmedThroughStartup, Vetted, Disarmed, Nothing, Current, Aborted
  <1>5. CASE CallLaObjsearch
    <2>1. todo \in Seq(Candidate) /\ todo # <<>> /\ returned = Nothing
          /\ phase # "dead" /\ UNCHANGED <<todo, asked, loaded, requests>>
      BY <1>5 DEF CallLaObjsearch, Searching, TypeOK
    <2>2. PICK l \in Loc, flag \in Flags :
              l = todo[1].loc /\ la_objsearch(l, flag)
      <3>1. todo[1] \in Candidate
        BY <2>1
      <3>2. todo[1].loc \in Loc /\ todo[1].flag \in Flags
        BY <3>1 DEF Candidate
      <3>. QED
        BY <1>5, <3>2 DEF CallLaObjsearch
    <2>3. /\ returned' \in {Name(l), Buffer(shipped_libstdcxx_path), Null, Aborted}
          /\ shipped_glibcxx_version' \in Versions \cup {Invalid}
          /\ shipped_glibcxx_version' >= shipped_glibcxx_version
          /\ shipped_glibcxx_version = Invalid <=> shipped_glibcxx_version' = Invalid
          /\ returned' = Buffer(shipped_libstdcxx_path) => ~Disarmed
          /\ returned' = Name(l) /\ ~Disarmed /\ l \in Suffixed =>
               \/ ~Openable(l)
               \/ fs[l].version >= shipped_glibcxx_version
          /\ UNCHANGED <<fs, dt_runpath, dt_rpath, shipped_libstdcxx_path, mapped,
                         recorded>>
      BY <2>2, LaObjsearchProperties
    <2>4. /\ phase' \in {phase, "dead"} /\ phase' # "start"
          /\ phase' = "startup" => phase = "startup"
          /\ returned' = Aborted => phase' = "dead"
      BY <1>5 DEF CallLaObjsearch, AliveIn, Searching, Fresh
    <2>5. TypeOK'
      BY <2>1, <2>2, <2>3, <2>4 DEF TypeOK, LibTypeOK, Returns, Disarmed
    <2>6. NoDanglingName'
      BY <2>2, <2>3 DEF NoDanglingName, Ownership, Disarmed, Name, Buffer, Null, Aborted
    <2>7. ArmedThroughStartup'
      BY <2>3, <2>4 DEF ArmedThroughStartup, Disarmed, TypeOK, LibTypeOK
    <2>8. Vetted'
      <3>. SUFFICES ASSUME phase' = "startup", recorded # Invalid,
                           returned'.from \in {"name", "buffer"},
                           l \in Suffixed, Loadable(returned'.loc)
                    PROVE  fs[returned'.loc].version >= recorded
        BY <2>1, <2>2, <2>3 DEF Vetted, Loadable
      <3>1. ~Disarmed /\ shipped_glibcxx_version >= recorded
        BY <2>4 DEF ArmedThroughStartup
      <3>2. CASE returned' = Name(l)
        <4>1. returned'.loc = l
          BY <3>2 DEF Name
        <4>2. fs[l].version >= shipped_glibcxx_version
          BY <2>3, <3>1, <3>2, <4>1 DEF Loadable, Openable
        <4>3. fs[l].version \in Nat
          <5>1. fs[l] \in File
            BY DEF TypeOK, LibTypeOK
          <5>2. CASE fs[l] \in [kind : PlainKinds, version : {0}]
            BY <5>2
          <5>3. CASE fs[l] \in [kind : VersionKinds, version : Versions]
            <6>1. fs[l].version \in Versions
              BY <5>3
            <6>. QED
              BY <6>1
          <5>. QED
            BY <5>1, <5>2, <5>3 DEF File
        <4>4. shipped_glibcxx_version \in Nat /\ recorded \in Nat
          BY DEF TypeOK, LibTypeOK
        <4>. QED
          BY <3>1, <4>1, <4>2, <4>3, <4>4
      <3>3. CASE returned' = Buffer(shipped_libstdcxx_path)
        <4>1. fs[shipped_libstdcxx_path].version = recorded
          BY <3>1 DEF PathIsShipped, Disarmed
        <4>2. recorded \in Nat
          BY DEF TypeOK, LibTypeOK
        <4>. QED
          BY <3>3, <4>1, <4>2 DEF Buffer
      <3>. QED
        BY <2>3, <3>2, <3>3 DEF Null, Aborted
    <2>9. Pending'
      BY <2>3, <2>4 DEF Pending, Name, Buffer, Null, Aborted, Current
    <2>. QED
      BY <2>1, <2>3, <2>4, <2>5, <2>6, <2>7, <2>8, <2>9
         DEF Ownership, NeverBelowShipped, Fresh, PathIsShipped
  <1>6. CASE OpenVerify \/ DropCandidate \/ OpenRejected
    <2>1. /\ todo \in Seq(Candidate) /\ todo # <<>>
          /\ returned \in Returns \ {Nothing, Current, Aborted}
          /\ phase # "start"
      BY <1>6 DEF OpenVerify, DropCandidate, OpenRejected, Opening, Answered, Searching,
         TypeOK, LibTypeOK, Pending, Fresh
    <2>2. /\ UNCHANGED <<fs, dt_runpath, dt_rpath, shipped_glibcxx_version, recorded,
                         mapped, shipped_libstdcxx_path, phase, asked, loaded,
                         requests>>
          /\ returned' = Nothing
      BY <1>6 DEF OpenVerify, DropCandidate, OpenRejected, GoOn
    <2>3. todo' \in Seq(Candidate)
      <3>1. CASE OpenVerify
        <4>1. returned.loc \in Loc
          BY <2>1, <3>1 DEF OpenVerify, Returns, Name, Buffer
        <4>. QED
          BY <3>1, <4>1 DEF OpenVerify, GoOn, Candidate, Flags
      <3>2. CASE DropCandidate
        <4>1. PICK n \in 1 .. Len(todo) : todo' = SubSeq(todo, n + 1, Len(todo))
          BY <3>2 DEF DropCandidate, GoOn
        <4>2. n + 1 \in 1 .. Len(todo) + 1 /\ Len(todo) \in Nat
          BY <2>1
        <4>. QED
          BY <2>1, <4>1, <4>2, SubSeqProperties
      <3>3. CASE OpenRejected
        BY <2>1, <3>3, HeadTailProperties DEF OpenRejected, GoOn
      <3>. QED
        BY <1>6, <3>1, <3>2, <3>3
    <2>4. TypeOK'
      BY <2>2, <2>3 DEF TypeOK, LibTypeOK, Returns
    <2>. QED
      BY <2>1, <2>2, <2>4 DEF Ownership, NoDanglingName, NeverBelowShipped, Fresh, Pending,
         PathIsShipped, ArmedThroughStartup, Vetted, Disarmed, Nothing, Current, Aborted
  <1>7. CASE OpenLoads
    <2>1. /\ todo \in Seq(Candidate) /\ todo # <<>> /\ todo[1] \in Candidate
          /\ returned \in Returns \ {Nothing, Current, Null, Aborted}
          /\ phase \in {"startup", "running"}
          /\ Loadable(returned.loc) /\ asked \in {"name", "path"}
      BY <1>7 DEF OpenLoads, Opening, Answered, Searching, TypeOK, LibTypeOK, Pending, Fresh
    <2>2. returned.loc \in Loc /\ returned.from \in {"name", "buffer"}
      BY <2>1 DEF Returns, Name, Buffer
    <2>. DEFINE m == [loc |-> returned.loc, phase |-> phase, asked |-> asked,
                      suffixed |-> todo[1].loc \in Suffixed]
    <2>3. /\ UNCHANGED <<fs, dt_runpath, dt_rpath, shipped_glibcxx_version, recorded,
                         mapped, shipped_libstdcxx_path, phase, requests>>
          /\ returned' = Nothing /\ asked' = "none" /\ todo' = <<>>
          /\ loaded' = loaded \cup {m}
      BY <1>7 DEF OpenLoads, Finish
    <2>4. m \in [loc : Loc, phase : {"startup", "running"},
                  asked : {"name", "path"}, suffixed : BOOLEAN]
      BY <2>1, <2>2
    <2>5. TypeOK'
      BY <2>3, <2>4, EmptySeq DEF TypeOK, LibTypeOK, Returns
    <2>6. NeverBelowShipped'
      <3>. SUFFICES ASSUME recorded # Invalid, NEW x \in loaded',
                           x.phase = "startup" /\ x.suffixed
                    PROVE  fs[x.loc].version >= recorded
        BY <2>3 DEF NeverBelowShipped
      <3>1. CASE x \in loaded
        BY <3>1 DEF NeverBelowShipped
      <3>2. CASE x = m
        BY <3>2, <2>1, <2>2 DEF Vetted
      <3>. QED
        BY <2>3, <3>1, <3>2
    <2>. QED
      BY <2>1, <2>3, <2>5, <2>6 DEF Ownership, NoDanglingName, Fresh, Pending,
         PathIsShipped, ArmedThroughStartup, Vetted, Disarmed, Nothing, Current, Aborted
  <1>8. CASE RequestFails
    <2>1. /\ UNCHANGED <<fs, dt_runpath, dt_rpath, shipped_glibcxx_version, recorded,
                         mapped, shipped_libstdcxx_path, requests>>
          /\ returned' = Nothing /\ asked' = "none" /\ todo' = <<>>
          /\ loaded' = loaded
          /\ phase # "start" /\ phase' \in {phase, "dead"}
      BY <1>8 DEF RequestFails, Finish, Searching, Fresh
    <2>2. TypeOK'
      BY <2>1, EmptySeq DEF TypeOK, LibTypeOK, Returns
    <2>. QED
      BY <2>1, <2>2 DEF Ownership, NoDanglingName, NeverBelowShipped, Fresh, Pending,
         PathIsShipped, ArmedThroughStartup, Vetted, Disarmed, Nothing, Current, Aborted
  <1>9. CASE UNCHANGED vars
    BY <1>9 DEF vars, libVars, ldVars, TypeOK, LibTypeOK, Ownership, NoDanglingName,
       NeverBelowShipped, Fresh, Pending, PathIsShipped, ArmedThroughStartup, Vetted,
       Disarmed, Loadable
  <1>. QED
    BY <1>1, <1>2, <1>3, <1>4, <1>5, <1>6, <1>7, <1>8, <1>9 DEF Next

-----------------------------------------------------------------------------
(***************************************************************************)
(* The theorems.                                                           *)
(***************************************************************************)

\* The strengthened invariant holds of every behaviour: on top of the
\* properties it says that the statics stay armed together through startup and
\* that every name la_objsearch hands out during startup has been vetted.
THEOREM Invariance == Spec => []IInv
  BY InvInit, InvNext, PTL DEF Spec

\* The variables keep their types, whatever the paths, files and versions.
THEOREM TypeCorrect == Spec => []TypeOK
  <1>1. IInv => TypeOK
    BY DEF IInv
  <1>. QED
    BY <1>1, Invariance, PTL

\* The path buffer is mapped exactly while the static pointer is set, so
\* la_activity unmaps it once and only while it is mapped.
THEOREM OwnershipHolds == Spec => []Ownership
  <1>1. IInv => Ownership
    BY DEF IInv
  <1>. QED
    BY <1>1, Invariance, PTL

\* ld.so never holds a pointer into the path buffer after it was unmapped.
THEOREM NameNeverDangles == Spec => []NoDanglingName
  <1>1. IInv => NoDanglingName
    BY DEF IInv
  <1>. QED
    BY <1>1, Invariance, PTL

\* No libstdc++ older than the recorded shipped version is mapped while the
\* program starts, for any search path, any files and any number of preloads.
THEOREM StartupNeverBelowShipped == Spec => []NeverBelowShipped
  <1>1. IInv => NeverBelowShipped
    BY DEF IInv
  <1>. QED
    BY <1>1, Invariance, PTL

\* After la_version the version to beat never falls, and the library is never
\* armed or disarmed by it.
THEOREM RatchetHolds == Spec => RatchetNeverFalls
  <1>1. ASSUME IInv, [Next]_vars
        PROVE  [phase # "start" =>
                  /\ shipped_glibcxx_version' >= shipped_glibcxx_version
                  /\ shipped_glibcxx_version = Invalid
                       <=> shipped_glibcxx_version' = Invalid]_vars
    <2>a. shipped_glibcxx_version \in Nat
      BY <1>1, LibAssumption DEF IInv, TypeOK, LibTypeOK
    <2>1. CASE CallLaObjsearch
      <3>1. todo \in Seq(Candidate) /\ todo # <<>>
        BY <1>1, <2>1 DEF CallLaObjsearch, IInv, TypeOK
      <3>2. todo[1] \in Candidate
        BY <3>1
      <3>3. todo[1].loc \in Loc /\ todo[1].flag \in Flags
        BY <3>2 DEF Candidate
      <3>. QED
        BY <1>1, <2>1, <3>3, LaObjsearchProperties DEF CallLaObjsearch, IInv
    <2>2. CASE CallLaVersion
      BY <2>2 DEF CallLaVersion
    <2>3. CASE UNCHANGED shipped_glibcxx_version
      BY <2>a, <2>3
    <2>4. CASE \/ LinkMapAdd \/ LinkMapConsistent \/ RequestByName \/ RequestByPath
               \/ OpenVerify \/ DropCandidate \/ OpenRejected \/ OpenLoads
               \/ RequestFails
      BY <2>3, <2>4 DEF LinkMapAdd, LinkMapConsistent, CallLaActivity, la_activity,
         RequestByName, RequestByPath, Begin, OpenVerify, DropCandidate, OpenRejected,
         OpenLoads, RequestFails, GoOn, Finish
    <2>. QED
      BY <1>1, <2>1, <2>2, <2>3, <2>4 DEF Next, vars, libVars
  <1>. QED
    BY <1>1, Invariance, PTL DEF Spec, RatchetNeverFalls

-----------------------------------------------------------------------------
OneKind == OneMachine /\ OneClass

\* The library has nothing to say.
Unarmed == recorded = Invalid \/ phase = "running"

Silent == phase \in {"startup", "running"} /\ Unarmed => Disarmed

\* Why a candidate was left behind: ld.so skipped it, or la_objsearch dropped
\* it, or it does not open.
PassedOver(c) ==
    IF Unarmed THEN Skipped(c)
    ELSE OneKind /\ System(c) => ~Openable(c.loc)

\* A search by name that left the first n candidates behind.
Underway(n) ==
    /\ Len(todo) = Len(SearchList) - n
    /\ \A i \in 1 .. Len(todo) : todo[i] = SearchList[n + i]
    /\ \A i \in 1 .. n : PassedOver(SearchList[i])

ByName ==
    asked = "name" =>
        /\ loaded = {}
        /\ phase # "dead" => \E n \in 0 .. Len(SearchList) : Underway(n)

\* The answer to the candidate at hand.
Verdict(c) ==
    \/ ~System(c) /\ returned = Null
    \/ /\ System(c) /\ returned = Name(c.loc)
       /\ Openable(c.loc) => Version(c.loc) >= recorded
    \/ /\ System(c) /\ returned = Buffer(shipped_libstdcxx_path)
       /\ Openable(c.loc)
       /\ MmapMayFail \/ Version(c.loc) < recorded

AnsweredByName ==
    asked = "name" /\ phase # "dead" /\ todo # <<>> /\ returned # Nothing =>
        IF Unarmed THEN returned = Name(todo[1].loc)
        ELSE OneKind => Verdict(todo[1])

\* A library that raised the version to beat and is about to be mapped, or the
\* shipped one in its place when the second look at a path could not map it.
Raising ==
    /\ asked # "none" /\ todo # <<>>
    /\ \/ /\ fs[todo[1].loc].kind = "lib"
          /\ Version(todo[1].loc) = shipped_glibcxx_version
          /\ \/ returned = Name(todo[1].loc)
             \/ returned = Nothing /\ asked = "path" /\ todo[1].flag = "OPEN"
       \/ /\ returned = Buffer(shipped_libstdcxx_path) /\ MmapMayFail
          /\ asked = "path" /\ todo[1].flag = "OPEN"

RaisedBy(m) ==
    \/ Version(m.loc) = shipped_glibcxx_version
    \/ MmapMayFail /\ m.loc = shipped_libstdcxx_path

RatchetMapped ==
    phase = "startup" /\ recorded # Invalid /\ OneMachine =>
        \/ shipped_glibcxx_version = recorded
        \/ \E m \in loaded : RaisedBy(m)
        \/ Raising

OneNamed ==
    \A m, n \in loaded : m.asked = "name" /\ n.asked = "name" => m = n

\* No step changes the search path of the executable.
OwnPaths == dt_runpath \in Seq(Suffixed) /\ dt_rpath \in Seq(Suffixed)

ChoiceInv ==
    /\ OwnPaths /\ Silent /\ ByName /\ AnsweredByName /\ RatchetMapped
    /\ PlainWhenUnarmed /\ OneNamed

-----------------------------------------------------------------------------
(***************************************************************************)
(* The search list, and what la_objsearch answers.                         *)
(***************************************************************************)
SearchFlags == {"LIBPATH", "RUNPATH", "CONFIG", "DEFAULT"}

SearchCandidate == [loc : Suffixed, flag : SearchFlags]

LEMMA FlaggedByName ==
    ASSUME NEW s \in Seq(Suffixed), NEW f \in SearchFlags
    PROVE  Flagged(s, f) \in Seq(SearchCandidate)
  <1>1. Len(s) \in Nat
    OBVIOUS
  <1>2. \A i \in 1 .. Len(s) : [loc |-> s[i], flag |-> f] \in SearchCandidate
    BY DEF SearchCandidate
  <1>. QED
    BY <1>1, <1>2, IsASeq DEF Flagged

\* Every candidate of a search by name ends in the name searched for, and none
\* is flagged as a path that was asked for.
LEMMA SearchListByName ==
    ASSUME OwnPaths
    PROVE  /\ SearchList \in Seq(SearchCandidate)
           /\ Len(SearchList) \in Nat
           /\ \A i \in 1 .. Len(SearchList) :
                 SearchList[i].loc \in Suffixed /\ SearchList[i].flag \in SearchFlags
  <1>1. /\ Flagged(dt_rpath, "RUNPATH") \in Seq(SearchCandidate)
        /\ Flagged(LibPath, "LIBPATH") \in Seq(SearchCandidate)
        /\ Flagged(dt_runpath, "RUNPATH") \in Seq(SearchCandidate)
        /\ Flagged(Config, "CONFIG") \in Seq(SearchCandidate)
        /\ Flagged(Default, "DEFAULT") \in Seq(SearchCandidate)
    BY LdSoAssumption, FlaggedByName DEF OwnPaths, SearchFlags
  <1>2. SearchList \in Seq(SearchCandidate)
    BY <1>1, ConcatProperties, EmptySeq DEF SearchList
  <1>3. Len(SearchList) \in Nat
    BY <1>2, LenProperties
  <1>4. \A i \in 1 .. Len(SearchList) : SearchList[i] \in SearchCandidate
    BY <1>2, ElementOfSeq
  <1>. QED
    BY <1>2, <1>3, <1>4 DEF SearchCandidate

\* What is passed in is handed back where the library has nothing to say.
LEMMA PassesThrough ==
    ASSUME NEW l, NEW flag, Disarmed \/ l \notin Suffixed, la_objsearch(l, flag)
    PROVE  returned' = Name(l) /\ shipped_glibcxx_version' = shipped_glibcxx_version
  BY DEF la_objsearch, Answer

\* The answers of an armed library to a candidate of its name.
LEMMA ArmedAnswers ==
    ASSUME TypeOK, NEW l \in Loc, NEW flag, l \in Suffixed, ~Disarmed,
           la_objsearch(l, flag)
    PROVE  \/ /\ flag = "RUNPATH" /\ returned' = Null
              /\ shipped_glibcxx_version' = shipped_glibcxx_version
           \/ /\ flag # "RUNPATH" /\ ~Openable(l) /\ returned' = Name(l)
              /\ shipped_glibcxx_version' = shipped_glibcxx_version
           \/ /\ flag # "RUNPATH" /\ Openable(l) /\ returned' = Name(l)
              /\ fs[l].kind \in {"lib", "foreign"}
              /\ Version(l) >= shipped_glibcxx_version
              /\ shipped_glibcxx_version' = Version(l)
           \/ /\ flag # "RUNPATH" /\ Openable(l)
              /\ returned' = Buffer(shipped_libstdcxx_path)
              /\ shipped_glibcxx_version' = shipped_glibcxx_version
              /\ \/ MmapMayFail \/ fs[l].kind \in {"text", "bare"}
                 \/ Version(l) < shipped_glibcxx_version
           \/ /\ fs[l].kind = "class" /\ returned' = Null
              /\ shipped_glibcxx_version' = shipped_glibcxx_version
           \/ /\ returned' = Aborted
              /\ shipped_glibcxx_version' = shipped_glibcxx_version
  <1>a. shipped_glibcxx_version \in Nat /\ shipped_glibcxx_version > 0
    BY LibAssumption DEF TypeOK, LibTypeOK
  <1>1. CASE flag = "RUNPATH" /\ Answer(Null)
    BY <1>1 DEF Answer
  <1>2. CASE flag # "RUNPATH" /\ ~Openable(l) /\ Answer(Name(l))
    BY <1>2 DEF Answer
  <1>3. CASE flag # "RUNPATH" /\ Openable(l) /\ Examine(l)
    <2>1. PICK r \in get_libstdcxx_version(l) :
              \/ r.error \in {"success", "fatal"} /\ Compare(l, r.version)
              \/ r.error = "non_fatal" /\ Answer(Null)
              \/ r.error = "abort" /\ Answer(Aborted)
      BY <1>3 DEF Examine
    <2>2. CASE r.error = "success" /\ Compare(l, r.version)
      <3>1. r.version = Version(l) /\ fs[l].kind \in {"lib", "foreign"}
        BY <2>2, ReadProperties DEF Version
      <3>2. Version(l) \in Nat
        BY <2>2, <3>1, ReadProperties, LibAssumption
      <3>. QED
        BY <1>3, <1>a, <2>2, <3>1, <3>2 DEF Compare, Answer
    <2>3. CASE r.error = "fatal" /\ Compare(l, r.version)
      <3>1. r.version = 0
        BY <2>3, ReadProperties
      <3>2. MmapMayFail \/ fs[l].kind \in {"text", "bare"}
        BY <2>3 DEF get_libstdcxx_version, Read
      <3>. QED
        BY <1>3, <1>a, <2>3, <3>1, <3>2 DEF Compare, Answer
    <2>4. CASE r.error = "non_fatal" /\ Answer(Null)
      BY <2>4 DEF get_libstdcxx_version, Read, Answer
    <2>5. CASE Answer(Aborted)
      BY <2>5 DEF Answer
    <2>. QED
      BY <2>1, <2>2, <2>3, <2>4, <2>5
  <1>. QED
    BY <1>1, <1>2, <1>3 DEF la_objsearch

-----------------------------------------------------------------------------
(***************************************************************************)
(* Facts about one step.                                                   *)
(***************************************************************************)
LEMMA ChoiceInvInit == Init => ChoiceInv
  <1>. SUFFICES ASSUME Init PROVE ChoiceInv
    OBVIOUS
  <1>1. OwnPaths
    BY LdSoAssumption DEF Init, OwnPaths
  <1>. QED
    BY <1>1 DEF Init, LibInit, ChoiceInv, Silent, ByName, AnsweredByName,
       RatchetMapped, PlainWhenUnarmed, OneNamed, Disarmed

\* The files and the paths of the executable stay, so the search list does.
LEMMA SearchListStays ==
    ASSUME [Next]_vars
    PROVE  /\ UNCHANGED <<fs, dt_runpath, dt_rpath>>
           /\ SearchList' = SearchList
           /\ OneMachine' = OneMachine /\ OneClass' = OneClass
           /\ \A l : Version(l)' = Version(l)
           /\ \A l : (fs[l].kind)' = fs[l].kind
           /\ \A c : Skipped(c)' = Skipped(c)
  <1>1. UNCHANGED <<fs, dt_runpath, dt_rpath>>
    BY DEF Next, vars, libVars, CallLaVersion, la_version, LinkMapAdd,
       LinkMapConsistent, CallLaActivity, la_activity, RequestByName,
       RequestByPath, Begin, CallLaObjsearch, la_objsearch, OpenVerify,
       DropCandidate, OpenRejected, OpenLoads, RequestFails, GoOn, Finish
  <1>. QED
    BY <1>1 DEF SearchList, OneMachine, OneClass, Version, Skipped

\* Before la_version nothing was mapped, and a request belongs to a phase.
LEMMA PhaseOfRequest ==
    ASSUME IInv, asked # "none", phase # "dead"
    PROVE  phase \in {"startup", "running"}
  BY DEF IInv, Fresh, TypeOK

\* While the library is armed, the path buffer names a library with the
\* recorded version.
LEMMA ShippedIsRecorded ==
    ASSUME IInv, phase = "startup", recorded # Invalid
    PROVE  /\ ~Disarmed /\ shipped_libstdcxx_path \in Loc
           /\ fs[shipped_libstdcxx_path].kind \in {"lib", "foreign"}
           /\ Version(shipped_libstdcxx_path) = recorded
           /\ shipped_glibcxx_version >= recorded
  BY DEF IInv, ArmedThroughStartup, PathIsShipped, Disarmed, TypeOK, LibTypeOK, Version

\* What a search by name looks at next is at its place in the search list.
LEMMA CandidateAtHand ==
    ASSUME IInv, ChoiceInv, asked = "name", phase # "dead", todo # <<>>
    PROVE  \E n \in 0 .. Len(SearchList) - 1 :
              /\ Underway(n) /\ n + 1 \in 1 .. Len(SearchList)
              /\ todo[1] = SearchList[n + 1]
              /\ todo[1].loc \in Suffixed /\ todo[1].flag \in SearchFlags
  <1>1. PICK n \in 0 .. Len(SearchList) : Underway(n)
    BY DEF ChoiceInv, ByName
  <1>2. Len(SearchList) \in Nat
    BY SearchListByName DEF ChoiceInv
  <1>3. Len(todo) \in Nat /\ Len(todo) >= 1
    BY EmptySeq, LenProperties DEF IInv, TypeOK
  <1>4. n \in 0 .. Len(SearchList) - 1 /\ n + 1 \in 1 .. Len(SearchList)
    BY <1>1, <1>2, <1>3 DEF Underway
  <1>5. 1 \in 1 .. Len(todo)
    BY <1>3
  <1>6. todo[1] = SearchList[n + 1]
    BY <1>1, <1>5 DEF Underway
  <1>. QED
    BY <1>1, <1>4, <1>6, SearchListByName DEF ChoiceInv

-----------------------------------------------------------------------------
(***************************************************************************)
(* The call of la_objsearch, by what the request asks for.                 *)
(***************************************************************************)
\* The version to beat is the recorded one as long as nothing was mapped and no
\* path was asked for.
LEMMA NothingRaised ==
    ASSUME IInv, ChoiceInv, asked = "name", returned = Nothing,
           phase = "startup", recorded # Invalid, OneMachine
    PROVE  shipped_glibcxx_version = recorded
  <1>1. loaded = {}
    BY DEF ChoiceInv, ByName
  <1>2. ~Raising
    BY DEF Raising, Nothing, Name, Buffer
  <1>. QED
    BY <1>1, <1>2 DEF ChoiceInv, RatchetMapped

LEMMA ObjsearchAnswers ==
    ASSUME IInv, ChoiceInv, CallLaObjsearch, [Next]_vars
    PROVE  AnsweredByName'
  <1>. SUFFICES ASSUME asked = "name", phase' # "dead", todo # <<>>
                PROVE  IF Unarmed' THEN returned' = Name(todo[1].loc)
                       ELSE OneKind' => Verdict(todo[1])'
    BY DEF AnsweredByName, CallLaObjsearch
  <1>1. /\ phase # "dead" /\ phase' = phase /\ returned' # Aborted
        /\ returned = Nothing /\ la_objsearch(todo[1].loc, todo[1].flag)
        /\ UNCHANGED <<recorded, shipped_libstdcxx_path>>
    BY DEF CallLaObjsearch, Searching, AliveIn, la_objsearch
  <1>2. todo[1].loc \in Suffixed /\ todo[1].flag \in SearchFlags
    BY <1>1, CandidateAtHand
  <1>3. phase \in {"startup", "running"}
    BY <1>1, PhaseOfRequest
  <1>4. CASE Unarmed
    <2>1. Disarmed
      BY <1>3, <1>4 DEF ChoiceInv, Silent
    <2>. QED
      BY <1>1, <1>4, <2>1, PassesThrough DEF Unarmed
  <1>5. CASE ~Unarmed
    <2>1. phase = "startup" /\ recorded # Invalid /\ ~Disarmed
      BY <1>3, <1>5, ShippedIsRecorded DEF Unarmed
    <2>. SUFFICES ASSUME OneKind
                  PROVE  Verdict(todo[1])'
      BY <1>1, <1>5, SearchListStays DEF Unarmed, OneKind
    <2>2. shipped_glibcxx_version = recorded
      BY <1>1, <2>1, NothingRaised DEF OneKind
    <2>. DEFINE l == todo[1].loc
    <2>3. l \in Loc /\ l \in Suffixed
      BY <1>2, LibAssumption
    <2>4. recorded \in Nat /\ recorded > 0
      BY LibAssumption DEF IInv, TypeOK, LibTypeOK
    <2>5. fs[l] \in File
      BY <2>3 DEF IInv, TypeOK, LibTypeOK
    <2>6. fs[l].kind \in {"text", "bare"} => Version(l) < recorded
      BY <2>4, <2>5, KindAssumption DEF File, Version
    <2>7. todo' = todo /\ (todo[1])' = todo[1]
      BY DEF CallLaObjsearch
    <2>8. fs[l].kind # "class"
      BY <2>3 DEF OneKind, OneClass
    <2>. HIDE DEF l
    <2>9. Verdict(todo[1])' <=>
            \/ todo[1].flag = "RUNPATH" /\ returned' = Null
            \/ /\ todo[1].flag # "RUNPATH" /\ returned' = Name(l)
               /\ Openable(l) => Version(l) >= recorded
            \/ /\ todo[1].flag # "RUNPATH"
               /\ returned' = Buffer(shipped_libstdcxx_path)
               /\ Openable(l)
               /\ MmapMayFail \/ Version(l) < recorded
      BY <1>1, <2>7, SearchListStays DEF Verdict, System, Openable, Version, l
    <2>. QED
      BY <1>1, <2>1, <2>2, <2>3, <2>6, <2>8, <2>9, ArmedAnswers DEF IInv, l
  <1>. QED
    BY <1>4, <1>5

\* A candidate that raises the version to beat is let through, and is a library
\* ld.so can map.
LEMMA ObjsearchRaises ==
    ASSUME IInv, ChoiceInv, CallLaObjsearch, [Next]_vars
    PROVE  RatchetMapped'
  <1>. SUFFICES ASSUME phase' = "startup", recorded # Invalid, OneMachine
                PROVE  \/ shipped_glibcxx_version' = recorded
                       \/ \E m \in loaded : RaisedBy(m)'
                       \/ Raising'
    BY SearchListStays DEF RatchetMapped, CallLaObjsearch, la_objsearch
  <1>. DEFINE l == todo[1].loc
              flag == todo[1].flag
  <1>1. /\ phase = "startup" /\ returned' # Aborted /\ asked # "none"
        /\ todo # <<>> /\ returned = Nothing /\ la_objsearch(l, flag)
        /\ UNCHANGED <<todo, asked, loaded, recorded, shipped_libstdcxx_path>>
        /\ (todo[1])' = todo[1]
    BY DEF CallLaObjsearch, Searching, AliveIn, la_objsearch
  <1>2. l \in Loc
    <2>1. todo[1] \in Candidate
      BY <1>1 DEF IInv, TypeOK
    <2>. QED
      BY <2>1 DEF Candidate
  <1>3. ~Disarmed
    BY <1>1, ShippedIsRecorded
  <1>4. fs[l].kind # "foreign"
    BY <1>2 DEF OneMachine
  <1>5. shipped_glibcxx_version \in Nat
    BY LibAssumption DEF IInv, TypeOK, LibTypeOK
  <1>6. Raising => /\ asked = "path" /\ flag = "OPEN" /\ fs[l].kind = "lib"
                   /\ Version(l) = shipped_glibcxx_version
    BY <1>1 DEF Raising, Nothing, Name, Buffer
  <1>7. \/ shipped_glibcxx_version = recorded
        \/ \E m \in loaded : RaisedBy(m)
        \/ Raising
    BY <1>1 DEF ChoiceInv, RatchetMapped
  <1>8. Raising' <=>
          \/ /\ fs[l].kind = "lib" /\ Version(l) = shipped_glibcxx_version'
             /\ \/ returned' = Name(l)
                \/ returned' = Nothing /\ asked = "path" /\ flag = "OPEN"
          \/ /\ returned' = Buffer(shipped_libstdcxx_path) /\ MmapMayFail
             /\ asked = "path" /\ flag = "OPEN"
    BY <1>1, SearchListStays DEF Raising, Version
  <1>9. ASSUME shipped_glibcxx_version' = shipped_glibcxx_version
        PROVE  \A m : RaisedBy(m)' <=> RaisedBy(m)
    BY <1>1, <1>9, SearchListStays DEF RaisedBy
  <1>. HIDE DEF l, flag
  <1>10. CASE l \notin Suffixed
    <2>1. returned' = Name(l) /\ shipped_glibcxx_version' = shipped_glibcxx_version
      BY <1>1, <1>10, PassesThrough
    <2>. QED
      BY <1>6, <1>7, <1>8, <1>9, <2>1
  <1>11. CASE l \in Suffixed
    <2>1. \/ /\ flag = "RUNPATH"
             /\ shipped_glibcxx_version' = shipped_glibcxx_version
          \/ /\ ~Openable(l)
             /\ shipped_glibcxx_version' = shipped_glibcxx_version
          \/ /\ returned' = Name(l) /\ fs[l].kind \in {"lib", "foreign"}
             /\ shipped_glibcxx_version' = Version(l)
          \/ /\ returned' = Buffer(shipped_libstdcxx_path)
             /\ shipped_glibcxx_version' = shipped_glibcxx_version
             /\ \/ MmapMayFail \/ fs[l].kind \in {"text", "bare"}
                \/ Version(l) < shipped_glibcxx_version
          \/ /\ fs[l].kind = "class"
             /\ shipped_glibcxx_version' = shipped_glibcxx_version
      BY <1>1, <1>2, <1>3, <1>11, ArmedAnswers DEF IInv
    <2>2. CASE /\ flag = "RUNPATH" \/ ~Openable(l) \/ fs[l].kind = "class"
               /\ shipped_glibcxx_version' = shipped_glibcxx_version
      BY <1>6, <1>7, <1>9, <2>2 DEF Openable
    <2>3. CASE /\ returned' = Name(l) /\ fs[l].kind \in {"lib", "foreign"}
               /\ shipped_glibcxx_version' = Version(l)
      BY <1>4, <1>8, <2>3
    <2>4. CASE /\ returned' = Buffer(shipped_libstdcxx_path)
               /\ shipped_glibcxx_version' = shipped_glibcxx_version
               /\ \/ MmapMayFail \/ fs[l].kind \in {"text", "bare"}
                  \/ Version(l) < shipped_glibcxx_version
      BY <1>5, <1>6, <1>7, <1>8, <1>9, <2>4
    <2>. QED
      BY <2>1, <2>2, <2>3, <2>4
  <1>. QED
    BY <1>10, <1>11

-----------------------------------------------------------------------------
(***************************************************************************)
(* The steps of a search.                                                  *)
(***************************************************************************)
\* A step that only shortens what is left of a search by name keeps it under
\* way, when the candidates dropped were passed over.
LEMMA GoesOn ==
    ASSUME IInv, ChoiceInv, [Next]_vars, asked = "name", phase # "dead",
           NEW d \in 1 .. Len(todo), GoOn(SubSeq(todo, d + 1, Len(todo))),
           \A i \in 1 .. d : PassedOver(todo[i])
    PROVE  ByName' /\ AnsweredByName'
  <1>1. /\ todo' = SubSeq(todo, d + 1, Len(todo)) /\ returned' = Nothing
        /\ UNCHANGED <<phase, asked, loaded, recorded>>
    BY DEF GoOn
  <1>2. PICK n \in 0 .. Len(SearchList) : Underway(n)
    BY DEF ChoiceInv, ByName
  <1>3. Len(SearchList) \in Nat
    BY SearchListByName DEF ChoiceInv
  <1>4. todo \in Seq(Candidate) /\ Len(todo) \in Nat
    BY LenProperties DEF IInv, TypeOK
  <1>5. /\ Len(todo') = Len(todo) - d
        /\ \A i \in 1 .. Len(todo) - d : todo'[i] = todo[d + i]
    <2>1. d + 1 \in 1 .. Len(todo) + 1
      BY <1>4
    <2>2. /\ Len(todo') = Len(todo) - (d + 1) + 1
          /\ \A i \in 1 .. Len(todo) - (d + 1) + 1 : todo'[i] = todo[d + 1 + i - 1]
      BY <1>1, <1>4, <2>1, SubSeqProperties
    <2>3. /\ Len(todo) - (d + 1) + 1 = Len(todo) - d
          /\ \A i \in 1 .. Len(todo) - d : d + 1 + i - 1 = d + i
      BY <1>4
    <2>. QED
      BY <2>2, <2>3
  <1>6. Len(todo) = Len(SearchList) - n
    BY <1>2 DEF Underway
  <1>7. \A c : PassedOver(c)' <=> PassedOver(c)
    BY <1>1, SearchListStays DEF PassedOver, Unarmed, OneKind, System, Openable
  <1>8. \A i \in 1 .. n + d : PassedOver(SearchList[i])
    <2>1. SUFFICES ASSUME NEW i \in 1 .. n + d, i > n
                   PROVE  PassedOver(SearchList[i])
      BY <1>2, <1>3 DEF Underway
    <2>2. i - n \in 1 .. d /\ i - n \in 1 .. Len(todo) /\ n + (i - n) = i
      BY <1>3, <1>4, <2>1
    <2>3. todo[i - n] = SearchList[i]
      BY <1>2, <2>2 DEF Underway
    <2>. QED
      BY <2>2, <2>3
  <1>9. \A i \in 1 .. Len(todo') : todo'[i] = SearchList[n + d + i]
    <2>1. SUFFICES ASSUME NEW i \in 1 .. Len(todo) - d
                   PROVE  todo[d + i] = SearchList[n + d + i]
      BY <1>5
    <2>2. d + i \in 1 .. Len(todo) /\ n + (d + i) = n + d + i
      BY <1>3, <1>4
    <2>. QED
      BY <1>2, <2>2 DEF Underway
  <1>10. PICK e \in 0 .. Len(SearchList) : e = n + d
    BY <1>3, <1>4, <1>6
  <1>11. Len(todo') = Len(SearchList) - e
    BY <1>3, <1>4, <1>5, <1>6, <1>10
  <1>12. Underway(e)'
    BY <1>7, <1>8, <1>9, <1>10, <1>11, SearchListStays DEF Underway
  <1>13. loaded' = {} /\ SearchList' = SearchList
    BY <1>1, SearchListStays DEF ChoiceInv, ByName
  <1>. QED
    BY <1>1, <1>12, <1>13 DEF ByName, AnsweredByName

\* What the answer says of the candidate ld.so is about to open, in a search by
\* name: it is the candidate itself, or the shipped library in its place.
LEMMA AboutToOpen ==
    ASSUME IInv, ChoiceInv, Opening, asked = "name"
    PROVE  /\ Unarmed => returned = Name(todo[1].loc)
           /\ ~Unarmed /\ OneKind =>
                /\ phase = "startup" /\ recorded # Invalid /\ System(todo[1])
                /\ \/ /\ returned = Name(todo[1].loc)
                      /\ Openable(todo[1].loc) => Version(todo[1].loc) >= recorded
                   \/ /\ returned = Buffer(shipped_libstdcxx_path)
                      /\ Openable(todo[1].loc)
                      /\ MmapMayFail \/ Version(todo[1].loc) < recorded
                      /\ fs[shipped_libstdcxx_path].kind = "lib"
                      /\ Version(shipped_libstdcxx_path) = recorded
  <1>1. /\ phase # "dead" /\ todo # <<>> /\ returned # Nothing /\ returned # Null
    BY DEF Opening, Answered, Searching
  <1>2. phase \in {"startup", "running"}
    BY <1>1, PhaseOfRequest
  <1>3. CASE Unarmed
    BY <1>1, <1>3 DEF ChoiceInv, AnsweredByName
  <1>4. CASE ~Unarmed
    <2>1. phase = "startup" /\ recorded # Invalid
      BY <1>2, <1>4 DEF Unarmed
    <2>2. OneKind => Verdict(todo[1])
      BY <1>1, <1>4 DEF ChoiceInv, AnsweredByName
    <2>3. OneKind => fs[shipped_libstdcxx_path].kind = "lib"
      BY <2>1, ShippedIsRecorded DEF OneKind, OneMachine
    <2>. QED
      BY <1>1, <1>4, <2>1, <2>2, <2>3, ShippedIsRecorded DEF Verdict
  <1>. QED
    BY <1>3, <1>4

\* The library whose raising of the version to beat is pending is the one about
\* to be mapped.
LEMMA RaisingOpens ==
    ASSUME IInv, ChoiceInv, Answered, Raising, phase = "startup", recorded # Invalid,
           OneMachine
    PROVE  /\ returned # Null /\ fs[returned.loc].kind = "lib"
           /\ \/ Version(returned.loc) = shipped_glibcxx_version
              \/ MmapMayFail /\ returned.loc = shipped_libstdcxx_path
           /\ todo[1].flag = "ORIG" =>
                 /\ returned.loc = todo[1].loc
                 /\ Version(returned.loc) = shipped_glibcxx_version
  <1>1. returned # Nothing
    BY DEF Answered
  <1>2. fs[shipped_libstdcxx_path].kind = "lib"
    BY ShippedIsRecorded DEF OneMachine
  <1>. QED
    BY <1>1, <1>2 DEF Raising, Name, Buffer, Null

-----------------------------------------------------------------------------
(***************************************************************************)
(* The invariant is inductive: one step per action.                        *)
(***************************************************************************)
LEMMA ChoiceInvNext ==
    ASSUME IInv, ChoiceInv, [Next]_vars
    PROVE  ChoiceInv'
  <1>a. /\ UNCHANGED <<fs, dt_runpath, dt_rpath>> /\ SearchList' = SearchList
        /\ OneMachine' = OneMachine /\ OneClass' = OneClass
        /\ \A l : Version(l)' = Version(l)
        /\ \A l : (fs[l].kind)' = fs[l].kind
        /\ \A c : Skipped(c)' = Skipped(c)
    BY SearchListStays
  <1>b. OwnPaths'
    BY <1>a DEF ChoiceInv, OwnPaths
  <1>c. ASSUME UNCHANGED <<loaded, recorded>>
        PROVE  PlainWhenUnarmed' /\ OneNamed'
    BY <1>a, <1>c DEF ChoiceInv, PlainWhenUnarmed, OneNamed
  <1>d. ASSUME UNCHANGED <<shipped_glibcxx_version, shipped_libstdcxx_path>>
        PROVE  \A m : RaisedBy(m)' <=> RaisedBy(m)
    BY <1>a, <1>d DEF RaisedBy
  <1>1. CASE CallLaVersion
    <2>1. /\ phase = "start" /\ la_version /\ UNCHANGED <<loaded, asked>>
          /\ phase' \in {"startup", "dead"}
      BY <1>1 DEF CallLaVersion, AliveIn
    <2>2. loaded' = {} /\ asked' = "none"
      BY <2>1 DEF IInv, Fresh
    <2>3. /\ recorded' = Invalid => shipped_glibcxx_version' = Invalid
          /\ recorded' # Invalid => shipped_glibcxx_version' = recorded'
      BY <2>1, LaVersionProperties
    <2>. QED
      BY <1>b, <2>1, <2>2, <2>3 DEF ChoiceInv, Silent, Unarmed, Disarmed, ByName,
         AnsweredByName, RatchetMapped, PlainWhenUnarmed, OneNamed
  <1>2. CASE LinkMapAdd
    <2>1. /\ asked = "none" /\ returned' = Nothing
          /\ UNCHANGED <<phase, loaded, asked, recorded, shipped_glibcxx_version,
                         shipped_libstdcxx_path>>
      BY <1>2 DEF LinkMapAdd, CallLaActivity, Idle, la_activity
    <2>2. RatchetMapped'
      BY <1>a, <1>d, <2>1 DEF ChoiceInv, RatchetMapped, Raising
    <2>. QED
      BY <1>b, <1>c, <2>1, <2>2 DEF ChoiceInv, Silent, Unarmed, Disarmed, ByName,
         AnsweredByName
  <1>3. CASE LinkMapConsistent
    <2>1. /\ asked = "none" /\ phase' = "running" /\ shipped_libstdcxx_path' = NULL
          /\ UNCHANGED <<loaded, asked, recorded, shipped_glibcxx_version>>
      BY <1>3 DEF LinkMapConsistent, CallLaActivity, Idle, la_activity
    <2>. QED
      BY <1>b, <1>c, <2>1 DEF ChoiceInv, Silent, Unarmed, Disarmed, ByName,
         AnsweredByName, RatchetMapped
  <1>4. CASE RequestByName \/ RequestByPath
    <2>1. /\ asked = "none" /\ returned' = Nothing
          /\ UNCHANGED <<phase, loaded, recorded, shipped_glibcxx_version,
                         shipped_libstdcxx_path>>
          /\ \/ asked' = "path"
             \/ asked' = "name" /\ loaded = {} /\ todo' = SearchList
      <3>1. CASE RequestByName
        BY <3>1 DEF RequestByName, Begin, Idle
      <3>2. CASE RequestByPath
        BY <3>2 DEF RequestByPath, Begin, Idle
      <3>. QED
        BY <1>4, <3>1, <3>2
    <2>2. RatchetMapped'
      BY <1>a, <1>d, <2>1 DEF ChoiceInv, RatchetMapped, Raising
    <2>3. ByName'
      <3>. SUFFICES ASSUME asked' = "name"
                    PROVE  \E n \in 0 .. Len(SearchList)' : Underway(n)'
        BY <2>1 DEF ByName
      <3>1. Len(SearchList) \in Nat
        BY SearchListByName DEF ChoiceInv
      <3>2. PICK n \in 0 .. Len(SearchList) : n = 0
        BY <3>1
      <3>3. Underway(n)'
        BY <1>a, <2>1, <3>1, <3>2 DEF Underway
      <3>. QED
        BY <1>a, <3>3
    <2>. QED
      BY <1>b, <1>c, <2>1, <2>2, <2>3 DEF ChoiceInv, Silent, Unarmed, Disarmed,
         AnsweredByName
  <1>5. CASE CallLaObjsearch
    <2>1. /\ phase' \in {phase, "dead"}
          /\ UNCHANGED <<todo, loaded, asked, recorded, shipped_libstdcxx_path>>
          /\ la_objsearch(todo[1].loc, todo[1].flag)
      BY <1>5 DEF CallLaObjsearch, AliveIn, la_objsearch
    <2>2. ByName'
      <3>1. phase' # "dead" => phase' = phase
        BY <2>1
      <3>2. phase' = phase => \A c : PassedOver(c)' <=> PassedOver(c)
        BY <1>a, <2>1 DEF PassedOver, Unarmed, OneKind, System, Openable
      <3>3. phase' = phase => \A n : Underway(n) => Underway(n)'
        BY <1>a, <2>1, <3>2 DEF Underway
      <3>. QED
        BY <1>a, <2>1, <3>1, <3>3 DEF ChoiceInv, ByName
    <2>3. Silent'
      <3>. SUFFICES ASSUME phase' \in {"startup", "running"}, Unarmed'
                    PROVE  Disarmed'
        BY DEF Silent
      <3>1. phase' = phase /\ Unarmed
        BY <2>1 DEF Unarmed
      <3>2. Disarmed
        BY <3>1 DEF ChoiceInv, Silent
      <3>. QED
        BY <2>1, <3>2, PassesThrough DEF Disarmed
    <2>. QED
      BY <1>b, <1>c, <1>5, <2>1, <2>2, <2>3, ObjsearchAnswers, ObjsearchRaises
         DEF ChoiceInv
  <1>6. CASE OpenVerify
    <2>1. /\ Answered /\ returned # Null /\ todo[1].flag = "ORIG"
          /\ todo' = <<[loc |-> returned.loc, flag |-> "OPEN"]>> /\ returned' = Nothing
          /\ UNCHANGED <<phase, loaded, asked, recorded, shipped_glibcxx_version,
                         shipped_libstdcxx_path>>
      BY <1>6 DEF OpenVerify, GoOn
    <2>2. asked = "path"
      <3>1. /\ todo # <<>> /\ phase # "dead" /\ asked # "none"
            /\ asked \in {"none", "name", "path"}
        BY <2>1 DEF Answered, Searching, IInv, TypeOK
      <3>2. ASSUME asked = "name" PROVE FALSE
        BY <2>1, <3>1, <3>2, CandidateAtHand DEF SearchFlags
      <3>. QED
        BY <3>1, <3>2
    <2>3. RatchetMapped'
      <3>. SUFFICES ASSUME phase = "startup", recorded # Invalid, OneMachine, Raising
                    PROVE  Raising'
        BY <1>a, <1>d, <2>1 DEF ChoiceInv, RatchetMapped
      <3>1. /\ fs[returned.loc].kind = "lib"
            /\ Version(returned.loc) = shipped_glibcxx_version
        BY <2>1, RaisingOpens
      <3>2. /\ todo'[1].loc = returned.loc /\ todo'[1].flag = "OPEN"
            /\ todo' # <<>>
        BY <2>1
      <3>. QED
        BY <1>a, <2>1, <2>2, <3>1, <3>2 DEF Raising, Version
    <2>. QED
      BY <1>b, <1>c, <2>1, <2>2, <2>3 DEF ChoiceInv, Silent, Unarmed, Disarmed,
         ByName, AnsweredByName
  <1>7. CASE DropCandidate
    <2>1. /\ Answered /\ returned = Null /\ returned' = Nothing
          /\ phase # "dead" /\ todo # <<>> /\ returned # Nothing
          /\ UNCHANGED <<phase, loaded, asked, recorded, shipped_glibcxx_version,
                         shipped_libstdcxx_path>>
      BY <1>7 DEF DropCandidate, GoOn, Answered, Searching
    <2>2. PICK d \in 1 .. Len(todo) :
              /\ \A i \in 1 .. d : todo[i].flag = todo[1].flag
              /\ GoOn(SubSeq(todo, d + 1, Len(todo)))
      BY <1>7 DEF DropCandidate
    <2>3. ASSUME asked = "name"
          PROVE  \A i \in 1 .. d : PassedOver(todo[i])
      <3>1. ~Unarmed
        BY <2>1, <2>3 DEF ChoiceInv, AnsweredByName, Null, Name
      <3>2. OneKind => Verdict(todo[1])
        BY <2>1, <2>3, <3>1 DEF ChoiceInv, AnsweredByName
      <3>3. OneKind => ~System(todo[1])
        BY <2>1, <3>2 DEF Verdict, Null, Name, Buffer
      <3>. QED
        BY <2>2, <3>1, <3>3 DEF PassedOver, System
    <2>4. ByName' /\ AnsweredByName'
      <3>1. CASE asked = "name"
        BY <2>1, <2>2, <2>3, <3>1, GoesOn
      <3>2. CASE asked # "name"
        BY <2>1, <3>2 DEF ByName, AnsweredByName
      <3>. QED
        BY <3>1, <3>2
    <2>5. ~Raising
      BY <2>1 DEF Raising, Null, Name, Buffer, Nothing
    <2>6. RatchetMapped'
      BY <1>a, <1>d, <2>1, <2>5 DEF ChoiceInv, RatchetMapped
    <2>. QED
      BY <1>b, <1>c, <2>1, <2>4, <2>6 DEF ChoiceInv, Silent, Unarmed, Disarmed
  <1>8. CASE OpenRejected
    <2>1. /\ Opening /\ Answered /\ returned # Null
          /\ fs[returned.loc].kind \in {"absent", "class", "foreign"}
          /\ GoOn(Tail(todo)) /\ returned' = Nothing
          /\ phase # "dead" /\ todo # <<>> /\ returned # Nothing
          /\ UNCHANGED <<phase, loaded, asked, recorded, shipped_glibcxx_version,
                         shipped_libstdcxx_path>>
      BY <1>8 DEF OpenRejected, Opening, Answered, Searching, GoOn
    <2>2. ASSUME asked = "name"
          PROVE  PassedOver(todo[1])
      <3>1. CASE Unarmed
        BY <2>1, <2>2, <3>1, AboutToOpen DEF PassedOver, Skipped, Name
      <3>2. CASE ~Unarmed
        <4>. SUFFICES ASSUME OneKind, System(todo[1])
                      PROVE  ~Openable(todo[1].loc)
          BY <3>2 DEF PassedOver
        <4>1. todo[1].loc \in Loc
          <5>1. todo[1].loc \in Suffixed
            BY <2>1, <2>2, CandidateAtHand
          <5>. QED
            BY <5>1, LibAssumption
        <4>2. fs[todo[1].loc].kind \notin {"class", "foreign"}
          BY <4>1 DEF OneKind, OneMachine, OneClass
        <4>3. returned.loc = todo[1].loc
          BY <2>1, <2>2, <3>2, AboutToOpen DEF Name, Buffer
        <4>. QED
          BY <2>1, <4>2, <4>3 DEF Openable
      <3>. QED
        BY <3>1, <3>2
    <2>3. ByName' /\ AnsweredByName'
      <3>1. CASE asked = "name"
        <4>1. todo \in Seq(Candidate) /\ Len(todo) \in Nat /\ Len(todo) >= 1
          BY <2>1, LenProperties, EmptySeq DEF IInv, TypeOK
        <4>2. PICK d \in 1 .. Len(todo) : d = 1
          BY <4>1
        <4>3. Tail(todo) = SubSeq(todo, d + 1, Len(todo))
          BY <2>1, <4>1, <4>2, HeadTailProperties
        <4>4. \A i \in 1 .. d : PassedOver(todo[i])
          BY <2>2, <3>1, <4>2
        <4>. QED
          BY <2>1, <3>1, <4>3, <4>4, GoesOn
      <3>2. CASE asked # "name"
        BY <2>1, <3>2 DEF ByName, AnsweredByName
      <3>. QED
        BY <3>1, <3>2
    <2>4. RatchetMapped'
      <3>. SUFFICES ASSUME phase = "startup", recorded # Invalid, OneMachine
                    PROVE  ~Raising
        BY <1>a, <1>d, <2>1 DEF ChoiceInv, RatchetMapped
      <3>. QED
        BY <2>1, RaisingOpens
    <2>. QED
      BY <1>b, <1>c, <2>1, <2>3, <2>4 DEF ChoiceInv, Silent, Unarmed, Disarmed
  <1>9. CASE OpenLoads
    <2>. DEFINE m == [loc |-> returned.loc, phase |-> phase, asked |-> asked,
                      suffixed |-> todo[1].loc \in Suffixed]
    <2>1. /\ Opening /\ Answered /\ Loadable(returned.loc) /\ asked # "none"
          /\ phase # "dead" /\ todo # <<>>
          /\ loaded' = loaded \cup {m} /\ asked' = "none"
          /\ UNCHANGED <<phase, recorded, shipped_glibcxx_version,
                         shipped_libstdcxx_path>>
      BY <1>9 DEF OpenLoads, Opening, Answered, Searching, Finish
    <2>2. RatchetMapped'
      <3>. SUFFICES ASSUME phase = "startup", recorded # Invalid, OneMachine, Raising
                    PROVE  RaisedBy(m)
        BY <1>a, <1>d, <2>1 DEF ChoiceInv, RatchetMapped
      <3>. QED
        BY <2>1, RaisingOpens DEF RaisedBy
    <2>3. ASSUME asked = "name", recorded = Invalid \/ phase = "running"
          PROVE  \E i \in 1 .. Len(SearchList) :
                    /\ returned.loc = SearchList[i].loc /\ ~Skipped(SearchList[i])
                    /\ \A j \in 1 .. i - 1 : Skipped(SearchList[j])
      <3>1. PICK n \in 0 .. Len(SearchList) - 1 :
                /\ Underway(n) /\ n + 1 \in 1 .. Len(SearchList)
                /\ todo[1] = SearchList[n + 1]
        BY <2>1, <2>3, CandidateAtHand
      <3>2. Unarmed
        BY <2>3 DEF Unarmed
      <3>3. returned.loc = todo[1].loc
        BY <2>1, <2>3, <3>2, AboutToOpen DEF Name
      <3>4. ~Skipped(SearchList[n + 1])
        BY <2>1, <3>1, <3>3 DEF Loadable, Skipped
      <3>5. PICK i \in 1 .. Len(SearchList) : i = n + 1
        BY <3>1
      <3>6. \A j \in 1 .. n : Skipped(SearchList[j])
        BY <3>1, <3>2 DEF Underway, PassedOver
      <3>7. i - 1 = n
        BY <3>5
      <3>. QED
        BY <3>1, <3>3, <3>4, <3>5, <3>6, <3>7
    <2>4. PlainWhenUnarmed'
      <3>. SUFFICES ASSUME NEW x \in loaded', x.asked = "name",
                           recorded = Invalid \/ x.phase = "running"
                    PROVE  \E i \in 1 .. Len(SearchList) :
                              /\ x.loc = SearchList[i].loc /\ ~Skipped(SearchList[i])
                              /\ \A j \in 1 .. i - 1 : Skipped(SearchList[j])
        BY <1>a, <2>1 DEF PlainWhenUnarmed
      <3>1. CASE x \in loaded
        BY <3>1 DEF ChoiceInv, PlainWhenUnarmed
      <3>2. CASE x = m
        BY <2>3, <3>2
      <3>. QED
        BY <2>1, <3>1, <3>2
    <2>5. OneNamed'
      <3>1. CASE asked = "name"
        BY <2>1, <3>1 DEF ChoiceInv, ByName, OneNamed
      <3>2. CASE asked # "name"
        BY <2>1, <3>2 DEF ChoiceInv, OneNamed
      <3>. QED
        BY <3>1, <3>2
    <2>. QED
      BY <1>b, <2>1, <2>2, <2>4, <2>5 DEF ChoiceInv, Silent, Unarmed, Disarmed,
         ByName, AnsweredByName
  <1>10. CASE RequestFails
    <2>1. /\ Searching /\ asked' = "none" /\ returned' = Nothing
          /\ UNCHANGED <<loaded, recorded, shipped_glibcxx_version,
                         shipped_libstdcxx_path>>
          /\ phase' \in {phase, "dead"}
          /\ \/ todo = <<>>
             \/ Opening /\ fs[returned.loc].kind = "text"
      BY <1>10 DEF RequestFails, Finish
    <2>2. RatchetMapped'
      <3>. SUFFICES ASSUME phase = "startup", recorded # Invalid, OneMachine
                    PROVE  ~Raising
        BY <1>a, <1>d, <2>1 DEF ChoiceInv, RatchetMapped
      <3>1. CASE todo = <<>>
        BY <3>1 DEF Raising
      <3>2. CASE Opening /\ fs[returned.loc].kind = "text"
        BY <3>2, RaisingOpens DEF Opening
      <3>. QED
        BY <2>1, <3>1, <3>2
    <2>. QED
      BY <1>b, <1>c, <2>1, <2>2 DEF ChoiceInv, Silent, Unarmed, Disarmed, ByName,
         AnsweredByName
  <1>11. CASE UNCHANGED vars
    <2>1. UNCHANGED <<phase, todo, asked, loaded, recorded, returned,
                      shipped_glibcxx_version, shipped_libstdcxx_path>>
      BY <1>11 DEF vars, libVars, ldVars
    <2>2. \A c : /\ PassedOver(c)' <=> PassedOver(c)
                 /\ Verdict(c)' <=> Verdict(c)
      BY <1>a, <2>1 DEF PassedOver, Verdict, Unarmed, OneKind, System, Openable
    <2>3. \A n : Underway(n)' <=> Underway(n)
      BY <1>a, <2>1, <2>2 DEF Underway
    <2>4. ByName' /\ AnsweredByName'
      BY <1>a, <2>1, <2>2, <2>3 DEF ChoiceInv, ByName, AnsweredByName, Unarmed, OneKind
    <2>5. RatchetMapped'
      BY <1>a, <1>d, <2>1 DEF ChoiceInv, RatchetMapped, Raising
    <2>. QED
      BY <1>b, <1>c, <2>1, <2>4, <2>5 DEF ChoiceInv, Silent, Unarmed, Disarmed
  <1>. QED
    BY <1>1, <1>2, <1>3, <1>4, <1>5, <1>6, <1>7, <1>8, <1>9, <1>10, <1>11 DEF Next

-----------------------------------------------------------------------------
(***************************************************************************)
(* The abstract choice, step by step.                                      *)
(***************************************************************************)
\* There is only one first candidate, so it is the one Offered chooses.
LEMMA FirstIsOffered ==
    ASSUME OwnPaths, NEW i \in 1 .. Len(SearchList), FirstOffer(i)
    PROVE  Offered = Version(SearchList[i].loc)
  <1>1. Len(SearchList) \in Nat
    BY SearchListByName
  <1>2. ASSUME NEW j \in 1 .. Len(SearchList), FirstOffer(j)
        PROVE  j = i
    <2>1. ~(i \in 1 .. j - 1) /\ ~(j \in 1 .. i - 1)
      BY <1>2 DEF FirstOffer
    <2>. QED
      BY <1>1, <2>1
  <1>. DEFINE c == CHOOSE j \in 1 .. Len(SearchList) : FirstOffer(j)
  <1>3. c \in 1 .. Len(SearchList) /\ FirstOffer(c)
    OBVIOUS
  <1>4. c = i
    BY <1>2, <1>3
  <1>. QED
    BY <1>4 DEF Offered

LEMMA OfferedStays ==
    ASSUME [Next]_vars
    PROVE  Offered' = Offered
  <1>1. UNCHANGED <<fs, dt_runpath, dt_rpath>>
    BY SearchListStays
  <1>. QED
    BY <1>1 DEF Offered, FirstOffer, System, Openable, Version, SearchList

LEMMA ChosenStays ==
    ASSUME [Next]_vars, FoundByName' = FoundByName
    PROVE  Chosen' = Chosen
  <1>1. fs' = fs
    BY SearchListStays
  <1>. QED
    BY <1>1 DEF Chosen, OneMachine, OneClass, Version

LEMMA VersionRange ==
    ASSUME TypeOK, NEW l \in Loc
    PROVE  Version(l) \in Nat /\ Version(l) # Invalid
  <1>1. fs[l] \in File
    BY DEF TypeOK, LibTypeOK
  <1>2. CASE fs[l] \in [kind : PlainKinds, version : {0}]
    BY <1>2, LibAssumption DEF Version
  <1>3. CASE fs[l] \in [kind : VersionKinds, version : Versions]
    <2>1. PICK v \in Versions : v = fs[l].version
      BY <1>3
    <2>2. v \in Nat /\ Invalid \in Nat /\ v < Invalid
      BY LibAssumption
    <2>3. v # Invalid
      BY <2>2
    <2>. QED
      BY <2>1, <2>2, <2>3 DEF Version
  <1>. QED
    BY <1>1, <1>2, <1>3 DEF File

\* The library a search by name maps during startup is the abstract choice.
LEMMA LoadsTheChoice ==
    ASSUME IInv, ChoiceInv, [Next]_vars, OpenLoads, asked = "name",
           phase = "startup", OneKind
    PROVE  Choice!Choose \/ Choice!ChooseUnaided
  <1>1. /\ Opening /\ Loadable(returned.loc) /\ recorded' = recorded
        /\ todo # <<>> /\ phase # "dead"
        /\ loaded' = loaded \cup {[loc |-> returned.loc, phase |-> phase,
                                   asked |-> asked,
                                   suffixed |-> todo[1].loc \in Suffixed]}
    BY DEF OpenLoads, Opening, Answered, Searching, Finish
  <1>2. loaded = {}
    BY DEF ChoiceInv, ByName
  <1>3. FoundByName = {} /\ FoundByName' = {returned.loc}
    <2>. DEFINE m == [loc |-> returned.loc, phase |-> phase, asked |-> asked,
                      suffixed |-> todo[1].loc \in Suffixed]
    <2>1. /\ loaded' = {m} /\ m.loc = returned.loc
          /\ m.phase = "startup" /\ m.asked = "name"
      BY <1>1, <1>2
    <2>. HIDE DEF m
    <2>2. {n \in loaded' : n.phase = "startup" /\ n.asked = "name"} = {m}
      BY <2>1
    <2>3. FoundByName' = {n.loc : n \in {m}}
      BY <2>2 DEF FoundByName
    <2>. QED
      BY <1>2, <2>1, <2>3 DEF FoundByName
  <1>4. Chosen = Invalid
    BY <1>3 DEF Chosen
  <1>5. Chosen' = Version(returned.loc)
    <2>1. OneMachine' /\ OneClass' /\ FoundByName' # {}
      BY <1>3, SearchListStays DEF OneKind
    <2>2. (CHOOSE l \in FoundByName' : TRUE) = returned.loc
      BY <1>3
    <2>3. Chosen' = Version(CHOOSE l \in FoundByName : TRUE)'
      BY <2>1 DEF Chosen
    <2>4. fs' = fs
      BY SearchListStays
    <2>. QED
      BY <2>2, <2>3, <2>4 DEF Version
  <1>6. Offered' = Offered
    BY OfferedStays
  <1>7. Version(returned.loc) # Invalid
    <2>1. returned.loc \in Loc
      <3>1. returned.from \in {"name", "buffer"} => returned.loc \in Loc
        BY DEF IInv, TypeOK, LibTypeOK, Returns, Nothing, Current, Null, Aborted,
           Name, Buffer
      <3>2. returned.from \in {"name", "buffer"}
        BY <1>1, AboutToOpen DEF Name, Buffer
      <3>. QED
        BY <3>1, <3>2
    <2>. QED
      BY <2>1, VersionRange DEF IInv
  <1>8. CASE Unarmed
    <2>1. recorded = Invalid
      BY <1>8 DEF Unarmed
    <2>. QED
      BY <1>1, <1>4, <1>5, <1>6, <1>7, <2>1 DEF Choice!ChooseUnaided
  <1>9. CASE ~Unarmed
    <2>1. PICK n \in 0 .. Len(SearchList) - 1 :
              /\ Underway(n) /\ n + 1 \in 1 .. Len(SearchList)
              /\ todo[1] = SearchList[n + 1] /\ todo[1].loc \in Suffixed
      BY <1>1, CandidateAtHand
    <2>. DEFINE c == todo[1]
    <2>2. /\ recorded # Invalid /\ System(c)
          /\ \/ /\ returned = Name(c.loc)
                /\ Openable(c.loc) => Version(c.loc) >= recorded
             \/ /\ returned = Buffer(shipped_libstdcxx_path)
                /\ Openable(c.loc)
                /\ MmapMayFail \/ Version(c.loc) < recorded
                /\ Version(shipped_libstdcxx_path) = recorded
      BY <1>1, <1>9, AboutToOpen
    <2>3. Openable(c.loc)
      BY <1>1, <2>2 DEF Loadable, Openable, Name
    <2>4. PICK i \in 1 .. Len(SearchList) : i = n + 1
      BY <2>1
    <2>5. FirstOffer(i)
      <3>1. \A j \in 1 .. n : System(SearchList[j]) => ~Openable(SearchList[j].loc)
        BY <1>9, <2>1 DEF Underway, PassedOver
      <3>2. i - 1 = n
        BY <2>4
      <3>. QED
        BY <2>1, <2>2, <2>3, <2>4, <3>1, <3>2 DEF FirstOffer
    <2>6. Offered = Version(c.loc)
      BY <2>1, <2>4, <2>5, FirstIsOffered DEF ChoiceInv
    <2>7. Version(c.loc) \in Nat /\ Version(c.loc) # Invalid
      BY <2>1, VersionRange, LibAssumption DEF IInv
    <2>8. recorded \in Nat
      BY LibAssumption DEF IInv, TypeOK, LibTypeOK
    <2>9. \/ Chosen' = Choice!Higher(recorded, Offered)
          \/ MmapMayFail /\ Chosen' = recorded
      <3>1. CASE returned = Name(c.loc)
        <4>1. Chosen' = Version(c.loc) /\ Version(c.loc) >= recorded
          BY <1>5, <2>2, <2>3, <3>1 DEF Name, Buffer
        <4>. QED
          BY <2>6, <2>7, <2>8, <4>1 DEF Choice!Higher
      <3>2. CASE returned = Buffer(shipped_libstdcxx_path)
        <4>1. Chosen' = recorded /\ (MmapMayFail \/ Version(c.loc) < recorded)
          BY <1>5, <2>2, <3>2 DEF Name, Buffer
        <4>. QED
          BY <2>6, <2>7, <2>8, <4>1 DEF Choice!Higher
      <3>. QED
        BY <2>2, <3>1, <3>2
    <2>. QED
      BY <1>1, <1>4, <1>6, <2>2, <2>6, <2>7, <2>9 DEF Choice!Choose
  <1>. QED
    BY <1>8, <1>9

LEMMA StepRefines ==
    ASSUME IInv, ChoiceInv, [Next]_vars
    PROVE  [Choice!ChoiceNext]_Choice!choiceVars
  <1>. SUFFICES ASSUME ~UNCHANGED <<recorded, Offered, Chosen>>
                PROVE  Choice!Ship \/ Choice!Choose \/ Choice!ChooseUnaided
    BY DEF Choice!ChoiceNext, Choice!choiceVars
  <1>1. Offered' = Offered
    BY OfferedStays
  <1>2. CASE CallLaVersion
    <2>1. loaded = {} /\ recorded = Invalid /\ loaded' = {}
      BY <1>2 DEF CallLaVersion, IInv, Fresh
    <2>2. Chosen = Invalid /\ Chosen' = Chosen
      <3>1. FoundByName = {} /\ FoundByName' = {}
        BY <2>1 DEF FoundByName
      <3>. QED
        BY <3>1 DEF Chosen
    <2>. QED
      BY <1>1, <2>1, <2>2 DEF Choice!Ship
  <1>3. CASE OpenLoads
    <2>. DEFINE m == [loc |-> returned.loc, phase |-> phase, asked |-> asked,
                      suffixed |-> todo[1].loc \in Suffixed]
    <2>1. recorded' = recorded /\ loaded' = loaded \cup {m}
      BY <1>3 DEF OpenLoads, Finish
    <2>2. CASE asked = "name" /\ phase = "startup"
      <3>1. OneKind
        <4>1. Chosen' # Chosen
          BY <1>1, <2>1
        <4>2. OneMachine' = OneMachine /\ OneClass' = OneClass
          BY SearchListStays
        <4>. QED
          BY <4>1, <4>2 DEF OneKind, Chosen
      <3>. QED
        BY <1>3, <2>2, <3>1, LoadsTheChoice
    <2>3. CASE ~(asked = "name" /\ phase = "startup")
      <3>1. {n \in loaded' : n.phase = "startup" /\ n.asked = "name"}
              = {n \in loaded : n.phase = "startup" /\ n.asked = "name"}
        BY <2>1, <2>3
      <3>2. FoundByName' = FoundByName
        BY <3>1 DEF FoundByName
      <3>. QED
        BY <1>1, <2>1, <3>2, ChosenStays
    <2>. QED
      BY <2>2, <2>3
  <1>4. CASE ~CallLaVersion /\ ~OpenLoads
    <2>1. UNCHANGED <<loaded, recorded>>
      BY <1>4 DEF Next, vars, libVars, ldVars, LinkMapAdd, LinkMapConsistent,
         CallLaActivity, la_activity, RequestByName, RequestByPath, Begin,
         CallLaObjsearch, la_objsearch, OpenVerify, DropCandidate, OpenRejected,
         RequestFails, GoOn, Finish
    <2>2. FoundByName' = FoundByName
      BY <2>1 DEF FoundByName
    <2>. QED
      BY <1>1, <2>1, <2>2, ChosenStays
  <1>. QED
    BY <1>2, <1>3, <1>4

-----------------------------------------------------------------------------
(***************************************************************************)
(* The theorems.                                                           *)
(***************************************************************************)

\* Every reachable state of ld.so and the library satisfies the invariant.
THEOREM ChoiceInvariance == Spec => [](IInv /\ ChoiceInv)
  BY InvInit, InvNext, ChoiceInvInit, ChoiceInvNext, PTL DEF Spec

\* The version to beat is always that of a library that was mapped, or the
\* recorded one, unless an mmap failed at the second look at a path: for any
\* files, paths and number of requests (the store at the end of la_objsearch).
THEOREM RaisedByMapped == Spec => []VersionToBeatIsMapped
  <1>1. ASSUME IInv, ChoiceInv
        PROVE  VersionToBeatIsMapped
    <2>. SUFFICES ASSUME phase = "startup", asked = "none", ~Disarmed, OneMachine
                  PROVE  \/ shipped_glibcxx_version = recorded
                         \/ \E m \in loaded : RaisedBy(m)
      BY DEF VersionToBeatIsMapped, RaisedBy
    <2>1. recorded # Invalid
      BY <1>1 DEF ChoiceInv, Silent, Unarmed
    <2>. QED
      BY <1>1, <2>1 DEF ChoiceInv, RatchetMapped, Raising
  <1>. QED
    BY <1>1, ChoiceInvariance, PTL

\* An unarmed library leaves every search by name as ld.so does it alone (the
\* early exit of la_objsearch).
THEOREM UnarmedIsPlain == Spec => []PlainWhenUnarmed
  <1>1. ChoiceInv => PlainWhenUnarmed
    BY DEF ChoiceInv
  <1>. QED
    BY <1>1, ChoiceInvariance, PTL

\* la_version and la_objsearch give a program that starts the higher of the
\* shipped version and the first one of the system, and never change it
\* afterwards, whatever the search paths, the preloads, the versions and the
\* files of this machine and class (see Chosen for others).
THEOREM Refinement == Spec => RefinesChoice
  <1>1. Init => Choice!ChoiceInit
    <2>1. Init => FoundByName = {} /\ recorded = Invalid
      BY DEF Init, LibInit, FoundByName
    <2>. QED
      BY <2>1 DEF Choice!ChoiceInit, Chosen
  <1>2. IInv /\ ChoiceInv /\ [Next]_vars => [Choice!ChoiceNext]_Choice!choiceVars
    BY StepRefines
  <1>. QED
    BY <1>1, <1>2, ChoiceInvariance, PTL DEF Spec, RefinesChoice, Choice!ChoiceSpec
=============================================================================
