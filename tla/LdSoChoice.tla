------------------------------ MODULE LdSoChoice ------------------------------
(***************************************************************************)
(* What a program gets from the searches of LdSo as a whole: the properties *)
(* of ld.so and the audit library together, and the abstract choice they   *)
(* implement.                                                              *)
(***************************************************************************)
EXTENDS LdSo

Version(l) == fs[l].version

\* The candidates of a search by name that the library compares: those of
\* LD_LIBRARY_PATH, of the cache and of the system directories.
System(c) == c.flag # "RUNPATH"

\* The first of them that opens, as a position of the search.
FirstOffer(i) ==
    /\ System(SearchList[i]) /\ Openable(SearchList[i].loc)
    /\ \A j \in 1 .. i - 1 :
          System(SearchList[j]) => ~Openable(SearchList[j].loc)

Offered ==
    IF \E i \in 1 .. Len(SearchList) : FirstOffer(i)
    THEN Version(SearchList[CHOOSE i \in 1 .. Len(SearchList) : FirstOffer(i)].loc)
    ELSE Invalid

\* No candidate is a library of another machine, which would raise the version
\* to beat and then be skipped (see ReplacesNoNewer).
OneMachine == \A l \in Loc : fs[l].kind # "foreign"

\* Nor is one of the other class, after which ld.so may leave out others.
OneClass == \A l \in Loc : fs[l].kind # "class"

\* What a search by name gave the program while it started.
FoundByName ==
    {m.loc : m \in {n \in loaded : n.phase = "startup" /\ n.asked = "name"}}

Chosen ==
    IF FoundByName = {} \/ ~OneMachine \/ ~OneClass THEN Invalid
    ELSE Version(CHOOSE l \in FoundByName : TRUE)

\* The abstract choice: what was recorded, what the system offers, and what was
\* mapped while the program started; nothing is said of mixed machines.
Choice == INSTANCE LibstdcxxChoice WITH
    None       <- Invalid,
    MayMisread <- MmapMayFail,
    shipped    <- recorded,
    offered    <- Offered,
    chosen     <- Chosen

\* The audited search implements the abstract choice (the README's "choose the
\* highest version libstdc++ between the shipped version and the first system
\* version", la_version and la_objsearch together).
RefinesChoice == Choice!ChoiceSpec

\* The version to beat is that of a library that was mapped, or the one that
\* was recorded: a candidate that raises it is one ld.so can use (the store at
\* the end of la_objsearch).  Only for a path, which is vetted twice, an mmap
\* that fails the second time has the shipped library mapped instead.
VersionToBeatIsMapped ==
    phase = "startup" /\ asked = "none" /\ ~Disarmed /\ OneMachine =>
        \/ shipped_glibcxx_version = recorded
        \/ \E m \in loaded : Version(m.loc) = shipped_glibcxx_version
        \/ MmapMayFail /\ \E m \in loaded : m.loc = shipped_libstdcxx_path

\* Where the library has nothing to say, because la_version failed or because
\* the program is running, a search by name finds what ld.so finds alone: the
\* first candidate it does not skip (the early exit of la_objsearch).
Skipped(c) == fs[c.loc].kind \in {"absent", "class", "foreign"}

PlainWhenUnarmed ==
    \A m \in loaded :
        m.asked = "name" /\ (recorded = Invalid \/ m.phase = "running") =>
            \E i \in 1 .. Len(SearchList) :
                /\ m.loc = SearchList[i].loc /\ ~Skipped(SearchList[i])
                /\ \A j \in 1 .. i - 1 : Skipped(SearchList[j])

-----------------------------------------------------------------------------
\* A system library this machine can load is replaced by the shipped one only
\* when it is not the newer of the two (the comment of la_objsearch: "we compare
\* the shipped vs system version. We load whichever is higher version").
ReplacesNoNewer ==
    returned.from = "buffer" /\ fs[todo[1].loc].kind = "lib" =>
        Version(todo[1].loc) <= recorded

\* A candidate a search by name can count on: a system library this machine can
\* load, with no file on the way to it whose section headers an ASSERT rejects,
\* which ends the process, and none of the other class in its own list of
\* directories, after which ld.so may leave out the rest of that list.
InReach(i) ==
    /\ System(SearchList[i]) /\ fs[SearchList[i].loc].kind = "lib"
    /\ \A j \in 1 .. i - 1 :
          /\ System(SearchList[j]) => fs[SearchList[j].loc].kind # "broken"
          /\ SearchList[j].flag = SearchList[i].flag =>
                fs[SearchList[j].loc].kind # "class"

\* A program that ships a library it can load starts when the system has one
\* it can load and ld.so gets to it, whichever of the two is newer (README: the
\* application runs "regardless of the users' libstdc++ version").
ShippedAndSystem ==
    /\ phase = "startup" /\ asked = "name" /\ ~Disarmed
    /\ fs[shipped_libstdcxx_path].kind = "lib"
    /\ \E i \in 1 .. Len(SearchList) : InReach(i)

StartsWithBoth == ShippedAndSystem ~> LoadedIn("startup") # {}

\* The same without a system library: the shipped one is the only one.
ShippedAlone ==
    /\ phase = "startup" /\ asked = "name" /\ ~Disarmed
    /\ fs[shipped_libstdcxx_path].kind = "lib"

StartsWithShipped == ShippedAlone ~> LoadedIn("startup") # {}

\* A process whose executable ships a version maps none older, at any time:
\* the comment of la_activity frees the path because by LA_ACT_CONSISTENT
\* "all libraries" are loaded.
NeverBelowShippedLater ==
    recorded # Invalid =>
        \A m \in loaded : m.suffixed => Version(m.loc) >= recorded
=============================================================================
