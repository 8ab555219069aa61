---------------------------- MODULE DtPathSearch ----------------------------
(***************************************************************************)
(* find_libstdcxx_from_dt_path: the walk over the colon separated sections *)
(* of DT_RUNPATH or DT_RPATH, with the mmapped buffer in which every       *)
(* candidate path is put together.  Of the strings only the lengths are    *)
(* kept; a section is its length without "$ORIGIN" and whether it begins   *)
(* with it.  There is no malloc and no libc string to lean on here, so the *)
(* arithmetic of the buffer is the point.                                  *)
(***************************************************************************)
EXTENDS Integers, Sequences

CONSTANTS
    Sections,     \* the sections that may occur
    MaxSections,  \* bound on their number
    OriginLens    \* lengths of the executable's directory

Section == [origin : BOOLEAN, rest : Nat, opens : BOOLEAN]

ASSUME SectionsAssumption ==
    /\ Sections \subseteq Section
    /\ MaxSections \in Nat
    /\ OriginLens \subseteq Nat

RelLen == 15   \* len_libstdcxx_rel_path, of "/libstdc++.so.6"

VARIABLES
    dt_path,          \* the sections
    len_ORIGIN,
    k,                \* the section under dt_path_cursor
    len_path_buffer,  \* 0: no buffer yet
    live,             \* buffers mmapped and not unmapped
    used,             \* strlen(libstdcxx_path)
    whole,            \* no strncat has cut anything off the path in the buffer
    pc                \* "scan", "copy", "try", "found", "failed", or "nomem"
                      \* for the failure that leaves from within the loop

vars == <<dt_path, len_ORIGIN, k, len_path_buffer, live, used, whole, pc>>

size_t_min(a, b) == IF a < b THEN a ELSE b

\* The empty section: "", but not "$ORIGIN" alone.
Empty(s) == ~s.origin /\ s.rest = 0

\* Faulty variants, named Bug...: each stands before what it replaces.
BugRestForgotten(s) == (IF s.origin THEN len_ORIGIN ELSE 0) + RelLen + 1
BugNoNul(s) == (IF s.origin THEN len_ORIGIN ELSE 0) + s.rest + RelLen

needed_len(s) == (IF s.origin THEN len_ORIGIN ELSE 0) + s.rest + RelLen + 1

\* The characters strncat appends of a string of len characters with the limit
\* n.  A size_t that goes below 0 is a limit beyond any length.
Appended(len, n) == IF n < 0 THEN len ELSE size_t_min(len, n)

-----------------------------------------------------------------------------
Init ==
    /\ dt_path \in UNION {[1 .. n -> Sections] : n \in 0 .. MaxSections}
    /\ len_ORIGIN \in OriginLens
    /\ k = 1
    /\ len_path_buffer = 0 /\ live = 0
    /\ used = 0 /\ whole = TRUE
    /\ pc = "scan"

AtSection == pc = "scan" /\ k <= Len(dt_path)

SkipEmpty ==
    /\ AtSection /\ Empty(dt_path[k])
    /\ k' = k + 1
    /\ UNCHANGED <<dt_path, len_ORIGIN, len_path_buffer, live, used, whole, pc>>

\* The buffer is large enough already.
Reuse ==
    /\ AtSection /\ ~Empty(dt_path[k])
    /\ needed_len(dt_path[k]) <= len_path_buffer
    /\ pc' = "copy"
    /\ UNCHANGED <<dt_path, len_ORIGIN, k, len_path_buffer, live, used, whole>>

MustGrow ==
    /\ AtSection /\ ~Empty(dt_path[k])
    /\ needed_len(dt_path[k]) > len_path_buffer

BugUnmapsAlways == live - 1

\* The buffers mapped once the one in use, if any, was given up.
Unmapped == IF len_path_buffer > 0 THEN live - 1 ELSE live

BugGrowLeaks ==
    /\ MustGrow
    /\ live' = live + 1
    /\ len_path_buffer' = needed_len(dt_path[k])
    /\ pc' = "copy"
    /\ UNCHANGED <<dt_path, len_ORIGIN, k, used, whole>>

Grow ==
    /\ MustGrow
    /\ live' = Unmapped + 1
    /\ len_path_buffer' = needed_len(dt_path[k])
    /\ pc' = "copy"
    /\ UNCHANGED <<dt_path, len_ORIGIN, k, used, whole>>

GrowFails ==
    /\ MustGrow
    /\ live' = Unmapped
    /\ pc' = "nomem"
    /\ UNCHANGED <<dt_path, len_ORIGIN, k, len_path_buffer, used, whole>>

\* ORIGIN, the rest of the section and "/libstdc++.so.6", one strncat each.
Copy ==
    /\ pc = "copy"
    /\ LET s      == dt_path[k]
           origin == IF s.origin THEN len_ORIGIN ELSE 0
           room   == len_path_buffer - 1
       IN  /\ used' = Appended(origin, room)
                        + Appended(s.rest, room - origin)
                        + Appended(RelLen, room - origin - s.rest)
           /\ whole' = (used' = origin + s.rest + RelLen)
    /\ pc' = "try"
    /\ UNCHANGED <<dt_path, len_ORIGIN, k, len_path_buffer, live>>

\* The callback opened the path: the caller owns the buffer from here on.
TrySucceeds ==
    /\ pc = "try" /\ dt_path[k].opens
    /\ pc' = "found"
    /\ UNCHANGED <<dt_path, len_ORIGIN, k, len_path_buffer, live, used, whole>>

BugNextOfNext ==
    /\ pc = "try" /\ ~dt_path[k].opens
    /\ k' = k + 2
    /\ pc' = "scan"
    /\ UNCHANGED <<dt_path, len_ORIGIN, len_path_buffer, live, used, whole>>

TryFails ==
    /\ pc = "try" /\ ~dt_path[k].opens
    /\ k' = k + 1
    /\ pc' = "scan"
    /\ UNCHANGED <<dt_path, len_ORIGIN, len_path_buffer, live, used, whole>>

GiveUp ==
    /\ pc = "scan" /\ k > Len(dt_path)
    /\ live' = Unmapped
    /\ pc' = "failed"
    /\ UNCHANGED <<dt_path, len_ORIGIN, k, len_path_buffer, used, whole>>

Next ==
    \/ SkipEmpty \/ Reuse \/ Grow \/ GrowFails
    \/ Copy \/ TrySucceeds \/ TryFails \/ GiveUp

Spec == Init /\ [][Next]_vars

-----------------------------------------------------------------------------
TypeOK ==
    /\ dt_path \in Seq(Section) /\ len_ORIGIN \in Nat
    /\ k \in Nat \ {0}
    /\ len_path_buffer \in Nat /\ live \in Nat /\ used \in Nat
    /\ whole \in BOOLEAN
    /\ pc \in {"scan", "copy", "try", "found", "failed", "nomem"}
    /\ pc \in {"copy", "try", "found"} => k <= Len(dt_path)

Written == pc \in {"try", "found"}

\* The three strncat calls never write past the buffer, the final NUL included,
\* also where the buffer is left over from a longer section (their limits are
\* differences of size_t and wrap when they go below zero).
InBounds == Written => used + 1 <= len_path_buffer

\* and none of them cuts a path short: what is opened is the section with
\* $ORIGIN replaced.
Uncut == Written => whole

\* At most one buffer is mapped at any time; none is left when the search
\* fails, and exactly the returned one when it succeeds (the ownership note of
\* the function's comment).
OneBuffer ==
    live = IF pc \in {"failed", "nomem"} \/ len_path_buffer = 0 THEN 0 ELSE 1

\* The section returned is the first whose path opens, empty ones left out.
ReturnsFirst ==
    pc = "found" =>
        /\ dt_path[k].opens /\ ~Empty(dt_path[k])
        /\ \A j \in 1 .. k - 1 : Empty(dt_path[j]) \/ ~dt_path[j].opens

\* Only a failed mmap or a list without a candidate ends the search in vain.
FailsForCause ==
    pc = "failed" =>
        \A j \in 1 .. Len(dt_path) : Empty(dt_path[j]) \/ ~dt_path[j].opens

\* The length handed to the caller, with which the buffer is unmapped, is that
\* of the longest path built so far, NUL included (src/test/test.cpp expects
\* it of every search).
LengthOfLongest ==
    Written =>
        /\ \E j \in 1 .. k : len_path_buffer = needed_len(dt_path[j])
        /\ \A j \in 1 .. k :
              ~Empty(dt_path[j]) => needed_len(dt_path[j]) <= len_path_buffer
=============================================================================
