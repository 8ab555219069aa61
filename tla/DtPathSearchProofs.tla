------------------------- MODULE DtPathSearchProofs -------------------------
(***************************************************************************)
(* The buffer arithmetic of find_libstdcxx_from_dt_path, for every list of *)
(* sections and every executable's directory, and which library la_version *)
(* takes for the shipped one, for every executable and every text of its   *)
(* DT_RUNPATH and DT_RPATH: the two searches one after the other keep what *)
(* the first part shows of one.                                            *)
(***************************************************************************)
EXTENDS ShippedSearch, SequenceTheorems, TLAPS

\* The sections the walk is through with.
Passed == IF pc \in {"copy", "try", "found"} THEN k ELSE k - 1

\* The buffer has the length of the longest path built for them.
Longest ==
    pc \notin {"failed", "nomem"} =>
        /\ \A j \in 1 .. Passed :
              ~Empty(dt_path[j]) => needed_len(dt_path[j]) <= len_path_buffer
        /\ \/ len_path_buffer = 0
           \/ \E j \in 1 .. Passed : len_path_buffer = needed_len(dt_path[j])

\* Nothing before the section at hand opens.
NoneBefore ==
    /\ k <= Len(dt_path) + 1
    /\ \A j \in 1 .. k - 1 : Empty(dt_path[j]) \/ ~dt_path[j].opens

Current == pc \in {"copy", "try", "found"} => ~Empty(dt_path[k])

IInv ==
    /\ TypeOK /\ InBounds /\ Uncut /\ OneBuffer /\ ReturnsFirst /\ FailsForCause
    /\ Longest /\ NoneBefore /\ Current

-----------------------------------------------------------------------------
LEMMA NeededLen ==
    ASSUME NEW s \in Section, len_ORIGIN \in Nat
    PROVE  needed_len(s) \in Nat /\ needed_len(s) >= 16
  <1>1. s.rest \in Nat
    BY DEF Section
  <1>. QED
    BY <1>1 DEF needed_len, RelLen

\* With a buffer of needed_len or more, every strncat appends all of its string
\* and the NUL fits.
LEMMA RoomForAll ==
    ASSUME NEW origin \in Nat, NEW rest \in Nat, NEW len \in Nat,
           origin + rest + RelLen + 1 <= len
    PROVE  /\ Appended(origin, len - 1) = origin
           /\ Appended(rest, len - 1 - origin) = rest
           /\ Appended(RelLen, len - 1 - origin - rest) = RelLen
  BY DEF Appended, size_t_min, RelLen

LEMMA InvInit == Init => IInv
  <1>. SUFFICES ASSUME Init PROVE IInv
    OBVIOUS
  <1>1. dt_path \in Seq(Section)
    <2>1. PICK n \in 0 .. MaxSections : dt_path \in [1 .. n -> Sections]
      BY DEF Init
    <2>. QED
      BY <2>1, SectionsAssumption
  <1>2. TypeOK
    BY <1>1, SectionsAssumption DEF Init, TypeOK
  <1>. QED
    BY <1>1, <1>2 DEF Init, IInv, InBounds, Uncut, OneBuffer, ReturnsFirst,
       FailsForCause, Longest, NoneBefore, Current, Passed, Written

LEMMA InvNext ==
    ASSUME IInv, [Next]_vars
    PROVE  IInv'
  <1>. USE DEF IInv
  <1>a. /\ dt_path \in Seq(Section) /\ len_ORIGIN \in Nat /\ k \in Nat \ {0}
        /\ Len(dt_path) \in Nat /\ len_path_buffer \in Nat /\ live \in Nat
        /\ used \in Nat
    BY DEF TypeOK
  <1>b. \A j \in 1 .. Len(dt_path) :
            needed_len(dt_path[j]) \in Nat /\ needed_len(dt_path[j]) >= 16
    BY <1>a, NeededLen
  <1>1. CASE SkipEmpty
    <2>1. /\ k <= Len(dt_path) /\ Empty(dt_path[k]) /\ pc = "scan" /\ k' = k + 1
          /\ UNCHANGED <<dt_path, len_ORIGIN, len_path_buffer, live, used, whole, pc>>
      BY <1>1 DEF SkipEmpty, AtSection
    <2>2. TypeOK'
      BY <1>a, <2>1 DEF TypeOK
    <2>3. NoneBefore'
      BY <1>a, <2>1 DEF NoneBefore, Empty
    <2>4. Longest'
      BY <1>a, <2>1 DEF Longest, Passed, Empty, needed_len
    <2>. QED
      BY <2>1, <2>2, <2>3, <2>4 DEF InBounds, Uncut, OneBuffer, ReturnsFirst,
         FailsForCause, Current, Written
  <1>2. CASE Reuse
    <2>1. /\ k <= Len(dt_path) /\ ~Empty(dt_path[k]) /\ pc = "scan" /\ pc' = "copy"
          /\ needed_len(dt_path[k]) <= len_path_buffer
          /\ UNCHANGED <<dt_path, len_ORIGIN, k, len_path_buffer, live, used, whole>>
      BY <1>2 DEF Reuse, AtSection
    <2>2. TypeOK'
      BY <1>a, <2>1 DEF TypeOK
    <2>3. NoneBefore' /\ Current'
      BY <1>a, <2>1 DEF NoneBefore, Current, Empty
    <2>4. Longest'
      BY <1>a, <1>b, <2>1 DEF Longest, Passed, Empty, needed_len
    <2>. QED
      BY <2>1, <2>2, <2>3, <2>4 DEF InBounds, Uncut, OneBuffer, ReturnsFirst,
         FailsForCause, Written
  <1>3. CASE Grow
    <2>1. /\ k <= Len(dt_path) /\ ~Empty(dt_path[k]) /\ pc = "scan" /\ pc' = "copy"
          /\ needed_len(dt_path[k]) > len_path_buffer
          /\ len_path_buffer' = needed_len(dt_path[k])
          /\ live' = Unmapped + 1
          /\ UNCHANGED <<dt_path, len_ORIGIN, k, used, whole>>
      BY <1>3 DEF Grow, MustGrow, AtSection
    <2>2. live' = 1
      BY <1>a, <2>1 DEF OneBuffer, Unmapped
    <2>3. len_path_buffer' \in Nat /\ len_path_buffer' # 0
      BY <1>a, <1>b, <2>1
    <2>4. TypeOK'
      BY <1>a, <2>1, <2>2, <2>3 DEF TypeOK
    <2>5. NoneBefore' /\ Current'
      BY <1>a, <2>1 DEF NoneBefore, Current, Empty
    <2>6. Longest'
      <3>1. ASSUME NEW j \in 1 .. k, ~Empty(dt_path[j])
            PROVE  needed_len(dt_path[j]) <= needed_len(dt_path[k])
        <4>1. CASE j = k
          BY <1>a, <1>b, <2>1, <4>1
        <4>2. CASE j \in 1 .. k - 1
          BY <1>a, <1>b, <2>1, <3>1, <4>2 DEF Longest, Passed
        <4>. QED
          BY <1>a, <4>1, <4>2
      <3>. QED
        BY <1>a, <2>1, <3>1 DEF Longest, Passed, Empty, needed_len
    <2>. QED
      BY <2>1, <2>2, <2>3, <2>4, <2>5, <2>6 DEF InBounds, Uncut, OneBuffer,
         ReturnsFirst, FailsForCause, Written
  <1>4. CASE GrowFails
    <2>1. /\ pc = "scan" /\ pc' = "nomem" /\ live' = Unmapped
          /\ UNCHANGED <<dt_path, len_ORIGIN, k, len_path_buffer, used, whole>>
      BY <1>4 DEF GrowFails, MustGrow, AtSection
    <2>2. live' = 0
      BY <1>a, <2>1 DEF OneBuffer, Unmapped
    <2>3. TypeOK'
      BY <1>a, <2>1, <2>2 DEF TypeOK
    <2>4. NoneBefore'
      BY <1>a, <2>1 DEF NoneBefore, Empty
    <2>. QED
      BY <2>1, <2>2, <2>3, <2>4 DEF InBounds, Uncut, OneBuffer, ReturnsFirst,
         FailsForCause, Longest, Current, Written
  <1>5. CASE Copy
    <2>. DEFINE s      == dt_path[k]
                origin == IF s.origin THEN len_ORIGIN ELSE 0
                room   == len_path_buffer - 1
    <2>1. /\ pc = "copy" /\ pc' = "try" /\ k <= Len(dt_path)
          /\ UNCHANGED <<dt_path, len_ORIGIN, k, len_path_buffer, live>>
          /\ used' = Appended(origin, room) + Appended(s.rest, room - origin)
                       + Appended(RelLen, room - origin - s.rest)
          /\ whole' = (used' = origin + s.rest + RelLen)
      BY <1>5 DEF Copy, TypeOK
    <2>2. s.rest \in Nat /\ origin \in Nat
      <3>1. s \in Section
        BY <1>a, <2>1
      <3>. QED
        BY <1>a, <3>1 DEF Section
    <2>3. origin + s.rest + RelLen + 1 <= len_path_buffer
      BY <1>a, <2>1 DEF Longest, Passed, Current, needed_len
    <2>4. used' = origin + s.rest + RelLen /\ whole' = TRUE
      <3>1. PICK o \in Nat : o = origin
        BY <2>2
      <3>2. PICK r \in Nat : r = s.rest
        BY <2>2
      <3>3. PICK n \in Nat : n = len_path_buffer
        BY <1>a
      <3>. HIDE DEF origin, s
      <3>4. o + r + RelLen + 1 <= n
        BY <2>3, <3>1, <3>2, <3>3
      <3>5. /\ Appended(o, n - 1) = o
            /\ Appended(r, n - 1 - o) = r
            /\ Appended(RelLen, n - 1 - o - r) = RelLen
        BY <3>4, RoomForAll
      <3>. QED
        BY <2>1, <3>1, <3>2, <3>3, <3>5
    <2>5. used' \in Nat /\ used' + 1 <= len_path_buffer
      BY <2>2, <2>3, <2>4 DEF RelLen
    <2>6. TypeOK'
      BY <1>a, <2>1, <2>4, <2>5 DEF TypeOK
    <2>7. NoneBefore' /\ Current'
      BY <1>a, <2>1 DEF NoneBefore, Current, Empty
    <2>8. Longest'
      BY <1>a, <2>1 DEF Longest, Passed, Empty, needed_len
    <2>. QED
      BY <2>1, <2>4, <2>5, <2>6, <2>7, <2>8 DEF InBounds, Uncut, OneBuffer,
         ReturnsFirst, FailsForCause, Written
  <1>6. CASE TrySucceeds
    <2>1. /\ pc = "try" /\ pc' = "found" /\ dt_path[k].opens /\ k <= Len(dt_path)
          /\ UNCHANGED <<dt_path, len_ORIGIN, k, len_path_buffer, live, used, whole>>
      BY <1>6 DEF TrySucceeds, TypeOK
    <2>2. TypeOK'
      BY <1>a, <2>1 DEF TypeOK
    <2>3. NoneBefore' /\ Current'
      BY <1>a, <2>1 DEF NoneBefore, Current, Empty
    <2>4. Longest'
      BY <1>a, <2>1 DEF Longest, Passed, Empty, needed_len
    <2>5. ReturnsFirst'
      BY <1>a, <2>1, <2>3 DEF ReturnsFirst, NoneBefore, Current
    <2>. QED
      BY <2>1, <2>2, <2>3, <2>4, <2>5 DEF InBounds, Uncut, OneBuffer,
         FailsForCause, Written
  <1>7. CASE TryFails
    <2>1. /\ pc = "try" /\ pc' = "scan" /\ ~dt_path[k].opens /\ k <= Len(dt_path)
          /\ k' = k + 1
          /\ UNCHANGED <<dt_path, len_ORIGIN, len_path_buffer, live, used, whole>>
      BY <1>7 DEF TryFails, TypeOK
    <2>2. TypeOK'
      BY <1>a, <2>1 DEF TypeOK
    <2>3. NoneBefore'
      BY <1>a, <2>1 DEF NoneBefore, Empty
    <2>4. Longest'
      BY <1>a, <2>1 DEF Longest, Passed, Empty, needed_len
    <2>. QED
      BY <2>1, <2>2, <2>3, <2>4 DEF InBounds, Uncut, OneBuffer, ReturnsFirst,
         FailsForCause, Current, Written
  <1>8. CASE GiveUp
    <2>1. /\ pc = "scan" /\ pc' = "failed" /\ k > Len(dt_path) /\ live' = Unmapped
          /\ UNCHANGED <<dt_path, len_ORIGIN, k, len_path_buffer, used, whole>>
      BY <1>8 DEF GiveUp
    <2>2. live' = 0
      BY <1>a, <2>1 DEF OneBuffer, Unmapped
    <2>3. TypeOK'
      BY <1>a, <2>1, <2>2 DEF TypeOK
    <2>4. NoneBefore'
      BY <1>a, <2>1 DEF NoneBefore, Empty
    <2>5. FailsForCause'
      BY <1>a, <2>1 DEF FailsForCause, NoneBefore, Empty
    <2>. QED
      BY <2>1, <2>2, <2>3, <2>4, <2>5 DEF InBounds, Uncut, OneBuffer, ReturnsFirst,
         Longest, Current, Written
  <1>9. CASE UNCHANGED vars
    BY <1>9 DEF vars, TypeOK, InBounds, Uncut, OneBuffer, ReturnsFirst, FailsForCause,
       Longest, NoneBefore, Current, Passed, Written, Empty, needed_len
  <1>. QED
    BY <1>1, <1>2, <1>3, <1>4, <1>5, <1>6, <1>7, <1>8, <1>9 DEF Next

\* Every reachable state satisfies the inductive invariant.
THEOREM Invariance == Spec => []IInv
  BY InvInit, InvNext, PTL DEF Spec

\* The walk keeps its variables in their types, for every list of sections.
THEOREM TypeCorrect == Spec => []TypeOK
  BY Invariance, PTL DEF IInv

\* No strncat of the function writes past the mmapped buffer.
THEOREM NeverOverflows == Spec => []InBounds
  BY Invariance, PTL DEF IInv

\* No strncat of the function cuts a candidate path short.
THEOREM NeverCut == Spec => []Uncut
  BY Invariance, PTL DEF IInv

\* The function leaks no buffer, whichever mmap fails.
THEOREM NoLeak == Spec => []OneBuffer
  BY Invariance, PTL DEF IInv

\* The search returns the first section that opens, and fails only if none
\* does.
THEOREM FirstFound == Spec => [](ReturnsFirst /\ FailsForCause)
  BY Invariance, PTL DEF IInv

\* Once a path is written, the longest built includes the one at hand.
LEMMA LongestIsMapped ==
    ASSUME IInv
    PROVE  LengthOfLongest
  <1>1. CASE Written
    <2>1. /\ dt_path[k] \in Section /\ ~Empty(dt_path[k])
          /\ k \in 1 .. Len(dt_path) /\ len_ORIGIN \in Nat
      BY <1>1 DEF IInv, TypeOK, Written, Current
    <2>2. needed_len(dt_path[k]) \in Nat /\ needed_len(dt_path[k]) >= 16
      BY <2>1, NeededLen
    <2>3. len_path_buffer # 0
      BY <1>1, <2>1, <2>2 DEF IInv, TypeOK, InBounds
    <2>. QED
      BY <1>1, <2>3 DEF IInv, Longest, Passed, Written, LengthOfLongest
  <1>. QED
    BY <1>1 DEF LengthOfLongest

\* The length with which the caller unmaps the buffer is the mapped one.
THEOREM LengthReturned == Spec => []LengthOfLongest
  BY Invariance, LongestIsMapped, PTL

-----------------------------------------------------------------------------
(* the two searches of la_version *)

\* Between searches no local variable of the last one is left.
NoSearch ==
    searching = "nothing" =>
        /\ dt_path = <<>> /\ k = 1 /\ len_path_buffer = 0 /\ used = 0
        /\ whole = TRUE /\ pc = "failed"

\* Each stage searches its own entry; la_version returns from none of them.
StageOf ==
    CASE searching = "nothing"    -> TRUE
      [] searching = "DT_RUNPATH" -> stage \in {"runpath", "shipped"}
      [] searching = "DT_RPATH"   -> stage \in {"rpath", "shipped"}

\* The shipped library is that of a search which found one.
ShippedFound == stage = "shipped" => searching # "nothing" /\ pc = "found"

\* A path that opens was missed only where an mmap failed.
MissedForCause == missed => oom

\* la_version gives up for want of memory, on an executable without an entry,
\* or when DT_RPATH was searched.
GivenUp == stage = "none" => oom \/ entries = {} \/ "DT_RPATH" \in searched

ShippedInv ==
    /\ IInv /\ searching \in {"nothing", "DT_RUNPATH", "DT_RPATH"}
    /\ missed \in BOOLEAN /\ oom \in BOOLEAN
    /\ NoSearch /\ StageOf /\ ShippedFound /\ MissedForCause /\ GivenUp

-----------------------------------------------------------------------------
\* A search begins in a state of the walk: nothing is mapped, the buffer is
\* none, and nothing was passed.
SearchBegins ==
    /\ len_ORIGIN \in Nat /\ live = 0 /\ dt_path \in Seq(Section)
    /\ k = 1 /\ len_path_buffer = 0 /\ used = 0 /\ whole = TRUE
    /\ \/ pc = "scan"
       \/ pc = "failed" /\ dt_path = <<>>

LEMMA BeginsWell == SearchBegins => IInv
  <1>. SUFFICES ASSUME SearchBegins PROVE IInv
    OBVIOUS
  <1>. USE DEF SearchBegins
  <1>1. Len(dt_path) \in Nat /\ (dt_path = <<>> => Len(dt_path) = 0)
    OBVIOUS
  <1>2. TypeOK
    BY DEF TypeOK
  <1>3. NoneBefore /\ FailsForCause
    BY <1>1 DEF NoneBefore, FailsForCause
  <1>. QED
    BY <1>2, <1>3 DEF IInv, InBounds, Uncut, OneBuffer, ReturnsFirst, Longest,
       Current, Passed, Written

\* The same of the state a step leads to.
LEMMA NextBeginsWell == SearchBegins' => IInv'
  BY BeginsWell, PTL

LEMMA TextsType == Texts \subseteq Seq(Section)
  <1>. SUFFICES ASSUME NEW n \in 1 .. MaxSections, NEW s \in [1 .. n -> Sections]
                PROVE  s \in Seq(Section)
    BY DEF Texts
  <1>. QED
    BY SectionsAssumption

LEMMA ShippedInvInit == ShippedInit => ShippedInv
  <1>. SUFFICES ASSUME ShippedInit PROVE ShippedInv
    OBVIOUS
  <1>1. IInv
    BY BeginsWell, SectionsAssumption, EmptySeq DEF ShippedInit, SearchBegins
  <1>. QED
    BY <1>1 DEF ShippedInit, ShippedInv, NoSearch, StageOf, ShippedFound,
       MissedForCause, GivenUp

\* Where no variable of the walk changes, its invariant stays.
LEMMA WalkUntouched ==
    ASSUME IInv, UNCHANGED vars
    PROVE  IInv'
  BY InvNext

LEMMA ShippedInvNext ==
    ASSUME ShippedInv, [ShippedNext]_shippedVars
    PROVE  ShippedInv'
  <1>. USE DEF ShippedInv
  <1>. USE DEF NoSearch, StageOf, ShippedFound, MissedForCause, GivenUp
  <1>a. /\ len_ORIGIN \in Nat /\ live \in Nat
        /\ pc = "failed" \/ pc = "nomem" => live = 0
    BY DEF IInv, TypeOK, OneBuffer
  <1>1. CASE CopyOrigin
    BY <1>1, WalkUntouched DEF CopyOrigin, vars
  <1>2. CASE ReadHeaders
    <2>1. /\ stage = "headers" /\ searching' = searching
          /\ UNCHANGED <<vars, searched, missed, oom>>
          /\ stage' \in {"runpath", "none", "dead"}
          /\ stage' = "none" => entries' = {}
      BY <1>2 DEF ReadHeaders, get_parent_executable_runpath_rpath
    <2>. QED
      BY <2>1, WalkUntouched DEF vars
  <1>3. CASE FindInRunpath
    <2>1. /\ stage = "runpath" /\ searching = "nothing" /\ searching' = "DT_RUNPATH"
          /\ UNCHANGED <<stage, entries, searched, missed, oom>>
          /\ dt_path' \in Texts /\ pc' = "scan" /\ FreshLocals
      BY <1>3 DEF FindInRunpath, FindIn
    <2>2. IInv'
      BY <1>a, <2>1, TextsType, NextBeginsWell DEF FreshLocals, SearchBegins
    <2>. QED
      BY <2>1, <2>2
  <1>4. CASE SkipRunpath
    BY <1>4, WalkUntouched DEF SkipRunpath, vars
  <1>5. CASE FindInRpath
    <2>1. /\ stage = "rpath" /\ searching = "nothing" /\ searching' = "DT_RPATH"
          /\ UNCHANGED <<stage, entries, searched, missed, oom>>
          /\ dt_path' \in Texts \cup {<<>>} /\ pc' = "scan" /\ FreshLocals
      BY <1>5 DEF FindInRpath, FindIn
    <2>2. dt_path' \in Seq(Section)
      BY <2>1, TextsType, EmptySeq
    <2>3. IInv'
      BY <1>a, <2>1, <2>2, NextBeginsWell DEF FreshLocals, SearchBegins
    <2>. QED
      BY <2>1, <2>3
  <1>6. CASE Walk
    <2>1. /\ searching # "nothing" /\ Next
          /\ UNCHANGED <<stage, entries, searching, searched, missed, oom>>
      BY <1>6 DEF Walk
    <2>2. IInv'
      BY <2>1, InvNext
    <2>3. pc # "found"
      BY <2>1 DEF Next, SkipEmpty, Reuse, Grow, GrowFails, MustGrow, AtSection, Copy,
         TrySucceeds, TryFails, GiveUp
    <2>. QED
      BY <2>1, <2>2, <2>3
  <1>7. CASE ReturnFound
    BY <1>7, WalkUntouched DEF ReturnFound, Returned, vars
  <1>8. CASE ReturnFailed
    <2>1. /\ searching # "nothing" /\ pc \in {"failed", "nomem"}
          /\ searching' = "nothing" /\ stage' = AfterFailure
          /\ searched' = searched \cup {searching}
          /\ oom' = (oom \/ pc = "nomem")
          /\ missed' = (missed \/ \E j \in 1 .. Len(dt_path) :
                                      ~Empty(dt_path[j]) /\ dt_path[j].opens)
          /\ dt_path' = <<>> /\ pc' = "failed" /\ FreshLocals
          /\ UNCHANGED entries
      BY <1>8 DEF ReturnFailed, Returned
    <2>2. IInv'
      BY <1>a, <2>1, NextBeginsWell, EmptySeq DEF FreshLocals, SearchBegins
    <2>3. MissedForCause'
      BY <2>1 DEF IInv, FailsForCause
    <2>4. stage' = "none" => "DT_RPATH" \in searched'
      BY <2>1 DEF AfterFailure
    <2>5. stage' # "shipped"
      BY <2>1 DEF AfterFailure
    <2>6. missed' \in BOOLEAN /\ oom' \in BOOLEAN
      BY <2>1
    <2>. QED
      BY <2>1, <2>2, <2>3, <2>4, <2>5, <2>6 DEF FreshLocals
  <1>9. CASE UNCHANGED shippedVars
    BY <1>9, WalkUntouched DEF shippedVars, vars
  <1>. QED
    BY <1>1, <1>2, <1>3, <1>4, <1>5, <1>6, <1>7, <1>8, <1>9 DEF ShippedNext

-----------------------------------------------------------------------------
\* The start of la_version keeps the inductive invariant, from the copy of the
\* executable's path to the end of both searches.
THEOREM ShippedInvariance == ShippedSpec => []ShippedInv
  BY ShippedInvInit, ShippedInvNext, PTL DEF ShippedSpec

\* la_version takes for shipped the first library that opens, of DT_RUNPATH and
\* then of DT_RPATH, and gives up only when both were searched.
THEOREM FirstShipped == ShippedSpec => []ShippedIsFirst
  <1>1. ShippedInv => ShippedIsFirst
    BY DEF ShippedInv, IInv, ShippedFound, MissedForCause, GivenUp, ReturnsFirst,
       ShippedIsFirst
  <1>. QED
    BY <1>1, ShippedInvariance, PTL

\* Over both searches no strncat writes past the buffer or cuts a path, the
\* buffer of a search that failed is gone when the next begins, and the length
\* returned is that of the buffer.
THEOREM BothSearchesSafe ==
    ShippedSpec => [](TypeOK /\ InBounds /\ Uncut /\ OneBuffer /\ LengthOfLongest)
  <1>1. ShippedInv => TypeOK /\ InBounds /\ Uncut /\ OneBuffer /\ LengthOfLongest
    BY LongestIsMapped DEF ShippedInv, IInv
  <1>. QED
    BY <1>1, ShippedInvariance, PTL
=============================================================================
