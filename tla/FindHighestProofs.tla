-------------------------- MODULE FindHighestProofs --------------------------
(***************************************************************************)
(* What the loop of find_highest_libstdcxx keeps, for every list and every *)
(* machine: the first of the highest.  Then that the edited list stands    *)
(* for the places the caller asked for, wherever the flags stand in it, so *)
(* that what is linked is the highest of those.                            *)
(***************************************************************************)
EXTENDS FindHighest, InductionFacts, SequenceTheorems

\* The version and the library of the j-th element of the list.
Val(j) == Value(machine, search_paths[j])
Lib(j) == find_library(machine, search_paths[j])

\* No element tried is higher than what is kept, and nothing is kept exactly
\* while no version above 0 was read.
NoneHigher ==
    /\ \A j \in 1 .. at - 1 : Val(j) <= highest_value
    /\ optimal = NotFound <=> highest_value = 0

\* What is kept is the library of an element that no earlier one equals.
FirstKept ==
    optimal # NotFound =>
        \E j \in 1 .. at - 1 :
            /\ Lib(j) = optimal
            /\ Val(j) = highest_value
            /\ \A k \in 1 .. j - 1 : Val(k) < highest_value

\* Of equal versions the loop keeps the one its list names first (line 80 of
\* the search compares strictly), so that the directories given come before
\* the default ones and the compiler's.
FirstOfEquals == NoneHigher /\ FirstKept

\* The loop counts from 1, and before it starts nothing is kept.
Counted ==
    /\ at \in Nat \ {0} /\ highest_value \in Nat
    /\ stage # "idle" => machine \in Machines
    /\ stage \in {"idle", "edit"} => at = 1 /\ optimal = NotFound

IInv == Counted /\ FirstOfEquals

\* The command's answer is a version or nothing, and nothing where find_library
\* finds nothing.
LEMMA ValueRange ==
    ASSUME NEW m \in Machines, NEW path
    PROVE  /\ Value(m, path) \in Nat \cup {-1}
           /\ find_library(m, path) = NotFound => Value(m, path) = -1
  <1>1. IsMachine(m)
    BY SearchAssumption
  <1>2. find_library(m, path) \in DOMAIN m.files \cup {NotFound}
    BY <1>1 DEF find_library, IsMachine
  <1>3. CASE find_library(m, path) = NotFound
    BY <1>3 DEF Value, NoOutput
  <1>4. CASE find_library(m, path) # NotFound
    <2>1. m.files[find_library(m, path)] \in Reading
      BY <1>1, <1>2, <1>4 DEF IsMachine
    <2>2. m.files[find_library(m, path)].version \in Nat
      BY <2>1 DEF Reading
    <2>. QED
      BY <1>4, <2>2 DEF Value, NoOutput, get_libstdcxx_version_command
  <1>. QED
    BY <1>3, <1>4

LEMMA InitHolds == SearchInit => IInv
  BY DEF SearchInit, IInv, Counted, FirstOfEquals, NoneHigher, FirstKept

LEMMA TryPathKeeps ==
    ASSUME IInv, TryPath
    PROVE  FirstOfEquals'
  <1>. DEFINE value == Val(at)
  <1>1. /\ machine \in Machines /\ at \in Nat \ {0} /\ highest_value \in Nat
        /\ at' = at + 1
        /\ machine' = machine /\ search_paths' = search_paths
    BY DEF IInv, Counted, TryPath
  <1>2. /\ value \in Nat \cup {-1}
        /\ Lib(at) = NotFound => value = -1
    BY <1>1, ValueRange DEF Val, Lib
  <1>3. \A j : Val(j)' = Val(j) /\ Lib(j)' = Lib(j)
    BY <1>1 DEF Val, Lib
  <1>4. \A j \in 1 .. at - 1 : Val(j) <= highest_value /\ Val(j) \in Int
    BY <1>1, ValueRange DEF IInv, FirstOfEquals, NoneHigher, Val
  <1>5. 1 .. at' - 1 = (1 .. at - 1) \cup {at}
    BY <1>1
  <1>. HIDE DEF value
  <1>6. CASE value > highest_value
    <2>1. highest_value' = value /\ optimal' = Lib(at)
      BY <1>6 DEF TryPath, Greater, value, Val, Lib
    <2>2. optimal' # NotFound /\ highest_value' # 0
      BY <1>1, <1>2, <1>6, <2>1
    <2>3. \A j \in 1 .. at' - 1 : Val(j)' <= highest_value'
      BY <1>1, <1>2, <1>3, <1>4, <1>5, <1>6, <2>1 DEF value
    <2>4. \A k \in 1 .. at - 1 : Val(k)' < highest_value'
      BY <1>1, <1>2, <1>3, <1>4, <1>6, <2>1
    <2>5. PICK i \in 1 .. at' - 1 : i = at
      BY <1>5
    <2>6. Lib(i)' = optimal' /\ Val(i)' = highest_value'
      BY <1>3, <2>1, <2>5 DEF value
    <2>7. FirstKept'
      BY <2>4, <2>5, <2>6 DEF FirstKept
    <2>. QED
      BY <2>2, <2>3, <2>7 DEF FirstOfEquals, NoneHigher
  <1>7. CASE ~(value > highest_value)
    <2>1. highest_value' = highest_value /\ optimal' = optimal
      BY <1>7 DEF TryPath, Greater, value, Val, Lib
    <2>2. \A j \in 1 .. at' - 1 : Val(j)' <= highest_value'
      BY <1>1, <1>2, <1>3, <1>4, <1>5, <1>7, <2>1 DEF value
    <2>3. FirstKept'
      BY <1>1, <1>3, <1>5, <2>1 DEF IInv, FirstOfEquals, FirstKept
    <2>. QED
      BY <2>1, <2>2, <2>3 DEF IInv, FirstOfEquals, NoneHigher
  <1>. QED
    BY <1>6, <1>7

LEMMA StepHolds == IInv /\ [SearchNext]_searchVars => IInv'
  <1>. SUFFICES ASSUME IInv, [SearchNext]_searchVars
                PROVE  IInv'
    OBVIOUS
  <1>1. CASE Configure
    BY <1>1 DEF Configure, IInv, Counted, FirstOfEquals, NoneHigher, FirstKept
  <1>2. CASE EditPaths
    BY <1>2 DEF EditPaths, IInv, Counted, FirstOfEquals, NoneHigher, FirstKept
  <1>3. CASE TryPath
    <2>1. FirstOfEquals'
      BY <1>3, TryPathKeeps
    <2>2. Counted'
      <3>1. Val(at) \in Nat \cup {-1}
        BY <1>3, ValueRange DEF IInv, Counted, TryPath, Val
      <3>2. highest_value' = highest_value \/ highest_value' = Val(at)
        BY <1>3 DEF TryPath, Val
      <3>3. highest_value' = Val(at) => Val(at) \in Nat
        BY <1>3, <3>1, <2>1 DEF TryPath, Greater, Val, IInv, Counted
      <3>. QED
        BY <1>3, <3>2, <3>3 DEF TryPath, IInv, Counted
    <2>. QED
      BY <2>1, <2>2 DEF IInv
  <1>4. CASE EndLoop
    BY <1>4 DEF EndLoop, IInv, Counted, FirstOfEquals, NoneHigher, FirstKept, Val, Lib
  <1>5. CASE Link
    BY <1>5 DEF Link, IInv, Counted, FirstOfEquals, NoneHigher, FirstKept, Val, Lib
  <1>6. CASE UNCHANGED searchVars
    BY <1>6 DEF searchVars, IInv, Counted, FirstOfEquals, NoneHigher, FirstKept,
                Val, Lib
  <1>. QED
    BY <1>1, <1>2, <1>3, <1>4, <1>5, <1>6 DEF SearchNext

\* find_highest_libstdcxx keeps the first of the highest versions of its list.
THEOREM KeepsFirstOfEquals == SearchSpec => []FirstOfEquals
  <1>1. IInv => FirstOfEquals
    BY DEF IInv
  <1>. QED
    BY InitHolds, StepHolds, <1>1, PTL DEF SearchSpec

-----------------------------------------------------------------------------
(***************************************************************************)
(* The edits of the list: what they do to the set of its elements.         *)
(***************************************************************************)
\* list(REMOVE_AT) at the index list(FIND) answers: the first e goes, and what
\* stands behind it moves up.
LEMMA RemovedAt ==
    ASSUME NEW S, NEW s \in Seq(S), NEW e \in Range(s)
    PROVE  LET rest == RemoveFirst(s, e) IN
           /\ rest \in Seq(S) /\ Len(rest) = Len(s) - 1
           /\ \E n \in 1 .. Len(s) :
                 /\ s[n] = e
                 /\ \A i \in 1 .. Len(s) - 1 :
                       rest[i] = IF i <= n - 1 THEN s[i] ELSE s[i + 1]
  <1>. DEFINE places == {i \in 1 .. Len(s) : s[i] = e}
              n == Min(places)
              before == SubSeq(s, 1, n - 1)
              after  == SubSeq(s, n + 1, Len(s))
              rest   == before \o after
  <1>1. Len(s) \in Nat /\ DOMAIN s = 1 .. Len(s) /\ \A i \in 1 .. Len(s) : s[i] \in S
    BY LenProperties, ElementOfSeq
  <1>2. PICK p \in 1 .. Len(s) : s[p] = e
    BY <1>1 DEF Range
  <1>3. n \in 1 .. Len(s) /\ s[n] = e
    <2>1. places \in SUBSET Nat /\ places # {}
      BY <1>2
    <2>2. PICK i \in places : \A j \in places : i <= j
      BY <2>1, LeastOf
    <2>. QED
      BY <2>2 DEF Min
  <1>4. RemoveFirst(s, e) = rest
    <2>1. \E i \in 1 .. Len(s) : s[i] = e
      BY <1>2
    <2>2. places # {}
      BY <1>2
    <2>. QED
      BY <2>1, <2>2 DEF RemoveFirst, RemoveAt, SelectInSeq
  <1>. HIDE DEF n
  <1>5. /\ before \in Seq(S) /\ Len(before) = n - 1
        /\ \A i \in 1 .. n - 1 : before[i] = s[i]
    <2>1. \A i \in 1 .. n - 1 : s[i] \in S
      BY <1>1, <1>3
    <2>2. n - 1 \in Nat /\ 1 + n - 1 = n
      BY <1>3
    <2>. QED
      BY <1>1, <1>3, <2>1, <2>2, SubSeqProperties
  <1>6. /\ after \in Seq(S) /\ Len(after) = Len(s) - n
        /\ \A i \in 1 .. Len(s) - n : after[i] = s[n + i]
    <2>1. \A i \in n + 1 .. Len(s) : s[i] \in S
      BY <1>1, <1>3
    <2>3. n + 1 \in 1 .. Len(s) + 1 /\ Len(s) - (n + 1) + 1 = Len(s) - n
      BY <1>1, <1>3
    <2>4. /\ after \in Seq(S)
          /\ Len(after) = IF n + 1 <= Len(s) THEN Len(s) - (n + 1) + 1 ELSE 0
          /\ \A i \in 1 .. Len(s) - (n + 1) + 1 : after[i] = s[(n + 1) + i - 1]
      BY <1>1, <1>3, <2>1, <2>3, SubSeqProperties
    <2>. HIDE DEF after
    <2>5. Len(after) = Len(s) - n
      <3>1. n \in Nat /\ n <= Len(s) /\ Len(s) \in Nat
        BY <1>1, <1>3
      <3>2. Len(after) = IF n + 1 <= Len(s) THEN Len(s) - (n + 1) + 1 ELSE 0
        BY <2>4
      <3>3. CASE n + 1 <= Len(s)
        BY <1>1, <3>1, <3>2, <3>3
      <3>4. CASE ~(n + 1 <= Len(s))
        <4>1. Len(s) - n = 0
          BY <3>1, <3>4
        <4>. QED
          BY <3>2, <3>4, <4>1
      <3>. QED
        BY <3>3, <3>4
    <2>6. ASSUME NEW i \in 1 .. Len(s) - n
          PROVE  after[i] = s[n + i]
      <3>1. i \in 1 .. Len(s) - (n + 1) + 1 /\ (n + 1) + i - 1 = n + i
        BY <1>1, <1>3
      <3>. QED
        BY <2>4, <3>1
    <2>. QED
      BY <2>4, <2>5, <2>6
  <1>. HIDE DEF before, after
  <1>7. /\ rest \in Seq(S)
        /\ Len(rest) = Len(s) - 1
        /\ \A i \in 1 .. Len(s) - 1 :
              rest[i] = IF i <= n - 1 THEN before[i] ELSE after[i - (n - 1)]
    <2>1. Len(before) + Len(after) = Len(s) - 1
      BY <1>1, <1>3, <1>5, <1>6
    <2>. QED
      BY <1>5, <1>6, <2>1, ConcatProperties
  <1>. HIDE DEF rest
  <1>8. DOMAIN rest = 1 .. Len(s) - 1
    BY <1>7, LenProperties
  <1>9. \A i \in 1 .. Len(s) - 1 :
           rest[i] = IF i <= n - 1 THEN s[i] ELSE s[i + 1]
    <2>. TAKE i \in 1 .. Len(s) - 1
    <2>1. CASE i <= n - 1
      <3>1. i \in 1 .. n - 1
        BY <1>1, <1>3, <2>1
      <3>2. rest[i] = before[i]
        BY <1>7, <2>1
      <3>. QED
        BY <1>5, <2>1, <3>1, <3>2
    <2>2. CASE ~(i <= n - 1)
      <3>1. i - (n - 1) \in 1 .. Len(s) - n /\ n + (i - (n - 1)) = i + 1
        BY <1>1, <1>3, <2>2
      <3>. QED
        BY <1>6, <1>7, <2>2, <3>1
    <2>. QED
      BY <2>1, <2>2
  <1>. QED
    BY <1>3, <1>4, <1>7, <1>9

\* One e goes, and nothing else; another e stays.
LEMMA RemovedFirst ==
    ASSUME NEW S, NEW s \in Seq(S), NEW e \in Range(s)
    PROVE  /\ RemoveFirst(s, e) \in Seq(S)
           /\ Range(s) \ {e} \subseteq Range(RemoveFirst(s, e))
           /\ Range(RemoveFirst(s, e)) \subseteq Range(s)
  <1>. DEFINE rest == RemoveFirst(s, e)
  <1>1. Len(s) \in Nat /\ DOMAIN s = 1 .. Len(s)
    BY LenProperties
  <1>2. rest \in Seq(S) /\ Len(rest) = Len(s) - 1
    BY RemovedAt
  <1>3. PICK n \in 1 .. Len(s) :
           /\ s[n] = e
           /\ \A i \in 1 .. Len(s) - 1 :
                 rest[i] = IF i <= n - 1 THEN s[i] ELSE s[i + 1]
    BY RemovedAt
  <1>. HIDE DEF rest
  <1>4. DOMAIN rest = 1 .. Len(s) - 1
    BY <1>2, LenProperties
  <1>5. \A i \in 1 .. Len(s) - 1 : rest[i] \in Range(s)
    BY <1>1, <1>3 DEF Range
  <1>6. \A j \in 1 .. Len(s) : j # n =>
            \E i \in 1 .. Len(s) - 1 : rest[i] = s[j]
    <2>. SUFFICES ASSUME NEW j \in 1 .. Len(s), j # n
                  PROVE  \E i \in 1 .. Len(s) - 1 : rest[i] = s[j]
      OBVIOUS
    <2>1. CASE j < n
      BY <1>1, <1>3, <2>1
    <2>2. CASE j > n
      <3>1. j - 1 \in 1 .. Len(s) - 1 /\ ~(j - 1 <= n - 1) /\ (j - 1) + 1 = j
        BY <1>1, <1>3, <2>2
      <3>. QED
        BY <1>3, <3>1
    <2>. QED
      BY <1>3, <2>1, <2>2
  <1>7. Range(rest) = {rest[i] : i \in 1 .. Len(s) - 1}
    BY <1>4 DEF Range
  <1>8. Range(s) = {s[i] : i \in 1 .. Len(s)}
    BY <1>1 DEF Range
  <1>9. \A x \in Range(s) \ {e} : x \in Range(rest)
    BY <1>3, <1>6, <1>7, <1>8
  <1>. QED
    BY <1>2, <1>5, <1>7, <1>9 DEF rest

\* The empty element, appended to a list that has others, is not alone.
LEMMA NotAlone ==
    ASSUME NEW paths \in Seq(Element), paths # <<>>
    PROVE  AsList(Append(paths, Empty)) = Append(paths, Empty)
  <1>1. Len(paths) \in Nat /\ Len(paths) # 0 /\ Len(Append(paths, Empty)) = Len(paths) + 1
    BY LenProperties, EmptySeq, AppendProperties DEF Element
  <1>2. Len(<<Empty>>) = 1
    OBVIOUS
  <1>3. Append(paths, Empty) # <<Empty>>
    BY <1>1, <1>2
  <1>. QED
    BY <1>3 DEF AsList

\* The elements left when an exclusion was asked for by the flag or not: the
\* flag once, and what it excludes everywhere; or what is appended.
LEMMA DefaultEdit ==
    ASSUME NEW paths \in Seq(Element), paths # <<>>
    PROVE  /\ EditedForDefault(paths) \in Seq(Element)
           /\ IF NoDefaultPath \in Range(paths)
              THEN /\ Range(paths) \ {NoDefaultPath, Empty} \subseteq Range(EditedForDefault(paths))
                   /\ Range(EditedForDefault(paths)) \subseteq Range(paths) \ {Empty}
              ELSE Range(EditedForDefault(paths)) = Range(paths) \cup {Empty}
  <1>1. Contains(paths, NoDefaultPath) <=> NoDefaultPath \in Range(paths)
    BY LenProperties DEF Contains, Range
  <1>2. CASE NoDefaultPath \in Range(paths)
    <2>. DEFINE once == RemoveFirst(paths, NoDefaultPath)
    <2>1. /\ once \in Seq(Element)
          /\ Range(paths) \ {NoDefaultPath} \subseteq Range(once)
          /\ Range(once) \subseteq Range(paths)
      BY <1>2, RemovedFirst
    <2>. HIDE DEF once
    <2>2. /\ Without(once, Empty) \in Seq(Element)
          /\ Range(Without(once, Empty)) = Range(once) \ {Empty}
      BY <2>1, WithoutElement
    <2>3. EditedForDefault(paths) = Without(once, Empty)
      BY <1>1, <1>2 DEF EditedForDefault, once
    <2>. QED
      BY <1>2, <2>1, <2>2, <2>3
  <1>3. CASE NoDefaultPath \notin Range(paths)
    <2>1. EditedForDefault(paths) = Append(paths, Empty)
      BY <1>1, <1>3, NotAlone DEF EditedForDefault
    <2>2. Empty \in Element
      BY DEF Element
    <2>. QED
      BY <1>3, <2>1, <2>2, AppendedElement
  <1>. QED
    BY <1>2, <1>3

\* What list(REMOVE_AT) and list(REMOVE_ITEM) leave with the compiler's flag.
WithoutCompiler(paths, dir) == Without(RemoveFirst(paths, NoCompilerPath), dir)

LEMMA CompilerEdit ==
    ASSUME NEW paths \in Seq(Element), NEW dir \in Directories \cup {NotFound}
    PROVE  LET edited == EditedForCompiler(paths, dir)
               bare   == WithoutCompiler(paths, dir)
           IN  /\ edited \in Seq(Element)
               /\ IF NoCompilerPath \in Range(paths)
                  THEN /\ edited = AsList(bare) /\ bare \in Seq(Element)
                       /\ Range(paths) \ {NoCompilerPath, dir} \subseteq Range(bare)
                       /\ Range(bare) \subseteq Range(paths) \ {dir}
                  ELSE Range(edited) = Range(paths) \cup ({dir} \ {NotFound})
  <1>1. Contains(paths, NoCompilerPath) <=> NoCompilerPath \in Range(paths)
    BY LenProperties DEF Contains, Range
  <1>2. CASE NoCompilerPath \in Range(paths)
    <2>. DEFINE once == RemoveFirst(paths, NoCompilerPath)
    <2>1. /\ once \in Seq(Element)
          /\ Range(paths) \ {NoCompilerPath} \subseteq Range(once)
          /\ Range(once) \subseteq Range(paths)
      BY <1>2, RemovedFirst
    <2>. HIDE DEF once
    <2>2. /\ Without(once, dir) \in Seq(Element)
          /\ Range(Without(once, dir)) = Range(once) \ {dir}
      BY <2>1, WithoutElement
    <2>3. WithoutCompiler(paths, dir) = Without(once, dir)
      BY DEF WithoutCompiler, once
    <2>4. EditedForCompiler(paths, dir) = AsList(WithoutCompiler(paths, dir))
      BY <1>1, <1>2 DEF EditedForCompiler, WithoutCompiler
    <2>5. AsList(Without(once, dir)) \in Seq(Element)
      BY <2>2 DEF AsList
    <2>. QED
      BY <1>2, <2>1, <2>2, <2>3, <2>4, <2>5
  <1>3. CASE NoCompilerPath \notin Range(paths) /\ dir = NotFound
    <2>1. EditedForCompiler(paths, dir) = paths
      BY <1>1, <1>3 DEF EditedForCompiler
    <2>. QED
      BY <1>3, <2>1
  <1>4. CASE NoCompilerPath \notin Range(paths) /\ dir # NotFound
    <2>1. EditedForCompiler(paths, dir) = Append(paths, dir)
      BY <1>1, <1>4 DEF EditedForCompiler
    <2>2. dir \in Element
      BY <1>4 DEF Element
    <2>. QED
      BY <1>4, <2>1, <2>2, AppendedElement
  <1>. QED
    BY <1>2, <1>3, <1>4

\* The default directories are lost with these lists, whatever the machine.
LostWith(list, dir) ==
    \/ list = <<>>
    \/ \E i \in DOMAIN list : /\ list[i] = NoCompilerPath
                              /\ \A j \in DOMAIN list \ {i} : list[j] = dir

\* With the compiler's flag the empty element is left alone exactly when the
\* list has nothing but one such flag and the compiler's directory.
LEMMA LeftAlone ==
    ASSUME NEW list \in Seq(Element), list # <<>>, NoCompilerPath \in Range(list),
           NEW dir, dir # NoCompilerPath, dir # Empty, Empty # NoCompilerPath
    PROVE  WithoutCompiler(Append(list, Empty), dir) = <<Empty>> <=> LostWith(list, dir)
  <1>. DEFINE first == Append(list, Empty)
              N     == Len(list)
              once  == RemoveFirst(first, NoCompilerPath)
  <1>1. N \in Nat /\ N # 0 /\ DOMAIN list = 1 .. N
    BY LenProperties, EmptySeq
  <1>2. /\ first \in Seq(Element) /\ Len(first) = N + 1
        /\ \A i \in 1 .. N : first[i] = list[i]
        /\ first[N + 1] = Empty
        /\ Range(first) = Range(list) \cup {Empty}
    BY AppendProperties, AppendedElement DEF Element
  <1>. HIDE DEF first
  <1>3. NoCompilerPath \in Range(first)
    BY <1>2
  <1>4. once \in Seq(Element) /\ Len(once) = (N + 1) - 1
    BY <1>2, <1>3, RemovedAt
  <1>5. PICK n \in 1 .. N + 1 :
           /\ first[n] = NoCompilerPath
           /\ \A i \in 1 .. (N + 1) - 1 :
                 once[i] = IF i <= n - 1 THEN first[i] ELSE first[i + 1]
    <2>1. \E n \in 1 .. Len(first) :
             /\ first[n] = NoCompilerPath
             /\ \A i \in 1 .. Len(first) - 1 :
                   once[i] = IF i <= n - 1 THEN first[i] ELSE first[i + 1]
      BY <1>2, <1>3, RemovedAt
    <2>2. Len(first) = N + 1
      BY <1>2
    <2>. HIDE DEF once
    <2>. QED
      BY ONLY <2>1, <2>2, Zenon
  <1>. HIDE DEF once
  <1>6. n \in 1 .. N /\ list[n] = NoCompilerPath
    <2>1. n # N + 1
      BY <1>2, <1>5
    <2>2. n \in 1 .. N
      BY <1>1, <2>1
    <2>. QED
      BY <1>2, <1>5, <2>2
  <1>7. Len(once) = N /\ once # <<>> /\ once[N] = Empty
    <2>1. Len(once) = N /\ N \in 1 .. (N + 1) - 1 /\ ~(N <= n - 1)
      BY <1>1, <1>4, <1>6
    <2>2. once # <<>>
      BY <1>1, <2>1, EmptySeq
    <2>. QED
      BY <1>2, <1>5, <2>1, <2>2
  <1>8. FirstOf(once, N - 1) = {list[j] : j \in (1 .. N) \ {n}}
    <2>1. ASSUME NEW j \in 1 .. N - 1
          PROVE  once[j] = IF j < n THEN list[j] ELSE list[j + 1]
      <3>1. j \in 1 .. (N + 1) - 1 /\ j \in 1 .. N /\ j + 1 \in 1 .. N /\ (j <= n - 1 <=> j < n)
        BY <1>1, <1>6
      <3>. QED
        BY <1>2, <1>5, <3>1
    <2>2. ASSUME NEW j \in 1 .. N - 1
          PROVE  \E k \in (1 .. N) \ {n} : once[j] = list[k]
      <3>1. CASE j < n
        <4>1. j \in (1 .. N) \ {n}
          BY <1>1, <3>1
        <4>. QED
          BY <2>1, <3>1, <4>1
      <3>2. CASE ~(j < n)
        <4>1. j + 1 \in (1 .. N) \ {n}
          BY <1>1, <1>6, <3>2
        <4>. QED
          BY <2>1, <3>2, <4>1
      <3>. QED
        BY <3>1, <3>2
    <2>3. ASSUME NEW k \in (1 .. N) \ {n}
          PROVE  \E j \in 1 .. N - 1 : once[j] = list[k]
      <3>1. CASE k < n
        <4>1. k \in 1 .. N - 1
          BY <1>1, <1>6, <3>1
        <4>. QED
          BY <2>1, <3>1, <4>1
      <3>2. CASE k > n
        <4>1. k - 1 \in 1 .. N - 1 /\ ~(k - 1 < n) /\ (k - 1) + 1 = k
          BY <1>1, <1>6, <3>2
        <4>. QED
          BY <2>1, <4>1
      <3>. QED
        BY <1>6, <3>1, <3>2
    <2>4. FirstOf(once, N - 1) \subseteq {list[j] : j \in (1 .. N) \ {n}}
      BY ONLY <2>2, Zenon DEF FirstOf
    <2>5. {list[j] : j \in (1 .. N) \ {n}} \subseteq FirstOf(once, N - 1)
      BY ONLY <2>3, Zenon DEF FirstOf
    <2>. QED
      BY ONLY <2>4, <2>5, Zenon
  <1>9. PICK t \in Seq(Element) : /\ Without(once, dir) = Append(t, Empty)
                                  /\ Range(t) = FirstOf(once, N - 1) \ {dir}
    <2>1. once[Len(once)] # dir
      BY <1>7
    <2>2. \E t \in Seq(Element) : /\ Without(once, dir) = Append(t, once[Len(once)])
                                  /\ Range(t) = FirstOf(once, Len(once) - 1) \ {dir}
      <3>1. once \in Seq(Element) /\ once # <<>>
        BY <1>4, <1>7
      <3>. QED
        BY ONLY <2>1, <3>1, WithoutLast
    <2>. QED
      BY ONLY <1>7, <2>2, Zenon
  <1>10. WithoutCompiler(Append(list, Empty), dir) = Append(t, Empty)
    BY <1>9 DEF WithoutCompiler, once, first
  <1>11. Append(t, Empty) = <<Empty>> <=> t = <<>>
    <2>1. t = <<>> => Append(t, Empty) = <<Empty>>
      OBVIOUS
    <2>2. Len(t) \in Nat /\ Len(Append(t, Empty)) = Len(t) + 1
      BY LenProperties, AppendProperties DEF Element
    <2>3. Append(t, Empty) = <<Empty>> => Len(t) = 0
      BY <2>2
    <2>. QED
      BY <2>1, <2>3, EmptySeq
  <1>12. t = <<>> <=> Range(t) = {}
    <2>1. DOMAIN t = 1 .. Len(t) /\ Len(t) \in Nat
      BY LenProperties
    <2>2. Range(t) = {t[i] : i \in 1 .. Len(t)}
      BY <2>1 DEF Range
    <2>3. Len(t) # 0 => t[1] \in Range(t)
      BY <2>1, <2>2
    <2>4. Len(t) = 0 => Range(t) = {}
      BY <2>2
    <2>5. Len(t) = 0 <=> t = <<>>
      BY EmptySeq
    <2>. QED
      BY <2>3, <2>4, <2>5
  <1>13. Range(t) = {} <=> \A j \in (1 .. N) \ {n} : list[j] = dir
    BY <1>8, <1>9
  <1>14. LostWith(list, dir) <=> \A j \in (1 .. N) \ {n} : list[j] = dir
    <2>1. ASSUME NEW i \in 1 .. N, list[i] = NoCompilerPath,
                 \A j \in (1 .. N) \ {i} : list[j] = dir
          PROVE  i = n
      BY <1>6, <2>1
    <2>. QED
      BY <1>1, <1>6, <2>1 DEF LostWith
  <1>. QED
    BY <1>10, <1>11, <1>12, <1>13, <1>14

-----------------------------------------------------------------------------
(***************************************************************************)
(* The places asked for, and the libraries the elements of the edited list *)
(* stand for, are the same.                                                *)
(***************************************************************************)
Edited(list, m) ==
    EditedForCompiler(EditedForDefault(list), find_compiler_libstdcxx(m))

\* The list in use: as given until the edits, then edited to the end; the loop
\* stops behind its last element.
ListInUse ==
    /\ stage \in {"idle", "edit", "loop", "link", "done"}
    /\ stage # "idle" => given \in PathLists
    /\ stage = "edit" => search_paths = given
    /\ stage \in {"loop", "link", "done"} => search_paths = Edited(given, machine)
    /\ stage = "loop" => at <= Len(search_paths) + 1
    /\ stage \in {"link", "done"} => at = Len(search_paths) + 1

SearchInv == IInv /\ ListInUse

\* What the edits leave: the directories of the list but the one excluded, the
\* empty element unless its flag is there or it is lost, the compiler's
\* directory unless its own is; and flags, which stand for nothing.
LEMMA EditedElements ==
    ASSUME NEW list \in PathLists, NEW m \in Machines
    PROVE  LET dir  == find_compiler_libstdcxx(m)
               all  == Range(list)
               left == Range(Edited(list, m))
           IN  /\ Edited(list, m) \in Seq(Element)
               /\ Empty \in left <=> NoDefaultPath \notin all /\ ~LostWith(list, dir)
               /\ left \cap Directories
                    = IF NoCompilerPath \in all
                      THEN (all \cap Directories) \ {dir}
                      ELSE (all \cap Directories) \cup ({dir} \ {NotFound})
  <1>. DEFINE dir   == find_compiler_libstdcxx(m)
              first == EditedForDefault(list)
              bare  == WithoutCompiler(first, dir)
              left  == Range(Edited(list, m))
              all   == Range(list)
  <1>1. /\ list \in Seq(Element)
        /\ NotFound \notin Directories
        /\ Empty \notin Directories /\ Empty # NotFound
        /\ NoDefaultPath \notin Directories /\ NoCompilerPath \notin Directories
        /\ NoCompilerPath # NotFound
    BY SearchAssumption
  <1>2. dir \in Directories \cup {NotFound}
    BY SearchAssumption DEF IsMachine, find_compiler_libstdcxx
  <1>3. Empty # NoCompilerPath /\ NoDefaultPath # NoCompilerPath /\ Empty # NoDefaultPath
    BY DEF Empty, NoDefaultPath, NoCompilerPath
  <1>4. Edited(list, m) = EditedForCompiler(first, dir)
    BY DEF Edited
  <1>5. CASE list = <<>>
    <2>1. all = {} /\ first = <<>> /\ LostWith(list, dir)
      <3>1. Contains(list, NoDefaultPath) = FALSE
        BY <1>5 DEF Contains
      <3>2. Append(list, Empty) = <<Empty>>
        BY <1>5
      <3>. QED
        BY <1>5, <3>1, <3>2 DEF EditedForDefault, AsList, Range, LostWith
    <2>2. first \in Seq(Element) /\ Range(first) = {}
      BY <2>1 DEF Range
    <2>. HIDE DEF first, dir, all
    <2>3. /\ EditedForCompiler(first, dir) \in Seq(Element)
          /\ left = {dir} \ {NotFound}
      BY <1>2, <1>4, <2>2, CompilerEdit
    <2>. HIDE DEF left
    <2>4. Empty \notin left /\ left \cap Directories = {dir} \ {NotFound}
      BY <1>1, <1>2, <2>3
    <2>. QED
      BY <1>4, <2>1, <2>3, <2>4 DEF left, all, dir
  <1>6. CASE list # <<>>
    <2>1. /\ first \in Seq(Element)
          /\ IF NoDefaultPath \in all
             THEN /\ all \ {NoDefaultPath, Empty} \subseteq Range(first)
                  /\ Range(first) \subseteq all \ {Empty}
             ELSE Range(first) = all \cup {Empty}
      BY <1>1, <1>6, DefaultEdit
    <2>2. NoDefaultPath \notin all => first = Append(list, Empty)
      <3>1. Contains(list, NoDefaultPath) <=> NoDefaultPath \in all
        BY <1>1, LenProperties DEF Contains, Range
      <3>. QED
        BY <1>1, <1>6, <3>1, NotAlone DEF EditedForDefault
    <2>. HIDE DEF first, dir
    <2>3. /\ EditedForCompiler(first, dir) \in Seq(Element)
          /\ IF NoCompilerPath \in Range(first)
             THEN /\ EditedForCompiler(first, dir) = AsList(bare) /\ bare \in Seq(Element)
                  /\ Range(first) \ {NoCompilerPath, dir} \subseteq Range(bare)
                  /\ Range(bare) \subseteq Range(first) \ {dir}
             ELSE left = Range(first) \cup ({dir} \ {NotFound})
      BY <1>2, <1>4, <2>1, CompilerEdit
    <2>4. /\ NoCompilerPath \in Range(first) <=> NoCompilerPath \in all
          /\ Range(first) \cap Directories = all \cap Directories
          /\ Empty \in Range(first) <=> NoDefaultPath \notin all
      BY <1>1, <1>3, <2>1
    <2>5. CASE NoCompilerPath \notin all
      <3>1. left = Range(first) \cup ({dir} \ {NotFound})
        BY <2>3, <2>4, <2>5
      <3>2. ~LostWith(list, dir)
        BY <1>6, <2>5 DEF LostWith, Range
      <3>. HIDE DEF left, all
      <3>3. Empty \in left <=> NoDefaultPath \notin all /\ ~LostWith(list, dir)
        BY <1>1, <1>2, <2>4, <3>1, <3>2
      <3>4. left \cap Directories = (all \cap Directories) \cup ({dir} \ {NotFound})
        BY <1>1, <1>2, <2>4, <3>1
      <3>. QED
        BY <1>4, <2>3, <2>5, <3>3, <3>4 DEF left, all, dir
    <2>6. CASE NoCompilerPath \in all
      <3>1. /\ Edited(list, m) = AsList(bare) /\ bare \in Seq(Element)
            /\ Range(first) \ {NoCompilerPath, dir} \subseteq Range(bare)
            /\ Range(bare) \subseteq Range(first) \ {dir}
        BY <1>4, <2>3, <2>4, <2>6
      <3>2. dir # NoCompilerPath /\ dir # Empty
        BY <1>1, <1>2
      <3>3. NoDefaultPath \notin all => (bare = <<Empty>> <=> LostWith(list, dir))
        BY <1>1, <1>3, <1>6, <2>2, <2>6, <3>2, LeftAlone
      <3>. HIDE DEF bare, all
      <3>4. Empty \in Range(bare) <=> NoDefaultPath \notin all
        BY <1>3, <2>4, <3>1, <3>2
      <3>5. Range(bare) \cap Directories = (all \cap Directories) \ {dir}
        BY <1>1, <2>4, <3>1
      <3>6. Range(<<Empty>>) = {Empty} /\ Range(<<>>) = {}
        BY DEF Range
      <3>7. CASE bare = <<Empty>>
        <4>1. left = {}
          BY <3>1, <3>6, <3>7 DEF AsList
        <4>2. NoDefaultPath \notin all /\ LostWith(list, dir)
          BY <3>3, <3>4, <3>6, <3>7
        <4>3. (all \cap Directories) \ {dir} = {}
          BY <1>1, <3>5, <3>6, <3>7
        <4>. HIDE DEF left
        <4>4. Empty \notin left /\ left \cap Directories = (all \cap Directories) \ {dir}
          BY <4>1, <4>3
        <4>. QED
          BY <1>4, <2>3, <2>6, <4>2, <4>4 DEF left, all, dir
      <3>8. CASE bare # <<Empty>>
        <4>1. left = Range(bare)
          BY <3>1, <3>8 DEF AsList
        <4>. HIDE DEF left
        <4>2. Empty \in left <=> NoDefaultPath \notin all /\ ~LostWith(list, dir)
          BY <3>3, <3>4, <3>8, <4>1
        <4>. QED
          BY <1>4, <2>3, <2>6, <3>5, <4>1, <4>2 DEF left, all, dir
      <3>. QED
        BY <3>7, <3>8
    <2>. QED
      BY <2>5, <2>6
  <1>. QED
    BY <1>5, <1>6

\* The edited list is a list, the empty one as well: its length is a number.
LEMMA EditedLength ==
    ASSUME NEW list \in PathLists, NEW m \in Machines
    PROVE  Len(Edited(list, m)) \in Nat
  BY EditedElements, LenProperties

\* A directory with a library is asked for exactly when some element of the
\* edited list finds its library.
LEMMA PlacesAreFound ==
    ASSUME given \in PathLists, machine \in Machines,
           search_paths = Edited(given, machine)
    PROVE  /\ \A d \in Places : \E j \in 1 .. Len(search_paths) : Lib(j) = d
           /\ \A j \in 1 .. Len(search_paths) : Lib(j) # NotFound => Lib(j) \in Places
           /\ Len(search_paths) \in Nat
  <1>. DEFINE dir  == find_compiler_libstdcxx(machine)
              left == Range(search_paths)
  <1>1. /\ search_paths \in Seq(Element)
        /\ Empty \in left <=> NoDefaultPath \notin Given /\ ~DefaultLost
        /\ left \cap Directories
             = IF NoCompilerPath \in Given
               THEN (Given \cap Directories) \ {dir}
               ELSE (Given \cap Directories) \cup ({dir} \ {NotFound})
    <2>1. DefaultLost <=> LostWith(given, dir)
      BY DEF DefaultLost, LostWith
    <2>. QED
      BY <2>1, EditedElements DEF Given
  <1>2. IsMachine(machine)
    BY SearchAssumption
  <1>3. /\ DOMAIN machine.files \subseteq Directories
        /\ machine.default \in DOMAIN machine.files \cup {NotFound}
        /\ NotFound \notin DOMAIN machine.files
        /\ Empty \notin Directories
    BY <1>2, SearchAssumption DEF IsMachine
  <1>4. DOMAIN search_paths = 1 .. Len(search_paths) /\ Len(search_paths) \in Nat
    BY <1>1, LenProperties
  <1>5. /\ \A j \in 1 .. Len(search_paths) : search_paths[j] \in left
        /\ \A x \in left : \E j \in 1 .. Len(search_paths) : search_paths[j] = x
    BY <1>4 DEF Range
  <1>6. Excluded = IF NoCompilerPath \in Given THEN {dir} ELSE {}
    BY DEF Excluded
  <1>. HIDE DEF left, dir
  <1>7. \A d \in Places : \E x \in left : find_library(machine, x) = d
    <2>. SUFFICES ASSUME NEW d \in Places
                  PROVE  \E x \in left : find_library(machine, x) = d
      OBVIOUS
    <2>1. d \in DOMAIN machine.files /\ d # NotFound /\ d # Empty /\ d \in Directories
      BY <1>3 DEF Places
    <2>2. CASE d = machine.default /\ NoDefaultPath \notin Given /\ ~DefaultLost
      <3>1. Empty \in left /\ find_library(machine, Empty) = d
        BY <1>1, <2>2 DEF find_library
      <3>. QED
        BY <3>1
    <2>3. CASE ~(d = machine.default /\ NoDefaultPath \notin Given /\ ~DefaultLost)
      <3>1. \/ d \in (Given \cap Directories) \ Excluded
            \/ NoCompilerPath \notin Given /\ d = dir
        BY <2>3 DEF Places, dir
      <3>2. d \in left
        BY <1>1, <1>6, <2>1, <3>1
      <3>3. find_library(machine, d) = d
        BY <2>1 DEF find_library
      <3>. QED
        BY <3>2, <3>3
    <2>. QED
      BY <2>2, <2>3
  <1>8. \A x \in left : find_library(machine, x) # NotFound => find_library(machine, x) \in Places
    <2>. SUFFICES ASSUME NEW x \in left, find_library(machine, x) # NotFound
                  PROVE  find_library(machine, x) \in Places
      OBVIOUS
    <2>1. CASE x = Empty
      <3>1. find_library(machine, x) = machine.default
        BY <2>1 DEF find_library
      <3>2. /\ machine.default \in DOMAIN machine.files
            /\ NoDefaultPath \notin Given /\ ~DefaultLost
        BY <1>1, <1>3, <2>1, <3>1
      <3>. QED
        BY <3>1, <3>2 DEF Places
    <2>2. CASE x # Empty
      <3>1. find_library(machine, x) = x /\ x \in DOMAIN machine.files
        BY <2>2 DEF find_library
      <3>2. x \in left \cap Directories /\ x # NotFound
        BY <1>3, <3>1
      <3>3. CASE NoCompilerPath \in Given
        <4>1. x \in (Given \cap Directories) \ Excluded
          BY <1>1, <1>6, <3>2, <3>3
        <4>. QED
          BY <3>1, <4>1 DEF Places
      <3>4. CASE NoCompilerPath \notin Given
        <4>1. x \in (Given \cap Directories) \ Excluded \/ x = dir
          BY <1>1, <1>6, <3>2, <3>4
        <4>. QED
          BY <3>1, <3>4, <4>1 DEF Places, dir
      <3>. QED
        BY <3>3, <3>4
    <2>. QED
      BY <2>1, <2>2
  <1>. QED
    BY <1>4, <1>5, <1>7, <1>8 DEF Lib

\* What the loop has kept when it stops is the highest of the places, or
\* nothing when none of them has a version.
LEMMA HighestOfPlaces ==
    ASSUME SearchInv
    PROVE  KeepsHighest
  <1>. SUFFICES ASSUME stage = "done"
                PROVE  IF \E d \in Places : VersionAt(d) > 0
                       THEN /\ optimal \in Places
                            /\ \A d \in Places : VersionAt(d) <= VersionAt(optimal)
                       ELSE optimal = NotFound
    BY DEF KeepsHighest
  <1>1. /\ given \in PathLists /\ machine \in Machines
        /\ search_paths = Edited(given, machine)
        /\ at = Len(search_paths) + 1
        /\ highest_value \in Nat
        /\ NoneHigher /\ FirstKept
    BY DEF SearchInv, ListInUse, IInv, Counted, FirstOfEquals
  <1>2. /\ \A d \in Places : \E j \in 1 .. Len(search_paths) : Lib(j) = d
        /\ \A j \in 1 .. Len(search_paths) : Lib(j) # NotFound => Lib(j) \in Places
        /\ Len(search_paths) \in Nat
    BY <1>1, PlacesAreFound
  <1>3. 1 .. at - 1 = 1 .. Len(search_paths)
    BY <1>1, <1>2
  <1>4. \A d \in Places : d # NotFound
    BY <1>1, SearchAssumption DEF Places, IsMachine
  <1>5. \A j : Lib(j) # NotFound => VersionAt(Lib(j)) = Val(j)
    BY DEF Lib, Val, VersionAt, Value
  <1>6. \A j : Val(j) \in Int
    BY <1>1, ValueRange DEF Val
  <1>7. \A d \in Places : VersionAt(d) \in Int /\ VersionAt(d) <= highest_value
    <2>. SUFFICES ASSUME NEW d \in Places
                  PROVE  VersionAt(d) \in Int /\ VersionAt(d) <= highest_value
      OBVIOUS
    <2>1. PICK j \in 1 .. Len(search_paths) : Lib(j) = d
      BY <1>2
    <2>2. VersionAt(d) = Val(j)
      BY <1>4, <1>5, <2>1
    <2>. QED
      BY <1>1, <1>3, <1>6, <2>2 DEF NoneHigher
  <1>8. CASE optimal = NotFound
    <2>1. highest_value = 0
      BY <1>1, <1>8 DEF NoneHigher
    <2>2. ~ \E d \in Places : VersionAt(d) > 0
      BY <1>7, <2>1
    <2>. QED
      BY <1>8, <2>2
  <1>9. CASE optimal # NotFound
    <2>1. PICK j \in 1 .. at - 1 : Lib(j) = optimal /\ Val(j) = highest_value
      BY <1>1, <1>9 DEF FirstKept
    <2>2. optimal \in Places
      BY <1>2, <1>3, <1>9, <2>1
    <2>3. VersionAt(optimal) = highest_value
      BY <1>5, <1>9, <2>1
    <2>4. highest_value > 0
      BY <1>1, <1>9 DEF NoneHigher
    <2>. QED
      BY <1>7, <2>2, <2>3, <2>4
  <1>. QED
    BY <1>8, <1>9

LEMMA SearchInitHolds == SearchInit => SearchInv
  BY InitHolds DEF SearchInit, SearchInv, ListInUse

LEMMA SearchStepHolds == SearchInv /\ [SearchNext]_searchVars => SearchInv'
  <1>. SUFFICES ASSUME SearchInv, [SearchNext]_searchVars
                PROVE  ListInUse'
    BY StepHolds DEF SearchInv
  <1>. USE DEF SearchInv, ListInUse
  <1>1. CASE Configure
    BY <1>1 DEF Configure
  <1>2. CASE EditPaths
    <2>1. /\ given \in PathLists /\ machine \in Machines /\ at = 1
          /\ search_paths = given
      BY <1>2 DEF EditPaths, IInv, Counted
    <2>2. /\ search_paths' = Edited(given, machine)
          /\ stage' = "loop" /\ at' = at /\ given' = given /\ machine' = machine
      BY <1>2, <2>1 DEF EditPaths, Edited
    <2>3. Len(search_paths') \in Nat
      BY <2>1, <2>2, EditedLength
    <2>. QED
      BY <2>1, <2>2, <2>3 DEF Edited
  <1>3. CASE TryPath
    <2>1. at \in Nat /\ at <= Len(search_paths) /\ stage = "loop"
      BY <1>3 DEF TryPath, IInv, Counted
    <2>2. /\ at' = at + 1 /\ stage' = "loop"
          /\ UNCHANGED <<machine, given, search_paths>>
      BY <1>3, <2>1 DEF TryPath
    <2>3. Len(search_paths) \in Nat
      BY <2>1, EditedLength DEF IInv, Counted
    <2>. QED
      BY <2>1, <2>2, <2>3 DEF Edited
  <1>4. CASE EndLoop
    <2>1. Len(search_paths) \in Nat
      BY <1>4, EditedLength DEF EndLoop, IInv, Counted
    <2>2. at = Len(search_paths) + 1
      BY <1>4, <2>1 DEF EndLoop, IInv, Counted
    <2>. QED
      BY <1>4, <2>2 DEF EndLoop, Edited
  <1>5. CASE Link
    BY <1>5 DEF Link, Edited
  <1>6. CASE UNCHANGED searchVars
    BY <1>6 DEF searchVars, Edited
  <1>. QED
    BY <1>1, <1>2, <1>3, <1>4, <1>5, <1>6 DEF SearchNext

\* find_highest_libstdcxx links the highest of the libraries the caller asked
\* to be considered, whatever the order of its list and wherever the flags
\* stand in it, and none when none of them has a version.
THEOREM LinksHighest == SearchSpec => []KeepsHighest
  <1>. QED
    BY SearchInitHolds, SearchStepHolds, HighestOfPlaces, PTL DEF SearchSpec

=============================================================================
