--------------------------- MODULE InductionFacts ---------------------------
(***************************************************************************)
(* Induction and recursion over the natural numbers, stated with sets and  *)
(* functions in place of the operators that the library's theorems take:   *)
(* what the proofs about the loops of the source rest on when a loop is    *)
(* modelled by a recursive function.                                       *)
(***************************************************************************)
EXTENDS Lists, Functions, WellFoundedInduction, SequenceTheorems, TLAPS

Below == {pair \in Nat \X Nat : pair[1] < pair[2]}

LEMMA BelowWellFounded == IsWellFoundedOn(Below, Nat)
  BY NatLessThanWellFounded DEF OpToRel, Below

\* The first index a loop stops at: a set of natural numbers has a least one.
THEOREM LeastOf ==
    ASSUME NEW T \in SUBSET Nat, T # {}
    PROVE  \E n \in T : \A m \in T : n <= m
  <1>1. \A a, b \in Nat : a < b => <<a, b>> \in Below
    BY DEF Below
  <1>2. PICK n \in T : \A m \in T : ~(<<m, n>> \in Below)
    BY BelowWellFounded, WFMin
  <1>3. \A m \in T : ~(m < n)
    BY <1>1, <1>2
  <1>. QED
    BY <1>3

\* What holds before a loop and is kept by each pass holds after any number.
THEOREM ByInduction ==
    ASSUME NEW T, 0 \in T, \A n \in Nat : n \in T => n + 1 \in T
    PROVE  Nat \subseteq T
  <1>. SUFFICES ASSUME Nat \ T # {}
                PROVE  FALSE
    OBVIOUS
  <1>1. PICK n \in Nat \ T : \A m \in Nat \ T : n <= m
    BY LeastOf
  <1>2. n - 1 \in Nat /\ n - 1 + 1 = n
    OBVIOUS
  <1>3. n - 1 \in T
    BY <1>1, <1>2
  <1>. QED
    BY <1>1, <1>2, <1>3

\* The same up to a bound.
THEOREM ByInductionUpTo ==
    ASSUME NEW N \in Nat, NEW T, 0 \in T,
           \A n \in 0 .. N - 1 : n \in T => n + 1 \in T
    PROVE  \A n \in 0 .. N : n \in T
  <1>. DEFINE U == {n \in Nat : n <= N => n \in T}
  <1>1. 0 \in U
    OBVIOUS
  <1>2. \A n \in Nat : n \in U => n + 1 \in U
    OBVIOUS
  <1>. HIDE DEF U
  <1>3. Nat \subseteq U
    BY <1>1, <1>2, ByInduction
  <1>. QED
    BY <1>3 DEF U

-----------------------------------------------------------------------------
\* A loop of N passes over values of V: what each pass makes of the value it
\* starts with, and the values between the passes.
Passes(N, V) == [(1 .. N) \X V -> V]

IsLoop(run, N, V, start, pass) ==
    /\ run \in [0 .. N -> V]
    /\ run[0] = start
    /\ \A i \in 1 .. N : run[i] = pass[<<i, run[i - 1]>>]

\* Such a loop has a run: the recursive function that models it exists.
THEOREM LoopRuns ==
    ASSUME NEW N \in Nat, NEW V, NEW start \in V, NEW pass \in Passes(N, V)
    PROVE  \E run : IsLoop(run, N, V, start, pass)
  <1>. DEFINE UpTo(n) == \E run \in [0 .. n -> V] :
                            /\ run[0] = start
                            /\ \A i \in 1 .. n : run[i] = pass[<<i, run[i - 1]>>]
              T == {n \in Nat : n <= N => UpTo(n)}
  <1>1. pass \in [(1 .. N) \X V -> V]
    BY DEF Passes
  <1>2. UpTo(0)
    <2>1. /\ [i \in 0 .. 0 |-> start] \in [0 .. 0 -> V]
          /\ [i \in 0 .. 0 |-> start][0] = start
      OBVIOUS
    <2>2. \A i \in 1 .. 0 : FALSE
      OBVIOUS
    <2>. QED
      BY <2>1, <2>2
  <1>3. \A n \in Nat : n \in T => n + 1 \in T
    <2>. SUFFICES ASSUME NEW n \in Nat, n \in T, n + 1 <= N
                  PROVE  UpTo(n + 1)
      OBVIOUS
    <2>1. PICK run \in [0 .. n -> V] :
             /\ run[0] = start
             /\ \A i \in 1 .. n : run[i] = pass[<<i, run[i - 1]>>]
      OBVIOUS
    <2>. DEFINE more == [i \in 0 .. n + 1 |->
                           IF i = n + 1 THEN pass[<<n + 1, run[n]>>] ELSE run[i]]
    <2>2. run[n] \in V /\ n + 1 \in 1 .. N
      OBVIOUS
    <2>3. more \in [0 .. n + 1 -> V]
      BY <1>1, <2>2
    <2>4. more[0] = start
      BY <2>1
    <2>5. more[n + 1] = pass[<<n + 1, run[n]>>] /\ more[n] = run[n]
      OBVIOUS
    <2>6. \A i \in 1 .. n : more[i] = run[i] /\ more[i - 1] = run[i - 1]
      OBVIOUS
    <2>. HIDE DEF more
    <2>7. \A i \in 1 .. n + 1 : more[i] = pass[<<i, more[i - 1]>>]
      <3>. TAKE i \in 1 .. n + 1
      <3>1. CASE i = n + 1
        <4>1. i - 1 = n
          BY <3>1
        <4>. QED
          BY <3>1, <4>1, <2>5
      <3>2. CASE i \in 1 .. n
        BY <3>2, <2>1, <2>6
      <3>. QED
        BY <3>1, <3>2
    <2>. QED
      BY <2>3, <2>4, <2>7
  <1>4. 0 \in T
    BY <1>2
  <1>. HIDE DEF T
  <1>5. N \in T
    BY <1>3, <1>4, ByInduction
  <1>. QED
    BY <1>5 DEF T, IsLoop

-----------------------------------------------------------------------------
\* The first i elements of a list.
FirstOf(s, i) == {s[j] : j \in 1 .. i}

LEMMA AppendedElement ==
    ASSUME NEW S, NEW s \in Seq(S), NEW e \in S
    PROVE  /\ Append(s, e) \in Seq(S)
           /\ Range(Append(s, e)) = Range(s) \cup {e}
  <1>1. /\ Append(s, e) \in Seq(S)
        /\ Len(Append(s, e)) = Len(s) + 1 /\ Len(s) \in Nat
        /\ \A i \in 1 .. Len(s) : Append(s, e)[i] = s[i]
        /\ Append(s, e)[Len(s) + 1] = e
    BY AppendProperties, LenProperties
  <1>2. DOMAIN s = 1 .. Len(s) /\ DOMAIN Append(s, e) = 1 .. Len(s) + 1
    BY <1>1, LenProperties
  <1>3. 1 .. Len(s) + 1 = (1 .. Len(s)) \cup {Len(s) + 1}
    BY <1>1
  <1>. QED
    BY <1>1, <1>2, <1>3 DEF Range

\* The recursive function that models the loop exists.
LEMMA WithoutRuns ==
    ASSUME NEW S, NEW s \in Seq(S), NEW e
    PROVE  \E kept : /\ kept = [i \in 0 .. Len(s) |->
                                 IF i = 0 THEN <<>>
                                 ELSE IF s[i] = e THEN kept[i - 1]
                                 ELSE Append(kept[i - 1], s[i])]
                    /\ Without(s, e) = kept[Len(s)]
  <1>. DEFINE pass == [x \in (1 .. Len(s)) \X Seq(S) |->
                         IF s[x[1]] = e THEN x[2] ELSE Append(x[2], s[x[1]])]
              kept == CHOOSE k :
                         k = [i \in 0 .. Len(s) |->
                                IF i = 0 THEN <<>>
                                ELSE IF s[i] = e THEN k[i - 1]
                                ELSE Append(k[i - 1], s[i])]
  <1>1. pass \in [(1 .. Len(s)) \X Seq(S) -> Seq(S)]
    OBVIOUS
  <1>2. <<>> \in Seq(S) /\ Len(s) \in Nat
    OBVIOUS
  <1>. HIDE DEF pass
  <1>3. PICK run \in [0 .. Len(s) -> Seq(S)] :
           /\ run[0] = <<>>
           /\ \A i \in 1 .. Len(s) : run[i] = pass[<<i, run[i - 1]>>]
    <2>. HIDE DEF kept
    <2>1. pass \in Passes(Len(s), Seq(S))
      BY <1>1 DEF Passes
    <2>2. \E run : IsLoop(run, Len(s), Seq(S), <<>>, pass)
      BY <1>2, <2>1, LoopRuns
    <2>. QED
      BY <2>2 DEF IsLoop
  <1>4. run = [i \in 0 .. Len(s) |->
                 IF i = 0 THEN <<>>
                 ELSE IF s[i] = e THEN run[i - 1] ELSE Append(run[i - 1], s[i])]
    <2>. HIDE DEF kept
    <2>1. \A i \in 1 .. Len(s) : i - 1 \in 0 .. Len(s) /\ run[i - 1] \in Seq(S)
      BY <1>2
    <2>2. \A i \in 1 .. Len(s) :
             pass[<<i, run[i - 1]>>]
               = IF s[i] = e THEN run[i - 1] ELSE Append(run[i - 1], s[i])
      BY <2>1 DEF pass
    <2>3. run = [i \in 0 .. Len(s) |-> run[i]]
      OBVIOUS
    <2>4. \A i \in 0 .. Len(s) : i = 0 \/ i \in 1 .. Len(s)
      BY <1>2
    <2>5. \A i \in 0 .. Len(s) :
             run[i] = IF i = 0 THEN <<>>
                      ELSE IF s[i] = e THEN run[i - 1] ELSE Append(run[i - 1], s[i])
      BY <1>3, <2>2, <2>4
    <2>. QED
      BY <2>3, <2>5
  <1>5. kept = [i \in 0 .. Len(s) |->
                  IF i = 0 THEN <<>>
                  ELSE IF s[i] = e THEN kept[i - 1] ELSE Append(kept[i - 1], s[i])]
    BY <1>4
  <1>6. Without(s, e) = kept[Len(s)]
    BY DEF Without
  <1>. QED
    BY <1>5, <1>6

\* What the loop has kept after any number of elements, and what the next one
\* adds.
LEMMA WithoutKeeps ==
    ASSUME NEW S, NEW s \in Seq(S), NEW e
    PROVE  \E kept :
              /\ Without(s, e) = kept[Len(s)]
              /\ \A i \in 0 .. Len(s) : /\ kept[i] \in Seq(S)
                                        /\ Range(kept[i]) = FirstOf(s, i) \ {e}
              /\ \A i \in 0 .. Len(s) - 1 :
                    kept[i + 1] = IF s[i + 1] = e THEN kept[i]
                                  ELSE Append(kept[i], s[i + 1])
  <1>1. PICK kept :
           /\ kept = [i \in 0 .. Len(s) |->
                        IF i = 0 THEN <<>>
                        ELSE IF s[i] = e THEN kept[i - 1]
                        ELSE Append(kept[i - 1], s[i])]
           /\ Without(s, e) = kept[Len(s)]
    BY WithoutRuns
  <1>2. Len(s) \in Nat /\ DOMAIN s = 1 .. Len(s) /\ \A i \in 1 .. Len(s) : s[i] \in S
    BY LenProperties, ElementOfSeq
  <1>3. kept[0] = <<>>
    BY <1>1, <1>2
  <1>4. \A i \in 0 .. Len(s) - 1 :
           kept[i + 1] = IF s[i + 1] = e THEN kept[i] ELSE Append(kept[i], s[i + 1])
    <2>. TAKE i \in 0 .. Len(s) - 1
    <2>1. i + 1 \in 0 .. Len(s) /\ i + 1 # 0 /\ (i + 1) - 1 = i
      BY <1>2
    <2>. QED
      BY <1>1, <2>1
  <1>. DEFINE T == {i \in Nat : kept[i] \in Seq(S) /\ Range(kept[i]) = FirstOf(s, i) \ {e}}
  <1>5. 0 \in T
    <2>1. <<>> \in Seq(S) /\ Range(<<>>) = {}
      BY DEF Range
    <2>2. FirstOf(s, 0) = {}
      BY DEF FirstOf
    <2>. QED
      BY <1>3, <2>1, <2>2
  <1>6. \A i \in 0 .. Len(s) - 1 : i \in T => i + 1 \in T
    <2>. SUFFICES ASSUME NEW i \in 0 .. Len(s) - 1, i \in T
                  PROVE  i + 1 \in T
      OBVIOUS
    <2>1. i + 1 \in 1 .. Len(s) /\ i + 1 \in Nat /\ s[i + 1] \in S
      BY <1>2
    <2>2. 1 .. i + 1 = (1 .. i) \cup {i + 1}
      BY <1>2
    <2>3. FirstOf(s, i + 1) = FirstOf(s, i) \cup {s[i + 1]}
      BY <2>2 DEF FirstOf
    <2>4. CASE s[i + 1] = e
      BY <1>4, <2>1, <2>3, <2>4
    <2>5. CASE s[i + 1] # e
      <3>1. kept[i + 1] = Append(kept[i], s[i + 1])
        BY <1>4, <2>5
      <3>2. /\ Append(kept[i], s[i + 1]) \in Seq(S)
            /\ Range(Append(kept[i], s[i + 1])) = Range(kept[i]) \cup {s[i + 1]}
        <4>1. kept[i] \in Seq(S)
          OBVIOUS
        <4>. HIDE DEF T
        <4>. QED
          BY <2>1, <4>1, AppendedElement
      <3>. QED
        BY <2>1, <2>3, <2>5, <3>1, <3>2
    <2>. QED
      BY <2>4, <2>5
  <1>. HIDE DEF T
  <1>7. \A i \in 0 .. Len(s) : i \in T
    BY <1>2, <1>5, <1>6, ByInductionUpTo
  <1>. QED
    BY <1>1, <1>4, <1>7 DEF T

\* list(REMOVE_ITEM) takes every e out of the list and nothing else.
LEMMA WithoutElement ==
    ASSUME NEW S, NEW s \in Seq(S), NEW e
    PROVE  /\ Without(s, e) \in Seq(S)
           /\ Range(Without(s, e)) = Range(s) \ {e}
  <1>1. Len(s) \in Nat /\ DOMAIN s = 1 .. Len(s)
    BY LenProperties
  <1>2. FirstOf(s, Len(s)) = Range(s)
    BY <1>1 DEF FirstOf, Range
  <1>3. Len(s) \in 0 .. Len(s)
    BY <1>1
  <1>4. PICK kept :
              /\ Without(s, e) = kept[Len(s)]
              /\ \A i \in 0 .. Len(s) : /\ kept[i] \in Seq(S)
                                        /\ Range(kept[i]) = FirstOf(s, i) \ {e}
    BY WithoutKeeps
  <1>. QED
    BY <1>2, <1>3, <1>4

\* A last element that is not e stays the last.
LEMMA WithoutLast ==
    ASSUME NEW S, NEW s \in Seq(S), NEW e
    PROVE  s # <<>> /\ s[Len(s)] # e =>
              \E t \in Seq(S) : /\ Without(s, e) = Append(t, s[Len(s)])
                                /\ Range(t) = FirstOf(s, Len(s) - 1) \ {e}
  <1>1. PICK kept :
              /\ Without(s, e) = kept[Len(s)]
              /\ \A i \in 0 .. Len(s) : /\ kept[i] \in Seq(S)
                                        /\ Range(kept[i]) = FirstOf(s, i) \ {e}
              /\ \A i \in 0 .. Len(s) - 1 :
                    kept[i + 1] = IF s[i + 1] = e THEN kept[i]
                                  ELSE Append(kept[i], s[i + 1])
    BY WithoutKeeps
  <1>. SUFFICES ASSUME s # <<>>, s[Len(s)] # e
                PROVE  \E t \in Seq(S) : /\ Without(s, e) = Append(t, s[Len(s)])
                                         /\ Range(t) = FirstOf(s, Len(s) - 1) \ {e}
    OBVIOUS
  <1>2. Len(s) \in Nat /\ Len(s) # 0
    BY LenProperties, EmptySeq
  <1>3. Len(s) - 1 \in 0 .. Len(s) /\ Len(s) - 1 \in 0 .. Len(s) - 1 /\ (Len(s) - 1) + 1 = Len(s)
    BY <1>2
  <1>. QED
    BY <1>1, <1>3
=============================================================================
