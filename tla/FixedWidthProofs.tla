--------------------------- MODULE FixedWidthProofs ---------------------------
(***************************************************************************)
(* A field of any width gives back the integer that was put into it, and   *)
(* the integer gives back the field: for the bytes of struct.pack, the     *)
(* bits of int_to_bin and the cells of a relocated place.                  *)
(***************************************************************************)
EXTENDS FixedWidth, InductionFacts

Cell(b) == 0 .. b - 1

\* A number is its quotient and its remainder, also a negative one.
LEMMA Quotient ==
    ASSUME NEW b \in Nat \ {0}, NEW x \in Int
    PROVE  x \div b \in Int /\ x % b \in Cell(b) /\ x = b * (x \div b) + (x % b)
  BY SMT DEF Cell

\* One more cell, taken off again.
LEMMA QuotientOf ==
    ASSUME NEW b \in Nat \ {0}, NEW q \in Int, NEW r \in Cell(b)
    PROVE  /\ b * q + r \in Int
           /\ (b * q + r) \div b = q /\ (b * q + r) % b = r
  BY SMT DEF Cell

\* One more cell keeps a number, and keeps it below the next power.
LEMMA NextNumber ==
    ASSUME NEW b \in Nat \ {0}, NEW u \in Nat, NEW r \in Cell(b)
    PROVE  b * u + r \in Nat
  BY SMT DEF Cell

LEMMA NextBelow ==
    ASSUME NEW b \in Nat \ {0}, NEW u \in Nat, NEW r \in Cell(b), NEW p \in Nat, u < p
    PROVE  b * u + r < b * p
  <1>1. b * (u + 1) <= b * p /\ b * (u + 1) = b * u + b
    BY SMT
  <1>2. b * u \in Nat /\ b * p \in Nat
    BY SMT
  <1>. QED
    BY <1>1, <1>2 DEF Cell

\* One more cell, when the quotient is known some cells further on.
LEMMA NextMultiple ==
    ASSUME NEW b \in Nat, NEW q \in Int, NEW p \in Nat, NEW u \in Nat, NEW r \in Nat
    PROVE  b * (q * p + u) + r = q * (b * p) + (b * u + r)
  BY SMT

-----------------------------------------------------------------------------
\* The powers of the base, as the loop finds them.
IsPowers(p, b, w) ==
    /\ p \in [0 .. w -> Nat] /\ p[0] = 1
    /\ \A k \in 1 .. w : p[k] = b * p[k - 1]
    /\ Power(b, w) = p[w]

\* The recursive function that models the loop exists; so for the two below.
LEMMA PowersRun ==
    ASSUME NEW b \in Nat, NEW w \in Nat
    PROVE  \E p : IsPowers(p, b, w)
  <1>. DEFINE pass == [x \in (1 .. w) \X Nat |-> b * x[2]]
              power == CHOOSE f : f = [k \in 0 .. w |-> IF k = 0 THEN 1 ELSE b * f[k - 1]]
  <1>1. \A x \in Nat : b * x \in Nat
    BY SMT
  <1>2. pass \in Passes(w, Nat)
    BY <1>1 DEF Passes
  <1>3. \A i \in 1 .. w : \A x \in Nat : pass[<<i, x>>] = b * x
    OBVIOUS
  <1>. HIDE DEF pass
  <1>4. \E run : IsLoop(run, w, Nat, 1, pass)
    BY <1>2, LoopRuns
  <1>5. PICK run : IsLoop(run, w, Nat, 1, pass)
    BY <1>4
  <1>6. /\ run \in [0 .. w -> Nat] /\ run[0] = 1
        /\ \A i \in 1 .. w : run[i] = pass[<<i, run[i - 1]>>]
    BY <1>5 DEF IsLoop
  <1>7. \A i \in 1 .. w : i - 1 \in 0 .. w
    OBVIOUS
  <1>8. \A i \in 1 .. w : run[i] = b * run[i - 1]
    BY <1>3, <1>6, <1>7
  <1>9. run = [k \in 0 .. w |-> IF k = 0 THEN 1 ELSE b * run[k - 1]]
    <2>1. run = [k \in 0 .. w |-> run[k]]
      BY <1>6
    <2>2. \A k \in 0 .. w : k # 0 => k \in 1 .. w
      OBVIOUS
    <2>3. \A k \in 0 .. w : run[k] = IF k = 0 THEN 1 ELSE b * run[k - 1]
      BY <1>6, <1>8, <2>2
    <2>. QED
      BY <2>1, <2>3
  <1>10. power = [k \in 0 .. w |-> IF k = 0 THEN 1 ELSE b * power[k - 1]]
    BY <1>9
  <1>11. Power(b, w) = power[w]
    BY DEF Power
  <1>. HIDE DEF power
  <1>12. power[0] = 1 /\ \A k \in 1 .. w : power[k] = b * power[k - 1]
    BY <1>10
  <1>. DEFINE T == {k \in 0 .. w : power[k] \in Nat}
  <1>13. 0 \in T
    BY <1>12
  <1>14. \A k \in 0 .. w - 1 : k \in T => k + 1 \in T
    <2>. TAKE k \in 0 .. w - 1
    <2>1. k + 1 \in 1 .. w /\ (k + 1) - 1 = k
      OBVIOUS
    <2>. QED
      BY <1>1, <1>12, <2>1
  <1>. HIDE DEF T
  <1>15. \A k \in 0 .. w : power[k] \in Nat
    BY <1>13, <1>14, ByInductionUpTo DEF T
  <1>16. power \in [0 .. w -> Nat]
    BY <1>10, <1>15
  <1>17. IsPowers(power, b, w)
    BY <1>11, <1>12, <1>16 DEF IsPowers
  <1>. QED
    BY <1>17

\* The power is one more factor than the power before.
LEMMA Powers ==
    ASSUME NEW b \in Nat, NEW w \in Nat
    PROVE  /\ Power(b, w) \in Nat /\ Power(b, 0) = 1
           /\ Power(b, w + 1) = b * Power(b, w)
  <1>1. PICK p : IsPowers(p, b, w)
    BY PowersRun
  <1>2. PICK q : IsPowers(q, b, w + 1)
    BY PowersRun
  <1>3. PICK z : IsPowers(z, b, 0)
    BY PowersRun
  <1>. DEFINE T == {k \in 0 .. w : p[k] = q[k]}
  <1>4. 0 \in T
    BY <1>1, <1>2 DEF IsPowers
  <1>5. \A k \in 0 .. w - 1 : k \in T => k + 1 \in T
    <2>. TAKE k \in 0 .. w - 1
    <2>1. k + 1 \in 1 .. w /\ k + 1 \in 1 .. w + 1 /\ (k + 1) - 1 = k
      OBVIOUS
    <2>. QED
      BY <1>1, <1>2, <2>1 DEF IsPowers
  <1>. HIDE DEF T
  <1>6. p[w] = q[w]
    <2>1. \A k \in 0 .. w : k \in T
      BY <1>4, <1>5, ByInductionUpTo
    <2>. QED
      BY <2>1 DEF T
  <1>7. q[w + 1] = b * q[w]
    <2>1. w + 1 \in 1 .. w + 1 /\ (w + 1) - 1 = w
      OBVIOUS
    <2>. QED
      BY <1>2, <2>1 DEF IsPowers
  <1>. QED
    BY <1>1, <1>2, <1>3, <1>6, <1>7 DEF IsPowers

\* What is left of the number after each cell.
IsRests(r, b, w, n) ==
    /\ r \in [0 .. w -> Int] /\ r[0] = n
    /\ \A k \in 1 .. w : r[k] = r[k - 1] \div b
    /\ CellsOfNumber(b, w, n) = [i \in 1 .. w |-> r[w - i] % b]

LEMMA RestsRun ==
    ASSUME NEW b \in Nat \ {0}, NEW w \in Nat, NEW n \in Int
    PROVE  \E r : IsRests(r, b, w, n)
  <1>. DEFINE pass == [x \in (1 .. w) \X Int |-> x[2] \div b]
              rest == CHOOSE g : g = [k \in 0 .. w |-> IF k = 0 THEN n ELSE g[k - 1] \div b]
  <1>1. w \in Nat /\ \A k \in 1 .. w : \A x \in Int : x \div b \in Int
    BY Quotient
  <1>2. pass \in Passes(w, Int)
    BY <1>1 DEF Passes
  <1>3. \A k \in 1 .. w : \A x \in Int : pass[<<k, x>>] = x \div b
    OBVIOUS
  <1>4. CellsOfNumber(b, w, n) = [i \in 1 .. w |-> rest[w - i] % b]
    BY DEF CellsOfNumber
  <1>. HIDE DEF pass
  <1>5. \E run : IsLoop(run, w, Int, n, pass)
    BY <1>1, <1>2, LoopRuns
  <1>6. PICK run : IsLoop(run, w, Int, n, pass)
    BY <1>5
  <1>7. /\ run \in [0 .. w -> Int] /\ run[0] = n
        /\ \A k \in 1 .. w : run[k] = pass[<<k, run[k - 1]>>]
    BY <1>6 DEF IsLoop
  <1>8. \A k \in 1 .. w : k - 1 \in 0 .. w
    BY <1>1
  <1>9. \A k \in 1 .. w : run[k] = run[k - 1] \div b
    BY <1>3, <1>7, <1>8
  <1>10. run = [k \in 0 .. w |-> IF k = 0 THEN n ELSE run[k - 1] \div b]
    <2>1. run = [k \in 0 .. w |-> run[k]]
      BY <1>7
    <2>2. \A k \in 0 .. w : k # 0 => k \in 1 .. w
      BY <1>1
    <2>3. \A k \in 0 .. w : run[k] = IF k = 0 THEN n ELSE run[k - 1] \div b
      BY <1>7, <1>9, <2>2
    <2>. QED
      BY <2>1, <2>3
  <1>11. rest = [k \in 0 .. w |-> IF k = 0 THEN n ELSE rest[k - 1] \div b]
    BY <1>10
  <1>. HIDE DEF rest
  <1>12. rest[0] = n /\ \A k \in 1 .. w : rest[k] = rest[k - 1] \div b
    BY <1>1, <1>11
  <1>. DEFINE T == {k \in 0 .. w : rest[k] \in Int}
  <1>13. 0 \in T
    BY <1>1, <1>12
  <1>14. \A k \in 0 .. w - 1 : k \in T => k + 1 \in T
    <2>. TAKE k \in 0 .. w - 1
    <2>1. k + 1 \in 1 .. w /\ (k + 1) - 1 = k
      BY <1>1
    <2>. QED
      BY <1>1, <1>12, <2>1
  <1>. HIDE DEF T
  <1>15. \A k \in 0 .. w : rest[k] \in Int
    BY <1>1, <1>13, <1>14, ByInductionUpTo DEF T
  <1>16. rest \in [0 .. w -> Int]
    BY <1>11, <1>15
  <1>17. IsRests(rest, b, w, n)
    BY <1>4, <1>12, <1>16 DEF IsRests
  <1>. QED
    BY <1>17

\* The number that the cells so far make.
IsNumbers(u, b, s) ==
    /\ u \in [0 .. Len(s) -> Nat] /\ u[0] = 0
    /\ \A k \in 1 .. Len(s) : u[k] = b * u[k - 1] + s[k]
    /\ NumberOfCells(b, s) = u[Len(s)]

LEMMA NumbersRun ==
    ASSUME NEW b \in Nat \ {0}, NEW s \in Seq(Cell(b))
    PROVE  \E u : IsNumbers(u, b, s)
  <1>. DEFINE w == Len(s)
              pass == [x \in (1 .. w) \X Nat |-> b * x[2] + s[x[1]]]
              upto == CHOOSE g : g = [k \in 0 .. w |-> IF k = 0 THEN 0 ELSE b * g[k - 1] + s[k]]
  <1>0. w \in Nat /\ \A k \in 1 .. w : s[k] \in Cell(b)
    BY LenProperties, ElementOfSeq
  <1>1. w \in Nat /\ \A k \in 1 .. w : \A x \in Nat : b * x + s[k] \in Nat
    BY <1>0, NextNumber
  <1>2. pass \in Passes(w, Nat)
    BY <1>1 DEF Passes
  <1>3. \A k \in 1 .. w : \A x \in Nat : pass[<<k, x>>] = b * x + s[k]
    OBVIOUS
  <1>4. NumberOfCells(b, s) = upto[Len(s)]
    BY DEF NumberOfCells
  <1>. HIDE DEF pass, w
  <1>5. \E run : IsLoop(run, w, Nat, 0, pass)
    BY <1>1, <1>2, LoopRuns
  <1>6. PICK run : IsLoop(run, w, Nat, 0, pass)
    BY <1>5
  <1>7. /\ run \in [0 .. w -> Nat] /\ run[0] = 0
        /\ \A k \in 1 .. w : run[k] = pass[<<k, run[k - 1]>>]
    BY <1>6 DEF IsLoop
  <1>8. \A k \in 1 .. w : k - 1 \in 0 .. w
    BY <1>1
  <1>9. \A k \in 1 .. w : run[k] = b * run[k - 1] + s[k]
    BY <1>3, <1>7, <1>8
  <1>10. run = [k \in 0 .. w |-> IF k = 0 THEN 0 ELSE b * run[k - 1] + s[k]]
    <2>1. run = [k \in 0 .. w |-> run[k]]
      BY <1>7
    <2>2. \A k \in 0 .. w : k # 0 => k \in 1 .. w
      BY <1>1
    <2>3. \A k \in 0 .. w : run[k] = IF k = 0 THEN 0 ELSE b * run[k - 1] + s[k]
      BY <1>7, <1>9, <2>2
    <2>. QED
      BY <2>1, <2>3
  <1>11. upto = [k \in 0 .. w |-> IF k = 0 THEN 0 ELSE b * upto[k - 1] + s[k]]
    BY <1>10
  <1>. HIDE DEF upto
  <1>12. upto[0] = 0 /\ \A k \in 1 .. w : upto[k] = b * upto[k - 1] + s[k]
    BY <1>1, <1>11
  <1>. DEFINE T == {k \in 0 .. w : upto[k] \in Nat}
  <1>13. 0 \in T
    BY <1>1, <1>12
  <1>14. \A k \in 0 .. w - 1 : k \in T => k + 1 \in T
    <2>. TAKE k \in 0 .. w - 1
    <2>1. k + 1 \in 1 .. w /\ (k + 1) - 1 = k /\ k + 1 \in 0 .. w
      BY <1>1
    <2>2. upto[k + 1] = b * upto[k] + s[k + 1]
      BY <1>12, <2>1
    <2>3. upto[k] \in Nat => b * upto[k] + s[k + 1] \in Nat
      BY <1>1, <2>1
    <2>. QED
      BY <2>1, <2>2, <2>3
  <1>. HIDE DEF T
  <1>15. \A k \in 0 .. w : upto[k] \in Nat
    <2>1. w \in Nat
      BY <1>1
    <2>2. \A k \in 0 .. w : k \in T
      BY <1>13, <1>14, <2>1, ByInductionUpTo
    <2>. QED
      BY <2>2 DEF T
  <1>16. upto \in [0 .. w -> Nat]
    BY <1>11, <1>15
  <1>17. IsNumbers(upto, b, s)
    BY <1>4, <1>12, <1>16 DEF IsNumbers, w
  <1>. QED
    BY <1>17

-----------------------------------------------------------------------------
\* The cells of a number make the number again, cut to their width: for every
\* base, every width and every integer, a negative one too.
THEOREM NumberCut ==
    ASSUME NEW b \in Nat \ {0}, NEW w \in Nat, NEW n \in Int
    PROVE  /\ CellsOfNumber(b, w, n) \in Seq(Cell(b))
           /\ Len(CellsOfNumber(b, w, n)) = w
           /\ Power(b, w) \in Nat \ {0}
           /\ NumberOfCells(b, CellsOfNumber(b, w, n)) = n % Power(b, w)
  <1>. DEFINE s == CellsOfNumber(b, w, n)
  <1>1. PICK r : IsRests(r, b, w, n)
    BY RestsRun
  <1>2. PICK p : IsPowers(p, b, w)
    BY PowersRun
  <1>3. \A i \in 1 .. w : w - i \in 0 .. w
    OBVIOUS
  <1>4. s = [i \in 1 .. w |-> r[w - i] % b] /\ r \in [0 .. w -> Int]
    BY <1>1 DEF IsRests
  <1>. HIDE DEF s
  <1>5. \A i \in 1 .. w : s[i] = r[w - i] % b /\ r[w - i] \in Int /\ s[i] \in Cell(b)
    BY <1>3, <1>4, Quotient
  <1>6. s \in Seq(Cell(b)) /\ Len(s) = w
    <2>1. s = [i \in 1 .. w |-> s[i]]
      BY <1>4
    <2>. QED
      BY <1>4, <1>5, <2>1
  <1>7. PICK u : IsNumbers(u, b, s)
    BY <1>6, NumbersRun
  <1>8. /\ u \in [0 .. w -> Nat] /\ u[0] = 0
        /\ \A k \in 1 .. w : u[k] = b * u[k - 1] + s[k]
        /\ NumberOfCells(b, s) = u[w]
    BY <1>6, <1>7 DEF IsNumbers
  <1>9. /\ p \in [0 .. w -> Nat] /\ p[0] = 1
        /\ \A k \in 1 .. w : p[k] = b * p[k - 1]
        /\ Power(b, w) = p[w]
    BY <1>2 DEF IsPowers
  <1>10. r[w] \in Int /\ r[0] = n /\ \A k \in 1 .. w : r[k] = r[k - 1] \div b
    BY <1>1 DEF IsRests
  <1>. DEFINE T == {k \in 0 .. w : r[w - k] = r[w] * p[k] + u[k] /\ u[k] < p[k]}
  <1>11. 0 \in T
    <2>1. r[w] * 1 + 0 = r[w] /\ w - 0 = w /\ 0 \in 0 .. w
      BY <1>10
    <2>. QED
      BY <1>8, <1>9, <2>1
  <1>12. \A k \in 0 .. w - 1 : k \in T => k + 1 \in T
    <2>. SUFFICES ASSUME NEW k \in 0 .. w - 1, k \in T
                  PROVE  k + 1 \in T
      OBVIOUS
    <2>1. /\ k + 1 \in 1 .. w /\ k + 1 \in 0 .. w /\ (k + 1) - 1 = k
          /\ w - k \in 1 .. w /\ (w - k) - 1 = w - (k + 1) /\ k \in 0 .. w
      OBVIOUS
    <2>2. r[w - k] = r[w - (k + 1)] \div b /\ r[w - (k + 1)] \in Int
      BY <1>5, <1>10, <2>1
    <2>3. r[w - (k + 1)] = b * r[w - k] + s[k + 1]
      BY <1>5, <2>1, <2>2, Quotient
    <2>4. r[w - k] = r[w] * p[k] + u[k] /\ u[k] < p[k]
      OBVIOUS
    <2>5. u[k] \in Nat /\ p[k] \in Nat /\ s[k + 1] \in Cell(b) /\ s[k + 1] \in Nat
      <3>1. u[k] \in Nat /\ p[k] \in Nat
        BY <1>8, <1>9, <2>1
      <3>2. s[k + 1] \in Cell(b)
        BY <1>5, <2>1
      <3>. QED
        BY <3>1, <3>2 DEF Cell
    <2>6. u[k + 1] = b * u[k] + s[k + 1] /\ p[k + 1] = b * p[k]
      BY <1>8, <1>9, <2>1
    <2>7. r[w - (k + 1)] = r[w] * p[k + 1] + u[k + 1]
      <3>1. b * (r[w] * p[k] + u[k]) + s[k + 1]
              = r[w] * (b * p[k]) + (b * u[k] + s[k + 1])
        BY <1>10, <2>5, NextMultiple
      <3>. QED
        BY <2>3, <2>4, <2>6, <3>1
    <2>8. u[k + 1] < p[k + 1]
      BY <2>4, <2>5, <2>6, NextBelow
    <2>. QED
      BY <2>1, <2>7, <2>8
  <1>. HIDE DEF T
  <1>13. w \in T
    BY <1>11, <1>12, ByInductionUpTo
  <1>14. n = r[w] * p[w] + u[w] /\ u[w] < p[w]
    <2>1. r[w - w] = r[w] * p[w] + u[w] /\ u[w] < p[w]
      BY <1>13 DEF T
    <2>2. w - w = 0
      OBVIOUS
    <2>. QED
      BY <1>10, <2>1, <2>2
  <1>15. u[w] \in Nat /\ p[w] \in Nat
    BY <1>8, <1>9
  <1>16. p[w] \in Nat \ {0} /\ u[w] \in Cell(p[w]) /\ r[w] * p[w] = p[w] * r[w]
    BY <1>10, <1>14, <1>15, SMT DEF Cell
  <1>17. n % p[w] = u[w]
    <2>1. \A q \in Int : (p[w] * q + u[w]) % p[w] = u[w]
      BY <1>16, QuotientOf
    <2>2. (p[w] * r[w] + u[w]) % p[w] = u[w]
      BY <1>10, <2>1
    <2>. QED
      BY <1>14, <1>16, <2>2
  <1>. QED
    BY <1>6, <1>8, <1>9, <1>16, <1>17 DEF s

\* Cells of any length make a number that fits, and are its cells again.
THEOREM CellsAgain ==
    ASSUME NEW b \in Nat \ {0}, NEW s \in Seq(Cell(b))
    PROVE  /\ NumberOfCells(b, s) \in Nat
           /\ NumberOfCells(b, s) < Power(b, Len(s))
           /\ CellsOfNumber(b, Len(s), NumberOfCells(b, s)) = s
  <1>. DEFINE w == Len(s)
              n == NumberOfCells(b, s)
  <1>1. w \in Nat /\ \A k \in 1 .. w : s[k] \in Cell(b) /\ s[k] \in Nat
    BY LenProperties, ElementOfSeq DEF Cell
  <1>2. PICK u : IsNumbers(u, b, s)
    BY NumbersRun
  <1>3. /\ u \in [0 .. w -> Nat] /\ u[0] = 0
        /\ \A k \in 1 .. w : u[k] = b * u[k - 1] + s[k]
        /\ n = u[w]
    BY <1>2 DEF IsNumbers
  <1>4. s = [i \in 1 .. w |-> s[i]]
    BY LenProperties
  <1>. HIDE DEF w, n
  <1>5. n \in Nat /\ n \in Int
    BY <1>1, <1>3
  <1>6. PICK r : IsRests(r, b, w, n)
    BY <1>1, <1>5, RestsRun
  <1>7. /\ r[0] = n /\ \A k \in 1 .. w : r[k] = r[k - 1] \div b
        /\ CellsOfNumber(b, w, n) = [i \in 1 .. w |-> r[w - i] % b]
    BY <1>6 DEF IsRests
  <1>8. \A k \in 0 .. w - 1 : u[w - k] = b * u[w - (k + 1)] + s[w - k]
                              /\ u[w - (k + 1)] \in Int /\ s[w - k] \in Cell(b)
    <2>. TAKE k \in 0 .. w - 1
    <2>1. w - k \in 1 .. w /\ (w - k) - 1 = w - (k + 1) /\ w - (k + 1) \in 0 .. w
      BY <1>1
    <2>. QED
      BY <1>1, <1>3, <2>1
  <1>9. \A k \in 0 .. w : r[k] = u[w - k]
    <2>. DEFINE T == {k \in 0 .. w : r[k] = u[w - k]}
    <2>1. 0 \in T
      <3>1. w - 0 = w /\ 0 \in 0 .. w
        BY <1>1
      <3>. QED
        BY <1>3, <1>7, <3>1
    <2>2. \A k \in 0 .. w - 1 : k \in T => k + 1 \in T
      <3>. SUFFICES ASSUME NEW k \in 0 .. w - 1, r[k] = u[w - k]
                    PROVE  k + 1 \in T
        OBVIOUS
      <3>1. k + 1 \in 1 .. w /\ k + 1 \in 0 .. w /\ (k + 1) - 1 = k
        BY <1>1
      <3>2. r[k + 1] = r[k] \div b
        BY <1>7, <3>1
      <3>3. u[w - k] \div b = u[w - (k + 1)]
        <4>1. /\ u[w - k] = b * u[w - (k + 1)] + s[w - k]
              /\ u[w - (k + 1)] \in Int /\ s[w - k] \in Cell(b)
          BY <1>8
        <4>2. (b * u[w - (k + 1)] + s[w - k]) \div b = u[w - (k + 1)]
          BY <4>1, QuotientOf
        <4>. QED
          BY <4>1, <4>2
      <3>. QED
        BY <3>1, <3>2, <3>3
    <2>. HIDE DEF T
    <2>3. \A k \in 0 .. w : k \in T
      BY <1>1, <2>1, <2>2, ByInductionUpTo
    <2>. QED
      BY <2>3 DEF T
  <1>10. \A i \in 1 .. w : r[w - i] % b = s[i]
    <2>. TAKE i \in 1 .. w
    <2>1. w - i \in 0 .. w /\ w - i \in 0 .. w - 1 /\ w - (w - i) = i
      BY <1>1
    <2>2. r[w - i] = u[i]
      BY <1>9, <2>1
    <2>3. u[i] = b * u[w - ((w - i) + 1)] + s[i] /\ u[w - ((w - i) + 1)] \in Int
          /\ s[i] \in Cell(b)
      BY <1>8, <2>1
    <2>4. (b * u[w - ((w - i) + 1)] + s[i]) % b = s[i]
      BY <2>3, QuotientOf
    <2>. QED
      BY <2>2, <2>3, <2>4
  <1>11. CellsOfNumber(b, w, n) = s
    BY <1>4, <1>7, <1>10
  <1>12. Power(b, w) \in Nat \ {0} /\ n = n % Power(b, w)
    BY <1>1, <1>5, <1>11, NumberCut DEF n
  <1>13. n < Power(b, w)
    BY <1>5, <1>12, SMT
  <1>. QED
    BY <1>5, <1>11, <1>13 DEF w, n

-----------------------------------------------------------------------------
\* The byte order swapped twice.
LEMMA SwappedBack ==
    ASSUME NEW S, NEW s \in Seq(S), NEW little \in BOOLEAN
    PROVE  /\ Swapped(s, little) \in Seq(S)
           /\ Len(Swapped(s, little)) = Len(s)
           /\ Swapped(Swapped(s, little), little) = s
  <1>1. Len(s) \in Nat /\ s = [i \in 1 .. Len(s) |-> s[i]] /\ \A i \in 1 .. Len(s) : s[i] \in S
    BY LenProperties, ElementOfSeq
  <1>. DEFINE w == Len(s)
              back == [i \in 1 .. w |-> s[w + 1 - i]]
  <1>. HIDE DEF w
  <1>2. w \in Nat /\ \A i \in 1 .. w : w + 1 - i \in 1 .. w /\ w + 1 - (w + 1 - i) = i
    BY <1>1 DEF w
  <1>3. back \in Seq(S) /\ Len(back) = w
    BY <1>1, <1>2 DEF w
  <1>4. [i \in 1 .. w |-> back[w + 1 - i]] = s
    <2>1. \A i \in 1 .. w : back[w + 1 - i] = s[i]
      BY <1>2
    <2>. HIDE DEF back
    <2>. QED
      BY <1>1, <2>1 DEF w
  <1>. HIDE DEF back
  <1>5. CASE little
    <2>1. Swapped(s, little) = back
      BY <1>5 DEF Swapped, back, w
    <2>2. Swapped(back, little) = [i \in 1 .. w |-> back[w + 1 - i]]
      BY <1>3, <1>5 DEF Swapped
    <2>. QED
      BY <1>3, <1>4, <2>1, <2>2 DEF w
  <1>6. CASE ~little
    BY <1>6 DEF Swapped
  <1>. QED
    BY <1>5, <1>6

\* What a field of any width gives back: the number that was put into it, cut
\* to the width.  This is what a relocated place holds when the next
\* relocation of the same place reads it.
THEOREM FieldHolds ==
    ASSUME NEW b \in Nat \ {0}, NEW w \in Nat, NEW n \in Int, NEW little \in BOOLEAN
    PROVE  /\ FieldCells(b, n, w, little) \in Seq(Cell(b))
           /\ Len(FieldCells(b, n, w, little)) = w
           /\ FieldNumber(b, FieldCells(b, n, w, little), little) = n % Power(b, w)
  <1>. DEFINE s == CellsOfNumber(b, w, n)
  <1>1. /\ s \in Seq(Cell(b)) /\ Len(s) = w
        /\ NumberOfCells(b, s) = n % Power(b, w)
    BY NumberCut
  <1>. HIDE DEF s
  <1>2. /\ Swapped(s, little) \in Seq(Cell(b)) /\ Len(Swapped(s, little)) = w
        /\ Swapped(Swapped(s, little), little) = s
    BY <1>1, SwappedBack
  <1>. QED
    BY <1>1, <1>2 DEF FieldCells, FieldNumber, s

\* A field is what its number is packed to again.
THEOREM FieldAgain ==
    ASSUME NEW b \in Nat \ {0}, NEW s \in Seq(Cell(b)), NEW little \in BOOLEAN
    PROVE  /\ FieldNumber(b, s, little) \in Nat
           /\ FieldNumber(b, s, little) < Power(b, Len(s))
           /\ FieldCells(b, FieldNumber(b, s, little), Len(s), little) = s
  <1>. DEFINE t == Swapped(s, little)
  <1>1. t \in Seq(Cell(b)) /\ Len(t) = Len(s) /\ Swapped(t, little) = s
    BY SwappedBack
  <1>. HIDE DEF t
  <1>2. /\ NumberOfCells(b, t) \in Nat /\ NumberOfCells(b, t) < Power(b, Len(t))
        /\ CellsOfNumber(b, Len(t), NumberOfCells(b, t)) = t
    BY <1>1, CellsAgain
  <1>. QED
    BY <1>1, <1>2 DEF FieldCells, FieldNumber, t

-----------------------------------------------------------------------------
\* The complement of a number that is in range fits, and is told from the
\* numbers that are not negative by its upper half.
LEMMA ComplementFits ==
    ASSUME NEW b \in Nat \ {0}, NEW w \in Nat, NEW n \in Int, NEW signed \in BOOLEAN,
           InRange(b, n, w, signed), Power(b, w) \in Nat \ {0}
    PROVE  /\ Complement(b, n, w) \in Nat
           /\ Complement(b, n, w) % Power(b, w) = Complement(b, n, w)
           /\ n < 0 <=> signed /\ 2 * Complement(b, n, w) >= Power(b, w)
  <1>. DEFINE P == Power(b, w)
  <1>1. P \in Nat \ {0}
    OBVIOUS
  <1>2. IF signed THEN -P <= 2 * n /\ 2 * n < P ELSE 0 <= n /\ n < P
    BY DEF InRange
  <1>3. Complement(b, n, w) = IF n < 0 THEN n + P ELSE n
    BY DEF Complement
  <1>. HIDE DEF P
  <1>4. /\ Complement(b, n, w) \in Nat /\ Complement(b, n, w) < P
        /\ n < 0 <=> signed /\ 2 * Complement(b, n, w) >= P
    BY <1>1, <1>2, <1>3
  <1>5. \A x \in Nat : x < P => x % P = x
    BY <1>1
  <1>. QED
    BY <1>4, <1>5 DEF P

\* A number that was read is in range, and its complement is what was read.
LEMMA ComplementOf ==
    ASSUME NEW b \in Nat \ {0}, NEW w \in Nat, NEW u \in Nat, NEW signed \in BOOLEAN,
           Power(b, w) \in Nat, u < Power(b, w),
           NEW n \in Int,
           n = IF signed /\ 2 * u >= Power(b, w) THEN u - Power(b, w) ELSE u
    PROVE  InRange(b, n, w, signed) /\ Complement(b, n, w) = u
  <1>. DEFINE P == Power(b, w)
  <1>1. P \in Nat /\ u < P /\ n = IF signed /\ 2 * u >= P THEN u - P ELSE u
    OBVIOUS
  <1>2. /\ InRange(b, n, w, signed)
             <=> IF signed THEN -P <= 2 * n /\ 2 * n < P ELSE 0 <= n /\ n < P
        /\ Complement(b, n, w) = IF n < 0 THEN n + P ELSE n
    BY DEF InRange, Complement
  <1>. HIDE DEF P
  <1>3. CASE signed /\ 2 * u >= P
    <2>1. n = u - P
      BY <1>1, <1>3
    <2>2. n < 0 /\ n + P = u /\ -P <= 2 * n /\ 2 * n < P
      BY <1>1, <1>3, <2>1
    <2>. QED
      BY <1>2, <1>3, <2>2
  <1>4. CASE ~(signed /\ 2 * u >= P)
    <2>1. n = u
      BY <1>1, <1>4
    <2>2. ~(n < 0) /\ 0 <= n /\ n < P /\ -P <= 2 * n
      BY <1>1, <2>1
    <2>3. signed => 2 * n < P
      BY <1>1, <1>4, <2>1
    <2>. QED
      BY <1>2, <2>1, <2>2, <2>3
  <1>. QED
    BY <1>3, <1>4

\* FormatField: what struct.pack builds of an integer in range, struct.unpack
\* parses to that integer, in either byte order, signed or not.
THEOREM PackUnpack ==
    ASSUME NEW n \in Int, NEW w \in Nat, NEW signed \in BOOLEAN, NEW little \in BOOLEAN,
           InRange(256, n, w, signed)
    PROVE  /\ Pack(n, w, little) \in Seq(Cell(256))
           /\ Len(Pack(n, w, little)) = w
           /\ Unpack(Pack(n, w, little), signed, little) = n
  <1>. DEFINE P == Power(256, w)
              c == Complement(256, n, w)
  <1>1. P \in Nat \ {0}
    BY NumberCut
  <1>2. c \in Nat /\ c % P = c /\ (n < 0 <=> signed /\ 2 * c >= P)
    BY <1>1, ComplementFits
  <1>3. c = IF n < 0 THEN n + P ELSE n
    BY DEF Complement
  <1>. HIDE DEF P, c
  <1>4. /\ FieldCells(256, c, w, little) \in Seq(Cell(256)) /\ Len(FieldCells(256, c, w, little)) = w
        /\ FieldNumber(256, FieldCells(256, c, w, little), little) = c % Power(256, w)
    BY <1>2, FieldHolds
  <1>5. Pack(n, w, little) = FieldCells(256, c, w, little)
    BY DEF Pack, c
  <1>6. Unpack(Pack(n, w, little), signed, little)
          = IF signed /\ 2 * c >= P THEN c - P ELSE c
    BY <1>2, <1>4, <1>5 DEF Unpack, P
  <1>. QED
    BY <1>1, <1>2, <1>3, <1>4, <1>5, <1>6

\* FormatField: every field of bytes parses to an integer in range, and
\* building that integer gives the same bytes.
THEOREM UnpackPack ==
    ASSUME NEW s \in Seq(Cell(256)), NEW signed \in BOOLEAN, NEW little \in BOOLEAN
    PROVE  /\ InRange(256, Unpack(s, signed, little), Len(s), signed)
           /\ Pack(Unpack(s, signed, little), Len(s), little) = s
  <1>. DEFINE u == FieldNumber(256, s, little)
              n == Unpack(s, signed, little)
  <1>1. /\ u \in Nat /\ u < Power(256, Len(s))
        /\ FieldCells(256, u, Len(s), little) = s
    BY FieldAgain
  <1>2. Len(s) \in Nat /\ Power(256, Len(s)) \in Nat
    BY LenProperties, Powers
  <1>3. n = IF signed /\ 2 * u >= Power(256, Len(s)) THEN u - Power(256, Len(s)) ELSE u
    BY DEF Unpack
  <1>. HIDE DEF u, n
  <1>4. n \in Int
    BY <1>1, <1>2, <1>3
  <1>5. InRange(256, n, Len(s), signed) /\ Complement(256, n, Len(s)) = u
    BY <1>1, <1>2, <1>3, <1>4, ComplementOf
  <1>. QED
    BY <1>1, <1>5 DEF Pack, n

-----------------------------------------------------------------------------
\* One more bit leaves a number in its half of the range.
LEMMA HalfKept ==
    ASSUME NEW u \in Nat, NEW p \in Nat, NEW bit, bit = 0 \/ bit = 1
    PROVE  /\ 2 * u >= p => 2 * (2 * u + bit) >= 2 * p
           /\ 2 * u + 2 <= p => 2 * (2 * u + bit) + 2 <= 2 * p
  OBVIOUS

\* The first bit tells the upper half of the numbers from the lower one.
LEMMA FirstBit ==
    ASSUME NEW s \in Seq(Cell(2)), s # <<>>
    PROVE  Head(s) = 1 <=> 2 * NumberOfCells(2, s) >= Power(2, Len(s))
  <1>. DEFINE w == Len(s)
  <1>1. /\ w \in Nat /\ w >= 1 /\ s[1] = Head(s)
        /\ \A k \in 1 .. w : s[k] \in Cell(2)
    BY LenProperties, ElementOfSeq, EmptySeq, HeadTailProperties
  <1>2. PICK u : IsNumbers(u, 2, s)
    BY NumbersRun
  <1>3. PICK p : IsPowers(p, 2, w)
    BY <1>1, PowersRun
  <1>4. /\ u \in [0 .. w -> Nat] /\ u[0] = 0
        /\ \A k \in 1 .. w : u[k] = 2 * u[k - 1] + s[k]
        /\ NumberOfCells(2, s) = u[w]
    BY <1>2 DEF IsNumbers
  <1>5. /\ p \in [0 .. w -> Nat] /\ p[0] = 1
        /\ \A k \in 1 .. w : p[k] = 2 * p[k - 1]
        /\ Power(2, w) = p[w]
    BY <1>3 DEF IsPowers
  <1>. HIDE DEF w
  <1>6. \A k \in 1 .. w : s[k] = 0 \/ s[k] = 1
    BY <1>1 DEF Cell
  <1>. DEFINE Half(k) == /\ s[1] = 1 => 2 * u[k] >= p[k]
                         /\ s[1] = 0 => 2 * u[k] + 2 <= p[k]
              T == {k \in 0 .. w - 1 : Half(k + 1)}
  <1>7. 0 \in T
    <2>1. 1 \in 1 .. w /\ 0 \in 0 .. w - 1 /\ 1 - 1 = 0 /\ 0 + 1 = 1
      BY <1>1
    <2>2. u[1] = s[1] /\ p[1] = 2
      <3>1. u[1] = 2 * 0 + s[1] /\ p[1] = 2 * 1
        BY <1>4, <1>5, <2>1
      <3>2. s[1] = 0 \/ s[1] = 1
        BY <1>6, <2>1
      <3>. QED
        BY <3>1, <3>2
    <2>3. Half(1)
      BY <2>2
    <2>. QED
      BY <2>1, <2>3
  <1>8. \A k \in 0 .. (w - 1) - 1 : k \in T => k + 1 \in T
    <2>. SUFFICES ASSUME NEW k \in 0 .. (w - 1) - 1, Half(k + 1)
                  PROVE  k + 1 \in T
      OBVIOUS
    <2>1. /\ k + 2 \in 1 .. w /\ (k + 2) - 1 = k + 1 /\ k + 1 \in 0 .. w - 1
          /\ k + 1 \in 0 .. w /\ (k + 1) + 1 = k + 2
      BY <1>1
    <2>2. u[k + 2] = 2 * u[k + 1] + s[k + 2] /\ p[k + 2] = 2 * p[k + 1]
      BY <1>4, <1>5, <2>1
    <2>3. u[k + 1] \in Nat /\ p[k + 1] \in Nat
      BY <1>4, <1>5, <2>1
    <2>4. s[k + 2] = 0 \/ s[k + 2] = 1
      BY <1>6, <2>1
    <2>5. s[1] = 1 => 2 * u[k + 2] >= p[k + 2]
      <3>1. s[1] = 1 => 2 * u[k + 1] >= p[k + 1]
        OBVIOUS
      <3>2. 2 * u[k + 1] >= p[k + 1] => 2 * u[k + 2] >= p[k + 2]
        BY <2>2, <2>3, <2>4, HalfKept
      <3>. QED
        BY <3>1, <3>2
    <2>6. s[1] = 0 => 2 * u[k + 2] + 2 <= p[k + 2]
      <3>1. s[1] = 0 => 2 * u[k + 1] + 2 <= p[k + 1]
        OBVIOUS
      <3>2. 2 * u[k + 1] + 2 <= p[k + 1] => 2 * u[k + 2] + 2 <= p[k + 2]
        BY <2>2, <2>3, <2>4, HalfKept
      <3>. QED
        BY <3>1, <3>2
    <2>7. Half(k + 2)
      BY <2>5, <2>6
    <2>. QED
      BY <2>1, <2>7
  <1>. HIDE DEF T
  <1>9. w - 1 \in T
    <2>1. w - 1 \in Nat /\ w - 1 \in 0 .. w - 1
      BY <1>1
    <2>. HIDE DEF Half
    <2>2. \A k \in 0 .. w - 1 : k \in T
      BY <1>7, <1>8, <2>1, ByInductionUpTo
    <2>. QED
      BY <2>1, <2>2
  <1>10. Half(w)
    <2>1. (w - 1) + 1 = w
      BY <1>1
    <2>. QED
      BY <1>9, <2>1 DEF T
  <1>11. u[w] \in Nat /\ p[w] \in Nat /\ (s[1] = 0 \/ s[1] = 1)
    <2>1. w \in 0 .. w /\ 1 \in 1 .. w
      BY <1>1
    <2>. QED
      BY <1>4, <1>5, <1>6, <2>1
  <1>12. s[1] = 1 <=> 2 * u[w] >= p[w]
    BY <1>10, <1>11
  <1>. QED
    BY <1>1, <1>4, <1>5, <1>12 DEF w

\* BitIntegerAdapter: the bits that int_to_bin makes of an integer in range are
\* read as that integer.
THEOREM BitsOfInteger ==
    ASSUME NEW n \in Int, NEW w \in Nat \ {0}, NEW signed \in BOOLEAN,
           InRange(2, n, w, signed)
    PROVE  /\ int_to_bin(n, w) \in Seq(Cell(2)) /\ Len(int_to_bin(n, w)) = w
           /\ bin_to_int(int_to_bin(n, w), signed) = n
  <1>. DEFINE P == Power(2, w)
              c == Complement(2, n, w)
              s == int_to_bin(n, w)
  <1>1. P \in Nat \ {0}
    BY NumberCut
  <1>2. c \in Nat /\ c % P = c /\ (n < 0 <=> signed /\ 2 * c >= P)
    BY <1>1, ComplementFits
  <1>3. c = IF n < 0 THEN n + P ELSE n
    BY DEF Complement
  <1>. HIDE DEF c
  <1>4. s \in Seq(Cell(2)) /\ Len(s) = w /\ NumberOfCells(2, s) = c
    <2>1. /\ CellsOfNumber(2, w, c) \in Seq(Cell(2)) /\ Len(CellsOfNumber(2, w, c)) = w
          /\ NumberOfCells(2, CellsOfNumber(2, w, c)) = c % Power(2, w)
      BY <1>2, NumberCut
    <2>. QED
      BY <1>2, <2>1 DEF int_to_bin, c
  <1>. HIDE DEF P, s
  <1>5. s # <<>>
    BY <1>4, EmptySeq
  <1>6. Head(s) = 1 <=> 2 * c >= P
    BY <1>4, <1>5, FirstBit DEF P
  <1>7. bin_to_int(s, signed) = IF signed /\ 2 * c >= P THEN c - P ELSE c
    BY <1>4, <1>6 DEF bin_to_int, P
  <1>8. bin_to_int(s, signed) = n
    BY <1>1, <1>2, <1>3, <1>7
  <1>. QED
    BY <1>4, <1>8 DEF s

\* BitIntegerAdapter: every string of bits is read as an integer in range, and
\* int_to_bin makes the same bits of it.
THEOREM IntegerOfBits ==
    ASSUME NEW s \in Seq(Cell(2)), s # <<>>, NEW signed \in BOOLEAN
    PROVE  /\ InRange(2, bin_to_int(s, signed), Len(s), signed)
           /\ int_to_bin(bin_to_int(s, signed), Len(s)) = s
  <1>. DEFINE u == NumberOfCells(2, s)
              n == bin_to_int(s, signed)
  <1>1. u \in Nat /\ u < Power(2, Len(s)) /\ CellsOfNumber(2, Len(s), u) = s
    BY CellsAgain
  <1>2. Len(s) \in Nat /\ Power(2, Len(s)) \in Nat
    BY LenProperties, Powers
  <1>3. Head(s) = 1 <=> 2 * u >= Power(2, Len(s))
    BY FirstBit
  <1>. HIDE DEF u
  <1>4. n = IF signed /\ 2 * u >= Power(2, Len(s)) THEN u - Power(2, Len(s)) ELSE u
    BY <1>3 DEF bin_to_int, u
  <1>. HIDE DEF n
  <1>5. n \in Int
    BY <1>1, <1>2, <1>4
  <1>6. InRange(2, n, Len(s), signed) /\ Complement(2, n, Len(s)) = u
    BY <1>1, <1>2, <1>4, <1>5, ComplementOf
  <1>. QED
    BY <1>1, <1>6 DEF int_to_bin, n

\* int_to_bin: what is too wide is trimmed, as its comment says; every integer,
\* in range or not, is read back cut to the width.
THEOREM TooWideIsTrimmed ==
    ASSUME NEW n \in Int, NEW w \in Nat
    PROVE  bin_to_int(int_to_bin(n, w), FALSE) = n % Power(2, w)
  <1>. DEFINE P == Power(2, w)
              c == Complement(2, n, w)
  <1>1. P \in Nat \ {0}
    BY NumberCut
  <1>2. c = IF n < 0 THEN n + P ELSE n
    BY DEF Complement
  <1>. HIDE DEF P, c
  <1>3. c \in Int
    BY <1>1, <1>2
  <1>4. NumberOfCells(2, CellsOfNumber(2, w, c)) = c % P
    BY <1>3, NumberCut DEF P
  <1>5. c % P = n % P
    <2>1. /\ n \div P \in Int /\ n % P \in Cell(P)
          /\ n = P * (n \div P) + (n % P)
      BY <1>1, Quotient
    <2>2. (n \div P) + 1 \in Int /\ n + P = P * ((n \div P) + 1) + (n % P)
      BY <1>1, <2>1, SMT DEF Cell
    <2>3. (P * ((n \div P) + 1) + (n % P)) % P = n % P
      BY <1>1, <2>1, <2>2, QuotientOf
    <2>4. (n + P) % P = n % P
      BY <2>2, <2>3
    <2>. QED
      BY <1>2, <2>4
  <1>. QED
    BY <1>4, <1>5 DEF int_to_bin, bin_to_int, P, c
=============================================================================
