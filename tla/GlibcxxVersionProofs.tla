------------------------ MODULE GlibcxxVersionProofs ------------------------
(***************************************************************************)
(* What holds of the packed version for every name: its type, its range,   *)
(* that the two halves really are a 32-bit accumulator, and that comparing *)
(* packed versions compares the versions field by field.  Then what the    *)
(* loop reads of a name: each field modulo 2^32, and clamped only then, and *)
(* that both readers agree.                                                *)
(***************************************************************************)
EXTENDS GlibcxxVersion, InductionFacts, SequenceTheorems

Byte == 0 .. 255

\* The number two halves stand for.
Number(x) == x.hi * 65536 + x.lo

LEMMA HalfValue == Half \in Nat /\ Half = 65536
  BY SMT DEF Half

LEMMA HalfNat == Half \in Nat
  BY HalfValue, SMT

LEMMA WordRange ==
    ASSUME NEW w \in Word
    PROVE  w \in Nat /\ w <= 65535
  <1>1. ASSUME NEW n \in Nat, w \in 0 .. n - 1
        PROVE  w \in Nat /\ w <= n - 1
    BY <1>1, SMT
  <1>2. w \in 0 .. Half - 1
    BY Zenon DEF Word
  <1>3. w \in Nat /\ w <= Half - 1
    BY <1>1, <1>2, HalfNat, Zenon
  <1>. QED
    BY <1>3, HalfValue, SMT

LEMMA InWord ==
    ASSUME NEW w \in Nat, w <= 65535
    PROVE  w \in Word
  <1>1. w <= Half - 1
    BY HalfValue, SMT
  <1>2. ASSUME NEW n \in Nat, w <= n - 1
        PROVE  w \in 0 .. n - 1
    BY <1>2, SMT
  <1>. QED
    BY <1>1, <1>2, HalfNat, SMT DEF Word

LEMMA InByte ==
    ASSUME NEW w \in Nat, w <= 255
    PROVE  w \in Byte
  BY SMT DEF Byte

\* Multiplying two halves by ten, with the carry between them.
LEMMA Carry ==
    ASSUME NEW h \in Nat, NEW l \in Nat, NEW d \in Nat,
           h <= 65535, l <= 65535, d <= 9
    PROVE  LET low == l * 10 + d
               hi  == h * 10 + (low \div 65536)
           IN  /\ (hi % 65536) \in Nat /\ hi % 65536 <= 65535
               /\ (low % 65536) \in Nat /\ low % 65536 <= 65535
               /\ (hi % 65536) * 65536 + (low % 65536)
                    = ((h * 65536 + l) * 10 + d) % 4294967296
  <1>. DEFINE low == l * 10 + d
              hi  == h * 10 + (low \div 65536)
  <1>1. /\ low \in Nat /\ (low \div 65536) \in Nat
        /\ (low % 65536) \in Nat /\ low % 65536 <= 65535
        /\ low = (low \div 65536) * 65536 + (low % 65536)
    BY SMT
  <1>2. hi \in Nat
    BY <1>1, SMT
  <1>3. (h * 65536 + l) * 10 + d = (hi * 65536) + (low % 65536)
    BY <1>1, SMT
  <1>. HIDE DEF low, hi
  <1>4. /\ (hi \div 65536) \in Nat
        /\ (hi % 65536) \in Nat /\ hi % 65536 <= 65535
        /\ hi = (hi \div 65536) * 65536 + (hi % 65536)
    BY <1>2, SMT
  <1>5. ASSUME NEW q \in Nat, NEW n \in Nat, n < 4294967296
        PROVE  (q * 4294967296 + n) % 4294967296 = n
    BY <1>5, SMT
  <1>6. ASSUME NEW q \in Nat, NEW a \in Nat, NEW b \in Nat, a <= 65535, b <= 65535
        PROVE  ((q * 65536 + a) * 65536 + b) % 4294967296 = a * 65536 + b
    <2>1. a * 65536 + b \in Nat /\ a * 65536 + b < 4294967296
      BY <1>6, SMT
    <2>2. (q * 65536 + a) * 65536 + b = q * 4294967296 + (a * 65536 + b)
      BY SMT
    <2>. QED
      BY <2>1, <2>2, <1>5, SMT
  <1>7. ((hi * 65536) + (low % 65536)) % 4294967296 = (hi % 65536) * 65536 + (low % 65536)
    <2>. DEFINE q == hi \div 65536
                a == hi % 65536
                b == low % 65536
    <2>1. q \in Nat /\ a \in Nat /\ b \in Nat /\ a <= 65535 /\ b <= 65535
      BY <1>1, <1>4, SMT
    <2>2. hi = q * 65536 + a
      BY <1>4, SMT
    <2>. HIDE DEF q, a, b
    <2>3. ((q * 65536 + a) * 65536 + b) % 4294967296 = a * 65536 + b
      BY <1>6, <2>1, SMT
    <2>4. (hi * 65536 + b) % 4294967296 = a * 65536 + b
      BY <2>2, <2>3, SMT
    <2>. QED
      BY <2>4, SMT DEF a, b
  <1>. QED
    BY <1>1, <1>3, <1>4, <1>7, SMT DEF low, hi

\* One digit more is x * 10 + d in 32-bit arithmetic, as in the C statement
\* major_minor_revision[v] = major_minor_revision[v] * 10 + digit.
THEOREM ShiftedIsModular ==
    ASSUME NEW x \in UInt32, NEW d \in Digits
    PROVE  /\ Shifted(x, d) \in UInt32
           /\ Number(Shifted(x, d)) = (Number(x) * 10 + d) % 4294967296
  <1>1. PICK h \in Word, l \in Word : x.hi = h /\ x.lo = l
    BY SMT DEF UInt32
  <1>2. /\ h \in Nat /\ h <= 65535
        /\ l \in Nat /\ l <= 65535
    BY WordRange, SMT
  <1>3. d \in Nat /\ d <= 9
    BY SMT DEF Digits
  <1>. DEFINE low == l * 10 + d
              hi  == h * 10 + (low \div 65536)
  <1>4. /\ (hi % 65536) \in Nat /\ hi % 65536 <= 65535
        /\ (low % 65536) \in Nat /\ low % 65536 <= 65535
        /\ (hi % 65536) * 65536 + (low % 65536)
              = ((h * 65536 + l) * 10 + d) % 4294967296
    BY <1>2, <1>3, Carry, SMT
  <1>5. Shifted(x, d) = [hi |-> hi % 65536, lo |-> low % 65536]
    BY <1>1, HalfValue, SMT DEF Shifted
  <1>. HIDE DEF low, hi
  <1>6. (hi % 65536) \in Word /\ (low % 65536) \in Word
    BY <1>4, InWord, SMT
  <1>7. Shifted(x, d) \in UInt32
    BY <1>5, <1>6, SMT DEF UInt32
  <1>. QED
    BY <1>1, <1>4, <1>5, <1>7, SMT DEF Number

\* uint_min with 255 leaves a byte.
LEMMA ClampedIsByte ==
    ASSUME NEW x \in UInt32
    PROVE  Clamped(x) \in Byte
  <1>1. PICK h \in Word, l \in Word : x.hi = h /\ x.lo = l
    BY SMT DEF UInt32
  <1>2. h \in Nat /\ l \in Nat
    BY WordRange, SMT
  <1>3. Clamped(x) = IF h > 0 \/ l > 255 THEN 255 ELSE l
    BY <1>1, SMT DEF Clamped
  <1>4. Clamped(x) \in Nat /\ Clamped(x) <= 255
    BY <1>2, <1>3, SMT
  <1>. QED
    BY <1>4, InByte, SMT

LEMMA PackedRange ==
    ASSUME NEW a \in Byte, NEW b \in Byte, NEW c \in Byte
    PROVE  Packed(a, b, c) \in Nat /\ Packed(a, b, c) < 16777216
  BY SMT DEF Packed, Byte

\* The comparisons of audit.c on packed versions are comparisons of versions:
\* the order of the integers is the lexicographic order of the fields, the one
\* the tuples of the Python hook have.
THEOREM PackedOrder ==
    ASSUME NEW a \in Byte, NEW b \in Byte, NEW c \in Byte,
           NEW x \in Byte, NEW y \in Byte, NEW z \in Byte
    PROVE  Packed(a, b, c) > Packed(x, y, z) <=> Above(<<a, b, c>>, <<x, y, z>>)
  BY SMT DEF Packed, Above, Byte

-----------------------------------------------------------------------------
IInv == TypeOK /\ FitsIn24Bits

LEMMA VersionRange ==
    ASSUME TypeOK
    PROVE  version \in Nat /\ version < 16777216
  <1>1. fields[0] \in UInt32 /\ fields[1] \in UInt32 /\ fields[2] \in UInt32
    BY SMT DEF TypeOK
  <1>. QED
    BY <1>1, ClampedIsByte, PackedRange, SMT DEF version

LEMMA ZeroType == Zero \in UInt32
  <1>1. 0 \in Word
    BY InWord, SMT
  <1>. QED
    BY <1>1, SMT DEF Zero, UInt32

LEMMA InvInit == Init => IInv
  <1>1. Zero \in UInt32
    BY ZeroType, SMT
  <1>. QED
    BY <1>1, SMT DEF Init, IInv, TypeOK, FitsIn24Bits

LEMMA InvNext ==
    ASSUME IInv, [Next]_vars
    PROVE  IInv'
  <1>. USE DEF IInv
  <1>1. CASE NextName
    <2>1. Zero \in UInt32
      BY ZeroType, SMT
    <2>2. PICK n \in Names : seen' = Append(seen, n)
      BY <1>1, SMT DEF NextName
    <2>3. seen' \in Seq(Names)
      BY <2>2, SMT DEF TypeOK
    <2>. QED
      BY <1>1, <2>1, <2>3, SMT DEF NextName, TypeOK, FitsIn24Bits
  <1>2. CASE ReadDot
    BY <1>2, SMT DEF ReadDot, TypeOK, FitsIn24Bits
  <1>3. CASE ReadDigit
    <2>1. fields[v] \in UInt32 /\ str[i] \in Digits
      BY <1>3, SMT DEF ReadDigit, TypeOK
    <2>2. Shifted(fields[v], str[i]) \in UInt32
      BY <2>1, ShiftedIsModular, SMT
    <2>3. fields' \in [0 .. 2 -> UInt32]
      BY <1>3, <2>2, SMT DEF ReadDigit, TypeOK
    <2>. QED
      BY <1>3, <2>3, SMT DEF ReadDigit, TypeOK, FitsIn24Bits
  <1>4. CASE Finish
    <2>1. version \in Nat /\ version < 16777216
      BY VersionRange, SMT
    <2>2. glibcxx_version' \in {version, glibcxx_version}
      <3>1. CASE ~found
        BY <1>4, <3>1, SMT DEF Finish
      <3>2. CASE found
        BY <1>4, <3>2, SMT DEF Finish, uint_max
      <3>. QED
        BY <3>1, <3>2, SMT
    <2>3. glibcxx_version' \in Nat /\ glibcxx_version' < 16777216
      BY <2>1, <2>2, SMT DEF TypeOK, FitsIn24Bits
    <2>. QED
      <3>1. TypeOK'
        <4>1. /\ UNCHANGED <<str, i, v, fields, seen>>
              /\ busy' = FALSE /\ found' = TRUE
          BY <1>4, Zenon DEF Finish
        <4>2. glibcxx_version' \in Nat
          BY <2>3, SMT
        <4>. QED
          BY <4>1, <4>2, Zenon DEF TypeOK
      <3>2. FitsIn24Bits'
        BY <2>3, SMT DEF FitsIn24Bits
      <3>. QED
        BY <3>1, <3>2, SMT
  <1>5. CASE UNCHANGED vars
    BY <1>5, SMT DEF vars, TypeOK, FitsIn24Bits
  <1>. QED
    BY <1>1, <1>2, <1>3, <1>4, <1>5, SMT DEF Next

\* The parse loop never leaves major_minor_revision, and its accumulators stay
\* 32-bit words, on every name.
THEOREM TypeCorrect == Spec => []TypeOK
  <1>1. IInv => TypeOK
    BY SMT DEF IInv
  <1>. QED
    BY <1>1, InvInit, InvNext, PTL DEF Spec

\* No file has the version 0xDEADBEEF, by which la_objsearch takes the audit
\* library for disarmed.
THEOREM PackedBelowInvalid == Spec => []FitsIn24Bits
  <1>1. IInv => FitsIn24Bits
    BY SMT DEF IInv
  <1>. QED
    BY <1>1, InvInit, InvNext, PTL DEF Spec

-----------------------------------------------------------------------------
(***************************************************************************)
(* The value of a run of digits: exact, and as DecimalValue cuts it off.   *)
(***************************************************************************)
Exact(ds) ==
    LET val[k \in 0 .. Len(ds)] ==
          IF k = 0 THEN 0 ELSE val[k - 1] * 10 + ds[k]
    IN  val

\* A function on 0 .. Len(ds) that starts at 0 and takes the digits one by one.
LEMMA ExactRuns ==
    ASSUME NEW ds \in Seq(Digits)
    PROVE  /\ Exact(ds) \in [0 .. Len(ds) -> Nat]
           /\ Exact(ds)[0] = 0
           /\ \A k \in 1 .. Len(ds) : Exact(ds)[k] = Exact(ds)[k - 1] * 10 + ds[k]
  <1>. DEFINE pass == [x \in (1 .. Len(ds)) \X Nat |-> x[2] * 10 + ds[x[1]]]
              val  == CHOOSE f : f = [k \in 0 .. Len(ds) |->
                                        IF k = 0 THEN 0 ELSE f[k - 1] * 10 + ds[k]]
  <1>1. Len(ds) \in Nat /\ \A k \in 1 .. Len(ds) : ds[k] \in Nat
    BY LenProperties, ElementOfSeq DEF Digits
  <1>2. pass \in [(1 .. Len(ds)) \X Nat -> Nat]
    BY <1>1
  <1>. HIDE DEF pass
  <1>3. PICK run \in [0 .. Len(ds) -> Nat] :
           /\ run[0] = 0
           /\ \A k \in 1 .. Len(ds) : run[k] = pass[<<k, run[k - 1]>>]
    <2>. HIDE DEF val
    <2>1. pass \in Passes(Len(ds), Nat)
      BY <1>2 DEF Passes
    <2>2. \E run : IsLoop(run, Len(ds), Nat, 0, pass)
      BY <1>1, <2>1, LoopRuns
    <2>. QED
      BY <2>2 DEF IsLoop
  <1>4. run = [k \in 0 .. Len(ds) |-> IF k = 0 THEN 0 ELSE run[k - 1] * 10 + ds[k]]
    <2>. HIDE DEF val
    <2>1. \A k \in 1 .. Len(ds) : k - 1 \in 0 .. Len(ds) /\ run[k - 1] \in Nat
      BY <1>1
    <2>2. \A k \in 1 .. Len(ds) : run[k] = run[k - 1] * 10 + ds[k]
      BY <1>3, <2>1 DEF pass
    <2>3. run = [k \in 0 .. Len(ds) |-> run[k]]
      OBVIOUS
    <2>4. \A k \in 0 .. Len(ds) : k = 0 \/ k \in 1 .. Len(ds)
      BY <1>1
    <2>5. \A k \in 0 .. Len(ds) : run[k] = IF k = 0 THEN 0 ELSE run[k - 1] * 10 + ds[k]
      BY <1>3, <2>2, <2>4
    <2>. QED
      BY <2>3, <2>5
  <1>5. val = [k \in 0 .. Len(ds) |-> IF k = 0 THEN 0 ELSE val[k - 1] * 10 + ds[k]]
    BY <1>4
  <1>6. Exact(ds) = val
    BY DEF Exact
  <1>. HIDE DEF val
  <1>7. DOMAIN val = 0 .. Len(ds) /\ val[0] = 0
    BY <1>1, <1>5
  <1>8. \A k \in 1 .. Len(ds) : val[k] = val[k - 1] * 10 + ds[k]
    <2>. TAKE k \in 1 .. Len(ds)
    <2>1. k \in 0 .. Len(ds) /\ k # 0
      BY <1>1
    <2>. QED
      BY <1>5, <2>1
  <1>. DEFINE T == {k \in Nat : val[k] \in Nat}
  <1>9. 0 \in T
    BY <1>7
  <1>10. \A k \in 0 .. Len(ds) - 1 : k \in T => k + 1 \in T
    <2>. SUFFICES ASSUME NEW k \in 0 .. Len(ds) - 1, val[k] \in Nat
                  PROVE  val[k + 1] \in Nat
      OBVIOUS
    <2>1. k + 1 \in 1 .. Len(ds) /\ (k + 1) - 1 = k
      BY <1>1
    <2>2. val[k + 1] = val[k] * 10 + ds[k + 1] /\ ds[k + 1] \in Nat
      BY <1>1, <1>8, <2>1
    <2>. QED
      BY <2>2
  <1>. HIDE DEF T
  <1>11. \A k \in 0 .. Len(ds) : k \in T
    BY <1>1, <1>9, <1>10, ByInductionUpTo
  <1>12. \A k \in 0 .. Len(ds) : val[k] \in Nat
    BY <1>11 DEF T
  <1>13. val = [k \in 0 .. Len(ds) |-> val[k]]
    BY <1>5, <1>7
  <1>. QED
    BY <1>6, <1>7, <1>8, <1>12, <1>13

\* Up to Enough, the value the model computes is exact.
LEMMA DecimalIsExact ==
    ASSUME NEW ds \in Seq(Digits)
    PROVE  LET exact == Exact(ds)[Len(ds)]
               value == DecimalValue(ds)
           IN  /\ exact \in Nat /\ value \in Nat
               /\ value <= Enough => exact = value
               /\ value > Enough => exact > Enough
  <1>. DEFINE step(value, d) == IF value > Enough THEN value ELSE value * 10 + d
              pass == [x \in (1 .. Len(ds)) \X Nat |-> step(x[2], ds[x[1]])]
              val  == CHOOSE f : f = [k \in 0 .. Len(ds) |->
                                        IF k = 0 THEN 0
                                        ELSE IF f[k - 1] > Enough THEN f[k - 1]
                                        ELSE f[k - 1] * 10 + ds[k]]
  <1>1. Len(ds) \in Nat /\ \A k \in 1 .. Len(ds) : ds[k] \in Nat
    BY LenProperties, ElementOfSeq DEF Digits
  <1>2. pass \in [(1 .. Len(ds)) \X Nat -> Nat]
    BY <1>1
  <1>. HIDE DEF pass
  <1>3. PICK run \in [0 .. Len(ds) -> Nat] :
           /\ run[0] = 0
           /\ \A k \in 1 .. Len(ds) : run[k] = pass[<<k, run[k - 1]>>]
    <2>. HIDE DEF val, step
    <2>1. pass \in Passes(Len(ds), Nat)
      BY <1>2 DEF Passes
    <2>2. \E run : IsLoop(run, Len(ds), Nat, 0, pass)
      BY <1>1, <2>1, LoopRuns
    <2>. QED
      BY <2>2 DEF IsLoop
  <1>4. run = [k \in 0 .. Len(ds) |->
                 IF k = 0 THEN 0
                 ELSE IF run[k - 1] > Enough THEN run[k - 1]
                 ELSE run[k - 1] * 10 + ds[k]]
    <2>. HIDE DEF val
    <2>1. \A k \in 1 .. Len(ds) : k - 1 \in 0 .. Len(ds) /\ run[k - 1] \in Nat
      BY <1>1
    <2>2. \A k \in 1 .. Len(ds) : run[k] = step(run[k - 1], ds[k])
      BY <1>3, <2>1 DEF pass
    <2>3. run = [k \in 0 .. Len(ds) |-> run[k]]
      OBVIOUS
    <2>4. \A k \in 0 .. Len(ds) : k = 0 \/ k \in 1 .. Len(ds)
      BY <1>1
    <2>5. \A k \in 0 .. Len(ds) :
             run[k] = IF k = 0 THEN 0
                      ELSE IF run[k - 1] > Enough THEN run[k - 1]
                      ELSE run[k - 1] * 10 + ds[k]
      BY <1>3, <2>2, <2>4
    <2>. QED
      BY <2>3, <2>5
  <1>5. val = [k \in 0 .. Len(ds) |->
                 IF k = 0 THEN 0
                 ELSE IF val[k - 1] > Enough THEN val[k - 1]
                 ELSE val[k - 1] * 10 + ds[k]]
    BY <1>4
  <1>6. DecimalValue(ds) = val[Len(ds)]
    BY DEF DecimalValue
  <1>. HIDE DEF val
  <1>7. val[0] = 0
    BY <1>1, <1>5
  <1>8. \A k \in 1 .. Len(ds) : val[k] = step(val[k - 1], ds[k])
    <2>. TAKE k \in 1 .. Len(ds)
    <2>1. k \in 0 .. Len(ds) /\ k # 0
      BY <1>1
    <2>. QED
      BY <1>5, <2>1
  <1>. DEFINE agree(k) == /\ val[k] \in Nat
                          /\ val[k] <= Enough => Exact(ds)[k] = val[k]
                          /\ val[k] > Enough => Exact(ds)[k] > Enough
              T == {k \in Nat : agree(k)}
  <1>9. /\ \A k \in 0 .. Len(ds) : Exact(ds)[k] \in Nat
        /\ Exact(ds)[0] = 0
        /\ \A k \in 1 .. Len(ds) : Exact(ds)[k] = Exact(ds)[k - 1] * 10 + ds[k]
    BY ExactRuns
  <1>10. Enough \in Nat
    BY DEF Enough
  <1>11. 0 \in T
    BY <1>7, <1>9, <1>10
  <1>12. \A k \in 0 .. Len(ds) - 1 : k \in T => k + 1 \in T
    <2>. SUFFICES ASSUME NEW k \in 0 .. Len(ds) - 1, agree(k)
                  PROVE  agree(k + 1)
      OBVIOUS
    <2>1. k + 1 \in 1 .. Len(ds) /\ (k + 1) - 1 = k /\ k \in 0 .. Len(ds)
      BY <1>1
    <2>2. val[k + 1] = step(val[k], ds[k + 1])
      BY <1>8, <2>1
    <2>3. /\ Exact(ds)[k + 1] = Exact(ds)[k] * 10 + ds[k + 1]
          /\ Exact(ds)[k] \in Nat /\ ds[k + 1] \in Nat
      BY <1>1, <1>9, <2>1
    <2>4. CASE val[k] > Enough
      BY <1>10, <2>2, <2>3, <2>4
    <2>5. CASE ~(val[k] > Enough)
      BY <1>10, <2>2, <2>3, <2>5
    <2>. QED
      BY <2>4, <2>5
  <1>. HIDE DEF T
  <1>13. \A k \in 0 .. Len(ds) : k \in T
    BY <1>1, <1>11, <1>12, ByInductionUpTo
  <1>14. agree(Len(ds))
    BY <1>1, <1>13 DEF T
  <1>. QED
    BY <1>1, <1>6, <1>9, <1>14

-----------------------------------------------------------------------------
(***************************************************************************)
(* The characters of a name: where its parts and dots stand.               *)
(***************************************************************************)
\* How many characters stand before the k-th part.
Start(n, k) ==
    IF k = 1 THEN 0
    ELSE IF k = 2 THEN Len(n.parts[1]) + 1
    ELSE Len(n.parts[1]) + 1 + Len(n.parts[2]) + 1

LEMMA NameParts ==
    ASSUME NEW n \in Names, WellFormed(n)
    PROVE  /\ Len(n.parts) \in {1, 2, 3}
           /\ \A k \in 1 .. Len(n.parts) : n.parts[k] \in Seq(Digits)
           /\ ~n.junk
  <1>1. n \in Name /\ n.parts # <<>>
    BY NamesAssumption
  <1>2. n.parts \in Seq(Seq(Digits))
    BY <1>1 DEF Name
  <1>3. Len(n.parts) \in Nat /\ Len(n.parts) # 0
    BY <1>1, <1>2, EmptySeq, LenProperties
  <1>4. Len(n.parts) <= 3 /\ ~n.junk
    BY DEF WellFormed
  <1>5. Len(n.parts) \in {1, 2, 3}
    <2>1. \A L \in Nat : L # 0 /\ L <= 3 => L \in {1, 2, 3}
      OBVIOUS
    <2>. QED
      BY <1>3, <1>4, <2>1
  <1>6. \A k \in 1 .. Len(n.parts) : n.parts[k] \in Seq(Digits)
    BY <1>2, ElementOfSeq
  <1>. QED
    BY <1>4, <1>5, <1>6

Joined(p) ==
    LET text[k \in 1 .. Len(p)] ==
          IF k = 1 THEN p[1] ELSE text[k - 1] \o <<Dot>> \o p[k]
    IN  text

\* Up to three parts joined by dots, written out.
LEMMA JoinedParts ==
    ASSUME NEW p, Len(p) \in {1, 2, 3}
    PROVE  Joined(p)[Len(p)]
             = IF Len(p) = 1 THEN p[1]
               ELSE IF Len(p) = 2 THEN p[1] \o <<Dot>> \o p[2]
               ELSE p[1] \o <<Dot>> \o p[2] \o <<Dot>> \o p[3]
  <1>. DEFINE L    == Len(p)
              one  == p[1]
              two  == one \o <<Dot>> \o p[2]
              more == two \o <<Dot>> \o p[3]
              run  == [k \in 1 .. L |->
                         IF k = 1 THEN one ELSE IF k = 2 THEN two ELSE more]
  <1>1. /\ L \in Nat
        /\ \A k \in 1 .. L : k = 1 \/ (k = 2 /\ 1 \in 1 .. L) \/ (k = 3 /\ 1 \in 1 .. L /\ 2 \in 1 .. L)
    <2>1. L = 1 \/ L = 2 \/ L = 3
      OBVIOUS
    <2>. HIDE DEF L
    <2>. QED
      BY <2>1
  <1>2. /\ 1 \in 1 .. L => run[1] = one
        /\ 2 \in 1 .. L => run[2] = two
        /\ 3 \in 1 .. L => run[3] = more
    <2>. HIDE DEF L, one, two, more
    <2>. QED
      OBVIOUS
  <1>3. run = [k \in 1 .. L |-> run[k]]
    <2>. HIDE DEF L, one, two, more
    <2>. QED
      OBVIOUS
  <1>. HIDE DEF run, L
  <1>4. \A k \in 1 .. L : run[k] = IF k = 1 THEN p[1] ELSE run[k - 1] \o <<Dot>> \o p[k]
    <2>. SUFFICES ASSUME NEW k \in 1 .. L
                  PROVE  run[k] = IF k = 1 THEN p[1] ELSE run[k - 1] \o <<Dot>> \o p[k]
      OBVIOUS
    <2>1. CASE k = 1
      BY <1>2, <2>1
    <2>2. CASE k = 2 /\ 1 \in 1 .. L
      <3>1. k - 1 = 1
        BY <2>2
      <3>. QED
        BY <1>2, <2>2, <3>1
    <2>3. CASE k = 3 /\ 1 \in 1 .. L /\ 2 \in 1 .. L
      <3>1. k - 1 = 2
        BY <2>3
      <3>. HIDE DEF two
      <3>2. run[k - 1] = two
        BY <1>2, <2>3, <3>1
      <3>. QED
        BY <1>2, <2>3, <3>2
    <2>. QED
      BY <1>1, <2>1, <2>2, <2>3
  <1>5. \E f : f = [k \in 1 .. L |-> IF k = 1 THEN p[1] ELSE f[k - 1] \o <<Dot>> \o p[k]]
    <2>1. run = [k \in 1 .. L |-> IF k = 1 THEN p[1] ELSE run[k - 1] \o <<Dot>> \o p[k]]
      BY <1>3, <1>4
    <2>. QED
      BY <2>1
  <1>6. Joined(p) = [k \in 1 .. L |->
                       IF k = 1 THEN p[1] ELSE Joined(p)[k - 1] \o <<Dot>> \o p[k]]
    BY <1>5 DEF Joined, L
  <1>. DEFINE text == Joined(p)
  <1>. HIDE DEF text
  <1>7. \A k \in 1 .. L : text[k] = IF k = 1 THEN p[1] ELSE text[k - 1] \o <<Dot>> \o p[k]
    BY <1>6 DEF text
  <1>8. 1 \in 1 .. L => text[1] = one
    BY <1>7
  <1>9. 1 \in 1 .. L /\ 2 \in 1 .. L => text[2] = two
    <2>1. 2 - 1 = 1 /\ 2 # 1
      OBVIOUS
    <2>. HIDE DEF one
    <2>. QED
      BY <1>7, <1>8, <2>1
  <1>10. 1 \in 1 .. L /\ 2 \in 1 .. L /\ 3 \in 1 .. L => text[3] = more
    <2>1. 3 - 1 = 2 /\ 3 # 1
      OBVIOUS
    <2>. HIDE DEF two
    <2>. QED
      BY <1>7, <1>9, <2>1
  <1>11. L \in {1, 2, 3}
    BY DEF L
  <1>12. CASE L = 1
    BY <1>8, <1>12 DEF L, text
  <1>13. CASE L = 2
    BY <1>9, <1>13 DEF L, text
  <1>14. CASE L = 3
    BY <1>10, <1>14 DEF L, text
  <1>. QED
    BY <1>11, <1>12, <1>13, <1>14

\* One part more: what stands where.
LEMMA OnePartMore ==
    ASSUME NEW t \in Seq(Char), NEW q \in Seq(Char)
    PROVE  LET u == t \o <<Dot>> \o q IN
           /\ u \in Seq(Char)
           /\ Len(u) = Len(t) + 1 + Len(q)
           /\ \A j \in 1 .. Len(t) : u[j] = t[j]
           /\ u[Len(t) + 1] = Dot
           /\ \A j \in 1 .. Len(q) : u[Len(t) + 1 + j] = q[j]
  <1>. DEFINE dot == <<Dot>>
              td  == t \o dot
              u   == td \o q
  <1>1. dot \in Seq(Char) /\ Len(dot) = 1 /\ dot[1] = Dot
    BY DEF Char
  <1>2. Len(t) \in Nat /\ Len(q) \in Nat
    BY LenProperties
  <1>. HIDE DEF dot
  <1>3. /\ td \in Seq(Char) /\ Len(td) = Len(t) + 1
        /\ \A j \in 1 .. Len(t) + 1 : td[j] = IF j <= Len(t) THEN t[j] ELSE dot[j - Len(t)]
    <2>1. /\ td \in Seq(Char) /\ Len(td) = Len(t) + Len(dot)
          /\ \A j \in 1 .. Len(t) + Len(dot) :
                td[j] = IF j <= Len(t) THEN t[j] ELSE dot[j - Len(t)]
      BY <1>1, ConcatProperties
    <2>. QED
      BY <1>1, <2>1
  <1>. HIDE DEF td
  <1>4. /\ u \in Seq(Char) /\ Len(u) = Len(t) + 1 + Len(q)
        /\ \A j \in 1 .. Len(t) + 1 + Len(q) :
              u[j] = IF j <= Len(t) + 1 THEN td[j] ELSE q[j - (Len(t) + 1)]
    <2>1. /\ u \in Seq(Char) /\ Len(u) = Len(td) + Len(q)
          /\ \A j \in 1 .. Len(td) + Len(q) :
                u[j] = IF j <= Len(td) THEN td[j] ELSE q[j - Len(td)]
      <3>1. td \in Seq(Char)
        BY <1>3
      <3>. QED
        BY <3>1, ConcatProperties, Zenon
    <2>. QED
      BY <1>3, <2>1
  <1>. HIDE DEF u
  <1>5. ASSUME NEW j \in 1 .. Len(t)
        PROVE  u[j] = t[j]
    BY <1>2, <1>3, <1>4
  <1>6. u[Len(t) + 1] = Dot
    <2>1. /\ Len(t) + 1 \in 1 .. Len(t) + 1 /\ Len(t) + 1 \in 1 .. Len(t) + 1 + Len(q)
          /\ ~(Len(t) + 1 <= Len(t)) /\ (Len(t) + 1) - Len(t) = 1
      BY <1>2
    <2>2. u[Len(t) + 1] = td[Len(t) + 1]
      BY <1>2, <1>4, <2>1
    <2>. QED
      BY <1>1, <1>3, <2>1, <2>2
  <1>7. ASSUME NEW j \in 1 .. Len(q)
        PROVE  u[Len(t) + 1 + j] = q[j]
    <2>1. /\ Len(t) + 1 + j \in 1 .. Len(t) + 1 + Len(q)
          /\ ~(Len(t) + 1 + j <= Len(t) + 1)
          /\ (Len(t) + 1 + j) - (Len(t) + 1) = j
      BY <1>2
    <2>. QED
      BY <1>4, <2>1
  <1>. QED
    BY <1>4, <1>5, <1>6, <1>7 DEF u, td, dot

\* The text of a name the regular expression accepts: its length, its digits
\* and its dots, each at its place.
LEMMA TextOfParts ==
    ASSUME NEW n \in Names, WellFormed(n)
    PROVE  LET L == Len(n.parts) IN
           /\ Text(n) \in Seq(Char)
           /\ Len(Text(n)) = Start(n, L) + Len(n.parts[L])
           /\ \A k \in 1 .. L : /\ Start(n, k) \in Nat /\ Len(n.parts[k]) \in Nat
                              /\ \A j \in 1 .. Len(n.parts[k]) :
                                    Text(n)[Start(n, k) + j] = n.parts[k][j]
           /\ \A k \in 1 .. L - 1 :
                 /\ Start(n, k + 1) = Start(n, k) + Len(n.parts[k]) + 1
                 /\ Text(n)[Start(n, k) + Len(n.parts[k]) + 1] = Dot
  <1>. DEFINE p   == n.parts
              dot == <<Dot>>
  <1>1. /\ Len(p) \in {1, 2, 3} /\ ~n.junk
        /\ \A k \in 1 .. Len(p) : p[k] \in Seq(Digits)
    BY NameParts
  <1>2. Text(n) = Joined(p)[Len(p)] \o <<>>
    BY <1>1 DEF Text, Joined
  <1>3. /\ \A q \in Seq(Digits) : q \in Seq(Char)
        /\ dot \in Seq(Char) /\ Len(dot) = 1 /\ dot[1] = Dot
    BY DEF Char
  <1>. HIDE DEF dot
  <1>4. Joined(p)[Len(p)]
          = IF Len(p) = 1 THEN p[1]
            ELSE IF Len(p) = 2 THEN p[1] \o <<Dot>> \o p[2]
            ELSE p[1] \o <<Dot>> \o p[2] \o <<Dot>> \o p[3]
    <2>. HIDE DEF p
    <2>. QED
      BY <1>1, JoinedParts
  <1>. HIDE DEF p
  <1>5. CASE Len(p) = 1
    <2>. DEFINE a == p[1]
    <2>1. a \in Seq(Char) /\ Len(a) \in Nat
      BY <1>1, <1>3, <1>5, LenProperties
    <2>2. Text(n) = a
      BY <1>2, <1>5, <1>4, <2>1, ConcatEmptySeq
    <2>3. Start(n, 1) = 0
      BY DEF Start
    <2>. QED
      BY <1>5, <2>1, <2>2, <2>3 DEF p
  <1>6. CASE Len(p) = 2
    <2>. DEFINE a == p[1]
                b == p[2]
                t == a \o <<Dot>> \o b
    <2>1. /\ a \in Seq(Char) /\ Len(a) \in Nat
          /\ b \in Seq(Char) /\ Len(b) \in Nat
      BY <1>1, <1>3, <1>6, LenProperties
    <2>. HIDE DEF a, b
    <2>2. /\ t \in Seq(Char)
          /\ Len(t) = Len(a) + 1 + Len(b)
          /\ \A j \in 1 .. Len(a) : t[j] = a[j]
          /\ t[Len(a) + 1] = Dot
          /\ \A j \in 1 .. Len(b) : t[Len(a) + 1 + j] = b[j]
      BY <2>1, OnePartMore
    <2>3. Text(n) = t
      <3>1. Joined(p)[Len(p)] = t
        BY <1>1, <1>6, <1>4 DEF a, b
      <3>. HIDE DEF t
      <3>. QED
        BY <1>2, <2>2, <3>1, ConcatEmptySeq
    <2>4. Start(n, 1) = 0 /\ Start(n, 2) = Len(a) + 1
      BY DEF Start, a, p
    <2>. HIDE DEF t
    <2>5. /\ \A j \in 1 .. Len(a) : Text(n)[Start(n, 1) + j] = a[j]
          /\ \A j \in 1 .. Len(b) : Text(n)[Start(n, 2) + j] = b[j]
          /\ Text(n)[Start(n, 1) + Len(a) + 1] = Dot
          /\ Start(n, 2) = Start(n, 1) + Len(a) + 1
          /\ Len(Text(n)) = Start(n, 2) + Len(b)
          /\ Start(n, 1) \in Nat /\ Start(n, 2) \in Nat
      BY <2>1, <2>2, <2>3, <2>4
    <2>6. 1 .. Len(p) = {1, 2} /\ 1 .. Len(p) - 1 = {1}
      BY <1>6
    <2>. QED
      BY <1>6, <2>1, <2>2, <2>3, <2>5, <2>6 DEF a, b, p
  <1>7. CASE Len(p) = 3
    <2>. DEFINE a == p[1]
                b == p[2]
                c == p[3]
                t == a \o <<Dot>> \o b
                u == t \o <<Dot>> \o c
    <2>1. /\ a \in Seq(Char) /\ Len(a) \in Nat
          /\ b \in Seq(Char) /\ Len(b) \in Nat
          /\ c \in Seq(Char) /\ Len(c) \in Nat
      BY <1>1, <1>3, <1>7, LenProperties
    <2>. HIDE DEF a, b, c
    <2>2. /\ t \in Seq(Char)
          /\ Len(t) = Len(a) + 1 + Len(b)
          /\ \A j \in 1 .. Len(a) : t[j] = a[j]
          /\ t[Len(a) + 1] = Dot
          /\ \A j \in 1 .. Len(b) : t[Len(a) + 1 + j] = b[j]
      BY <2>1, OnePartMore
    <2>. HIDE DEF t
    <2>3. /\ u \in Seq(Char)
          /\ Len(u) = Len(t) + 1 + Len(c)
          /\ \A j \in 1 .. Len(t) : u[j] = t[j]
          /\ u[Len(t) + 1] = Dot
          /\ \A j \in 1 .. Len(c) : u[Len(t) + 1 + j] = c[j]
      BY <2>1, <2>2, OnePartMore
    <2>4. Text(n) = u
      <3>1. Joined(p)[Len(p)] = u
        BY <1>1, <1>7, <1>4 DEF a, b, c, t
      <3>. HIDE DEF u
      <3>. QED
        BY <1>2, <2>3, <3>1, ConcatEmptySeq
    <2>5. Start(n, 1) = 0 /\ Start(n, 2) = Len(a) + 1 /\ Start(n, 3) = Len(a) + 1 + Len(b) + 1
      BY DEF Start, a, b, p
    <2>. HIDE DEF u
    <2>6. \A j \in 1 .. Len(a) : u[j] = a[j]
      BY <2>1, <2>2, <2>3
    <2>7. u[Len(a) + 1] = Dot
      BY <2>1, <2>2, <2>3
    <2>8. \A j \in 1 .. Len(b) : u[Len(a) + 1 + j] = b[j]
      BY <2>1, <2>2, <2>3
    <2>9. /\ Start(n, 2) = Start(n, 1) + Len(a) + 1
          /\ Start(n, 3) = Start(n, 2) + Len(b) + 1
          /\ Start(n, 3) = Len(t) + 1
          /\ Start(n, 1) \in Nat /\ Start(n, 2) \in Nat /\ Start(n, 3) \in Nat
      BY <2>1, <2>2, <2>5
    <2>10. \A j \in 1 .. Len(a) : Text(n)[Start(n, 1) + j] = a[j]
      <3>1. \A j \in 1 .. Len(a) : Start(n, 1) + j = j
        BY <2>5
      <3>. QED
        BY <2>4, <2>6, <3>1
    <2>11. \A j \in 1 .. Len(b) : Text(n)[Start(n, 2) + j] = b[j]
      BY <2>4, <2>5, <2>8
    <2>12. \A j \in 1 .. Len(c) : Text(n)[Start(n, 3) + j] = c[j]
      BY <2>3, <2>4, <2>9
    <2>13. Text(n)[Start(n, 1) + Len(a) + 1] = Dot
      <3>1. Start(n, 1) + Len(a) + 1 = Len(a) + 1
        BY <2>1, <2>5
      <3>. QED
        BY <2>4, <2>7, <3>1
    <2>14. Text(n)[Start(n, 2) + Len(b) + 1] = Dot
      <3>1. Start(n, 2) + Len(b) + 1 = Len(t) + 1
        BY <2>9
      <3>. QED
        BY <2>3, <2>4, <3>1
    <2>15. Len(Text(n)) = Start(n, 3) + Len(c)
      BY <2>3, <2>4, <2>9
    <2>16. \A k \in 1 .. Len(p) : k = 1 \/ k = 2 \/ k = 3
      BY <1>7
    <2>17. \A k \in 1 .. Len(p) :
              /\ Start(n, k) \in Nat /\ Len(p[k]) \in Nat
              /\ \A j \in 1 .. Len(p[k]) : Text(n)[Start(n, k) + j] = p[k][j]
      BY <2>1, <2>9, <2>10, <2>11, <2>12, <2>16 DEF a, b, c
    <2>18. \A k \in 1 .. Len(p) - 1 : (k = 1 /\ k + 1 = 2) \/ (k = 2 /\ k + 1 = 3)
      BY <1>7
    <2>19. \A k \in 1 .. Len(p) - 1 :
              /\ Start(n, k + 1) = Start(n, k) + Len(p[k]) + 1
              /\ Text(n)[Start(n, k) + Len(p[k]) + 1] = Dot
      BY <2>9, <2>13, <2>14, <2>18 DEF a, b, c
    <2>20. Text(n) \in Seq(Char) /\ Len(Text(n)) = Start(n, Len(p)) + Len(p[Len(p)])
      BY <1>7, <2>3, <2>4, <2>15 DEF c
    <2>. QED
      BY <2>17, <2>19, <2>20 DEF p
  <1>. QED
    BY <1>1, <1>5, <1>6, <1>7 DEF p

\* No part reaches beyond the text, nor does the dot behind one that is not
\* the last.
LEMMA PartsInside ==
    ASSUME NEW n \in Names, WellFormed(n), NEW k \in 1 .. Len(n.parts)
    PROVE  /\ Len(Text(n)) \in Nat
           /\ Start(n, k) + Len(n.parts[k]) <= Len(Text(n))
           /\ k # Len(n.parts) => Start(n, k) + Len(n.parts[k]) + 1 <= Len(Text(n))
           /\ k = Len(n.parts) => Start(n, k) + Len(n.parts[k]) = Len(Text(n))
  <1>. DEFINE L    == Len(n.parts)
              s(m) == Start(n, m)
              l(m) == Len(n.parts[m])
              len  == Len(Text(n))
  <1>1. L = 1 \/ L = 2 \/ L = 3
    BY NameParts
  <1>2. /\ len = s(L) + l(L)
        /\ \A m \in 1 .. L : s(m) \in Nat /\ l(m) \in Nat
        /\ \A m \in 1 .. L - 1 : s(m + 1) = s(m) + l(m) + 1
    BY TextOfParts
  <1>. HIDE DEF L, s, l, len
  <1>3. L \in 1 .. L
    BY <1>1
  <1>4. CASE k = L
    BY <1>2, <1>3, <1>4 DEF L, s, l, len
  <1>5. CASE k + 1 = L
    <2>1. k \in 1 .. L - 1 /\ k \in 1 .. L
      BY <1>1, <1>5 DEF L
    <2>2. s(L) = s(k) + l(k) + 1
      BY <1>2, <1>5, <2>1
    <2>3. len = s(k) + l(k) + 1 + l(L) /\ s(k) \in Nat /\ l(k) \in Nat /\ l(L) \in Nat
      BY <1>2, <1>3, <2>1, <2>2
    <2>4. k # L /\ len \in Nat /\ s(k) + l(k) <= len /\ s(k) + l(k) + 1 <= len
      BY <1>5, <2>3
    <2>. QED
      BY <2>4 DEF L, s, l, len
  <1>6. CASE k + 2 = L
    <2>1. k \in 1 .. L - 1 /\ k \in 1 .. L /\ k + 1 \in 1 .. L - 1 /\ k + 1 \in 1 .. L /\ (k + 1) + 1 = L
      BY <1>1, <1>6 DEF L
    <2>2. s(k + 1) = s(k) + l(k) + 1 /\ s(L) = s(k + 1) + l(k + 1) + 1
      BY <1>2, <2>1
    <2>3. /\ len = s(k) + l(k) + 1 + l(k + 1) + 1 + l(L)
          /\ s(k) \in Nat /\ l(k) \in Nat /\ l(k + 1) \in Nat /\ l(L) \in Nat
      BY <1>2, <1>3, <2>1, <2>2
    <2>4. k # L /\ len \in Nat /\ s(k) + l(k) <= len /\ s(k) + l(k) + 1 <= len
      BY <1>6, <2>3
    <2>. QED
      BY <2>4 DEF L, s, l, len
  <1>7. k = L \/ k + 1 = L \/ k + 2 = L
    <2>1. k \in 1 .. L
      BY DEF L
    <2>. QED
      BY <1>1, <2>1
  <1>. QED
    BY <1>4, <1>5, <1>6, <1>7

-----------------------------------------------------------------------------
(***************************************************************************)
(* What the loop has read of a name: the parts before the cursor's, each   *)
(* modulo 2^32, the digits of the cursor's part, and nothing of the rest.  *)
(***************************************************************************)
LastName == seen[Len(seen)]

\* A number as a uint32_t keeps it.
AsUInt32(x) == x % 4294967296

ExactPart(n, k) ==
    IF k <= Len(n.parts) THEN Exact(n.parts[k])[Len(n.parts[k])] ELSE 0

\* The cursor stands behind j digits of the part v + 1, or behind its last and
\* then on a dot or at the end of the text.
CursorInPart ==
    busy /\ WellFormed(LastName) =>
        /\ v < Len(LastName.parts)
        /\ \E j \in 0 .. Len(LastName.parts[v + 1]) :
              /\ i = Start(LastName, v + 1) + j + 1
              /\ Number(fields[v]) = AsUInt32(Exact(LastName.parts[v + 1])[j])
        /\ \A k \in 0 .. 2 :
              /\ k < v => Number(fields[k]) = AsUInt32(ExactPart(LastName, k + 1))
              /\ k > v => Number(fields[k]) = 0

\* Every name the regular expression of the Python hook accepts whole is read
\* by the loop of the C parser as its parts modulo 2^32, absent ones as 0.
FieldsRead ==
    ~busy /\ seen # <<>> /\ WellFormed(LastName) =>
        \A k \in 1 .. 3 :
            Number(fields[k - 1]) = AsUInt32(ExactPart(LastName, k))

\* A name without a version stops the loop at its first character.
NothingRead ==
    /\ busy /\ NoVersion(LastName) => i = 1
    /\ seen # <<>> /\ NoVersion(LastName) => fields = [k \in 0 .. 2 |-> Zero]

TextRead == busy => seen # <<>> /\ str = Text(LastName)

ReadInv == TypeOK /\ TextRead /\ CursorInPart /\ FieldsRead /\ NothingRead

LEMMA ModuloStep ==
    ASSUME NEW e \in Nat, NEW d \in Nat
    PROVE  AsUInt32(AsUInt32(e) * 10 + d) = AsUInt32(e * 10 + d)
  <1>. DEFINE q == e \div 4294967296
              r == e % 4294967296
              x == r * 10 + d
              a == x \div 4294967296
              b == x % 4294967296
  <1>1. /\ q \in Nat /\ r \in Nat
        /\ e = q * 4294967296 + r
    BY SMT
  <1>2. x \in Nat
    BY <1>1, SMT
  <1>. HIDE DEF q, r
  <1>3. e * 10 + d = (q * 10) * 4294967296 + x
    BY <1>1, SMT
  <1>. HIDE DEF x
  <1>4. a \in Nat /\ b \in Nat /\ b < 4294967296 /\ x = a * 4294967296 + b
    BY <1>2, SMT
  <1>. HIDE DEF a, b
  <1>5. e * 10 + d = (q * 10 + a) * 4294967296 + b
    BY <1>1, <1>3, <1>4, SMT
  <1>6. ASSUME NEW m \in Nat, NEW c \in Nat, c < 4294967296
        PROVE  (m * 4294967296 + c) % 4294967296 = c
    BY <1>6, SMT
  <1>. DEFINE m == q * 10 + a
  <1>7. m \in Nat /\ e * 10 + d = m * 4294967296 + b
    BY <1>1, <1>4, <1>5, SMT
  <1>. HIDE DEF m
  <1>8. (e * 10 + d) % 4294967296 = b
    <2>1. (m * 4294967296 + b) % 4294967296 = b
      BY <1>4, <1>6, <1>7, SMT
    <2>. QED
      BY <1>7, <2>1, SMT
  <1>. QED
    BY <1>8, SMT DEF b, x, r, AsUInt32


LEMMA LastNameRead ==
    ASSUME TypeOK, seen # <<>>
    PROVE  LastName \in Names
  <1>1. seen \in Seq(Names) /\ Len(seen) \in Nat
    BY LenProperties DEF TypeOK
  <1>2. Len(seen) # 0
    BY <1>1, EmptySeq
  <1>3. Len(seen) \in 1 .. Len(seen)
    BY <1>1, <1>2
  <1>. QED
    BY <1>1, <1>3, ElementOfSeq DEF LastName

\* The character under the cursor: the next digit of the part, or the dot
\* behind the part, or none.
LEMMA UnderCursor ==
    ASSUME ReadInv, busy, WellFormed(LastName)
    PROVE  LET n == LastName
               q == n.parts[v + 1]
           IN  /\ n \in Names /\ v \in 0 .. 2
               /\ Len(n.parts) \in {1, 2, 3} /\ v + 1 \in 1 .. Len(n.parts)
               /\ q \in Seq(Digits) /\ Len(q) \in Nat
               /\ \E j \in 0 .. Len(q) :
                     /\ i = Start(n, v + 1) + j + 1
                     /\ Start(n, v + 1) \in Nat
                     /\ Number(fields[v]) = AsUInt32(Exact(q)[j])
                     /\ j < Len(q) => AtChar /\ str[i] = q[j + 1] /\ q[j + 1] \in Digits
                     /\ j = Len(q) /\ v + 1 < Len(n.parts) =>
                          AtChar /\ str[i] = Dot /\ Start(n, v + 2) = i
                     /\ j = Len(q) /\ v + 1 = Len(n.parts) => ~AtChar
  <1>. DEFINE n == LastName
              q == n.parts[v + 1]
              L == Len(n.parts)
              s1 == Start(n, v + 1)
              k == v + 1
  <1>1. seen # <<>> /\ str = Text(n)
    BY DEF ReadInv, TextRead
  <1>2. n \in Names
    BY <1>1, LastNameRead DEF ReadInv
  <1>3. v \in 0 .. 2 /\ v < L
    BY DEF ReadInv, TypeOK, CursorInPart
  <1>4. /\ L \in {1, 2, 3}
        /\ \A m \in 1 .. L : n.parts[m] \in Seq(Digits)
    BY <1>2, NameParts
  <1>. HIDE DEF n, L
  <1>5. k \in 1 .. L /\ q \in Seq(Digits) /\ Len(q) \in Nat
    BY <1>3, <1>4, LenProperties
  <1>6. /\ s1 \in Nat
        /\ \A j \in 1 .. Len(q) : str[s1 + j] = q[j]
        /\ k \in 1 .. L - 1 => Start(n, k + 1) = s1 + Len(q) + 1 /\ str[s1 + Len(q) + 1] = Dot
    BY <1>1, <1>2, <1>5, TextOfParts DEF n, L
  <1>7. /\ Len(str) \in Nat
        /\ s1 + Len(q) <= Len(str)
        /\ k # L => s1 + Len(q) + 1 <= Len(str)
        /\ k = L => s1 + Len(q) = Len(str)
    BY <1>1, <1>2, <1>5, PartsInside DEF n, L
  <1>8. PICK j \in 0 .. Len(q) :
           /\ i = s1 + j + 1
           /\ Number(fields[v]) = AsUInt32(Exact(q)[j])
    BY DEF ReadInv, CursorInPart, n
  <1>. HIDE DEF q, s1, k
  <1>9. CASE j < Len(q)
    <2>1. j + 1 \in 1 .. Len(q) /\ s1 + (j + 1) = i /\ i <= Len(str)
      BY <1>5, <1>6, <1>7, <1>8, <1>9
    <2>2. q[j + 1] \in Digits
      BY <1>5, <2>1, ElementOfSeq
    <2>3. str[i] = q[j + 1]
      BY <1>6, <2>1
    <2>4. j # Len(q)
      BY <1>9
    <2>. QED
      BY <1>2, <1>3, <1>4, <1>5, <1>6, <1>8, <2>1, <2>2, <2>3, <2>4, Zenon DEF AtChar, q, s1, k, n, L
  <1>10. CASE j = Len(q) /\ k # L
    <2>1. k \in 1 .. L - 1 /\ i = s1 + Len(q) + 1
      BY <1>4, <1>5, <1>8, <1>10
    <2>2. str[i] = Dot /\ i <= Len(str) /\ Start(n, k + 1) = i
      BY <1>6, <1>7, <1>10, <2>1
    <2>3. ~(j < Len(q))
      BY <1>5, <1>10
    <2>4. k + 1 = v + 2
      BY <1>3 DEF k
    <2>. QED
      BY <1>2, <1>3, <1>4, <1>5, <1>6, <1>8, <1>10, <2>2, <2>3, <2>4, Zenon DEF AtChar, q, s1, k, n, L
  <1>11. CASE j = Len(q) /\ k = L
    <2>1. ~(i <= Len(str))
      BY <1>5, <1>6, <1>7, <1>8, <1>11
    <2>2. ~(j < Len(q)) /\ ~(k < L)
      BY <1>4, <1>5, <1>11
    <2>. QED
      BY <1>2, <1>3, <1>4, <1>5, <1>6, <1>8, <1>11, <2>1, <2>2, Zenon DEF AtChar, q, s1, k, n, L
  <1>12. j < Len(q) \/ j = Len(q)
    BY <1>5
  <1>. QED
    BY <1>9, <1>10, <1>11, <1>12


\* What a name needs to be read without wrapping: its parts below 2^32.
LEMMA AsUInt32Facts ==
    /\ AsUInt32(0) = 0
    /\ \A x \in Nat : x <= 65536 => AsUInt32(x) = x
    /\ \A x \in Nat : AsUInt32(x) \in Nat
  BY SMT DEF AsUInt32

LEMMA NumberOfWord ==
    /\ Number(Zero) = 0
    /\ \A x \in UInt32 : /\ Number(x) \in Nat
                        /\ Clamped(x) = IF Number(x) > 255 THEN 255 ELSE Number(x)
  <1>1. Number(Zero) = 0
    BY SMT DEF Number, Zero
  <1>2. ASSUME NEW x \in UInt32
        PROVE  /\ Number(x) \in Nat
               /\ Clamped(x) = IF Number(x) > 255 THEN 255 ELSE Number(x)
    <2>1. PICK h \in Word, l \in Word : x.hi = h /\ x.lo = l
      BY DEF UInt32
    <2>2. h \in Nat /\ l \in Nat
      BY WordRange
    <2>3. Number(x) = h * 65536 + l
      BY <2>1, SMT DEF Number
    <2>4. Clamped(x) = IF h > 0 \/ l > 255 THEN 255 ELSE l
      BY <2>1, SMT DEF Clamped
    <2>. QED
      BY <2>2, <2>3, <2>4, SMT
  <1>. QED
    BY <1>1, <1>2

LEMMA ShiftedByDigit ==
    ASSUME NEW x \in UInt32, NEW d \in Digits, NEW e \in Nat,
           Number(x) = AsUInt32(e)
    PROVE  Number(Shifted(x, d)) = AsUInt32(e * 10 + d)
  <1>1. d \in Nat
    BY DEF Digits
  <1>2. Number(Shifted(x, d)) = AsUInt32(Number(x) * 10 + d)
    BY ShiftedIsModular, SMT DEF AsUInt32
  <1>. QED
    BY <1>1, <1>2, ModuloStep

LEMMA ReadInvInit == Init => ReadInv
  <1>1. Init => TypeOK
    BY InvInit DEF IInv
  <1>. QED
    BY <1>1 DEF Init, ReadInv, TextRead, CursorInPart, FieldsRead, NothingRead

\* A name without a version has no digit and no dot under the cursor.
LEMMA NoDot ==
    ASSUME ReadInv, busy, NoVersion(LastName)
    PROVE  AtChar /\ str[i] = Other
  <1>1. /\ str = Text(LastName) /\ i = 1
        /\ LastName.junk /\ LastName.parts = <<<<>>>>
    BY DEF ReadInv, TextRead, NothingRead, NoVersion
  <1>. DEFINE p == <<<<>>>>
  <1>2. Len(p) = 1 /\ p[1] = <<>>
    OBVIOUS
  <1>3. Joined(p)[Len(p)] = <<>>
    <2>. HIDE DEF p
    <2>1. Len(p) \in {1, 2, 3}
      BY <1>2
    <2>2. Joined(p)[Len(p)]
            = IF Len(p) = 1 THEN p[1]
              ELSE IF Len(p) = 2 THEN p[1] \o <<Dot>> \o p[2]
              ELSE p[1] \o <<Dot>> \o p[2] \o <<Dot>> \o p[3]
      BY ONLY <2>1, JoinedParts
    <2>. QED
      BY <1>2, <2>2
  <1>4. Text(LastName) = Joined(p)[Len(p)] \o <<Other>>
    BY <1>1 DEF Text, Joined
  <1>5. str = <<>> \o <<Other>>
    BY <1>1, <1>3, <1>4
  <1>6. <<Other>> \in Seq(Char)
    BY DEF Char
  <1>7. str = <<Other>>
    BY <1>5, <1>6, ConcatEmptySeq
  <1>. QED
    BY <1>1, <1>7 DEF AtChar

LEMMA NextNameReads ==
    ASSUME ReadInv, NextName, TypeOK'
    PROVE  ReadInv'
  <1>1. PICK n \in Names : /\ str' = Text(n)
                           /\ seen' = Append(seen, n)
    BY DEF NextName
  <1>2. /\ i' = 1 /\ v' = 0 /\ fields' = [k \in 0 .. 2 |-> Zero] /\ busy' = TRUE
    BY DEF NextName
  <1>3. seen' # <<>> /\ LastName' = n
    <2>1. seen \in Seq(Names)
      BY DEF ReadInv, TypeOK
    <2>2. /\ Len(seen') = Len(seen) + 1 /\ Len(seen) \in Nat
          /\ seen'[Len(seen) + 1] = n
      BY <1>1, <2>1, AppendProperties, LenProperties
    <2>. QED
      BY <2>2, EmptySeq DEF LastName
  <1>4. TextRead'
    BY <1>1, <1>3 DEF TextRead
  <1>5. FieldsRead' /\ NothingRead'
    BY <1>2 DEF FieldsRead, NothingRead
  <1>6. CursorInPart'
    <2>. SUFFICES ASSUME WellFormed(n)
                  PROVE  /\ 0 < Len(n.parts)
                         /\ \E j \in 0 .. Len(n.parts[0 + 1]) :
                               /\ 1 = Start(n, 0 + 1) + j + 1
                               /\ Number(fields'[0]) = AsUInt32(Exact(n.parts[0 + 1])[j])
                         /\ \A k \in 0 .. 2 : Number(fields'[k]) = 0 /\ ~(k < 0)
      BY <1>2, <1>3 DEF CursorInPart
    <2>1. Len(n.parts) \in {1, 2, 3} /\ \A k \in 1 .. Len(n.parts) : n.parts[k] \in Seq(Digits)
      BY NameParts
    <2>2. n.parts[1] \in Seq(Digits) /\ Len(n.parts[1]) \in Nat /\ 0 < Len(n.parts)
      <3>1. 0 < Len(n.parts) /\ 1 \in 1 .. Len(n.parts)
        BY <2>1
      <3>. QED
        BY <2>1, <3>1, LenProperties
    <2>3. Exact(n.parts[1])[0] = 0
      BY <2>2, ExactRuns
    <2>4. \A k \in 0 .. 2 : Number(fields'[k]) = 0
      BY <1>2, NumberOfWord
    <2>5. Start(n, 1) + 0 + 1 = 1
      BY DEF Start
    <2>6. 0 \in 0 .. Len(n.parts[1]) /\ 0 \in 0 .. 2 /\ 0 + 1 = 1
      BY <2>2
    <2>7. Number(fields'[0]) = AsUInt32(Exact(n.parts[1])[0])
      BY <2>3, <2>4, <2>6, AsUInt32Facts
    <2>8. \A k \in 0 .. 2 : ~(k < 0)
      OBVIOUS
    <2>. QED
      BY <2>2, <2>4, <2>5, <2>6, <2>7, <2>8
  <1>. QED
    BY <1>4, <1>5, <1>6 DEF ReadInv

LEMMA ReadDotReads ==
    ASSUME ReadInv, ReadDot, TypeOK'
    PROVE  ReadInv'
  <1>1. /\ busy /\ str[i] = Dot /\ v < 2 /\ i <= Len(str)
        /\ v' = v + 1 /\ i' = i + 1
        /\ UNCHANGED <<str, fields, busy, seen>>
    BY DEF ReadDot, AtChar
  <1>2. LastName' = LastName
    BY <1>1 DEF LastName
  <1>3. TextRead' /\ FieldsRead'
    BY <1>1, <1>2 DEF ReadInv, TextRead, FieldsRead
  <1>4. NothingRead'
    <2>1. ~NoVersion(LastName)
      BY <1>1, NoDot DEF Dot, Other
    <2>. QED
      BY <1>1, <1>2, <2>1 DEF NothingRead
  <1>5. CursorInPart'
    <2>. DEFINE n == LastName
                q == n.parts[v + 1]
                r == n.parts[v + 2]
                L == Len(n.parts)
    <2>. SUFFICES ASSUME WellFormed(n)
                  PROVE  /\ v + 1 < L
                         /\ \E j \in 0 .. Len(r) :
                               /\ i + 1 = Start(n, v + 2) + j + 1
                               /\ Number(fields[v + 1]) = AsUInt32(Exact(r)[j])
                         /\ \A k \in 0 .. 2 :
                               /\ k < v + 1 => Number(fields[k]) = AsUInt32(ExactPart(n, k + 1))
                               /\ k > v + 1 => Number(fields[k]) = 0
      <3>1. v \in 0 .. 2 /\ (v + 1) + 1 = v + 2
        BY DEF ReadInv, TypeOK
      <3>. QED
        BY <1>1, <1>2, <3>1 DEF CursorInPart
    <2>1. /\ n \in Names /\ v \in 0 .. 2
          /\ L \in {1, 2, 3} /\ v + 1 \in 1 .. L
          /\ q \in Seq(Digits) /\ Len(q) \in Nat
      BY <1>1, UnderCursor
    <2>2. PICK j \in 0 .. Len(q) :
             /\ i = Start(n, v + 1) + j + 1
             /\ Number(fields[v]) = AsUInt32(Exact(q)[j])
             /\ j < Len(q) => str[i] \in Digits
             /\ j = Len(q) /\ v + 1 < L => Start(n, v + 2) = i
             /\ j = Len(q) /\ v + 1 = L => ~AtChar
      BY <1>1, UnderCursor
    <2>3. AtChar /\ Dot \notin Digits
      BY <1>1 DEF AtChar, Dot, Digits
    <2>4. j = Len(q) /\ v + 1 < L /\ Start(n, v + 2) = i
      BY <1>1, <2>1, <2>2, <2>3
    <2>5. r \in Seq(Digits) /\ Len(r) \in Nat
      <3>1. v + 2 \in 1 .. L
        BY <2>1, <2>4
      <3>. QED
        BY <2>1, <3>1, NameParts, LenProperties
    <2>6. \A k \in 0 .. 2 :
             /\ k < v => Number(fields[k]) = AsUInt32(ExactPart(n, k + 1))
             /\ k > v => Number(fields[k]) = 0
      BY <1>1 DEF ReadInv, CursorInPart
    <2>7. Number(fields[v + 1]) = AsUInt32(Exact(r)[0])
      <3>1. v + 1 \in 0 .. 2 /\ v + 1 > v
        BY <1>1, <2>1
      <3>2. Number(fields[v + 1]) = 0
        BY <2>6, <3>1
      <3>3. Exact(r)[0] = 0
        BY <2>5, ExactRuns, Zenon
      <3>4. AsUInt32(0) = 0
        BY ONLY AsUInt32Facts, SMT
      <3>. QED
        BY ONLY <3>2, <3>3, <3>4
    <2>8. AsUInt32(ExactPart(n, v + 1)) = Number(fields[v])
      BY <2>1, <2>2, <2>4 DEF ExactPart
    <2>9. \A k \in 0 .. 2 :
             /\ k < v + 1 => (k < v \/ k = v)
             /\ k > v + 1 => k > v
      BY <2>1
    <2>10. \A k \in 0 .. 2 :
              /\ k < v + 1 => Number(fields[k]) = AsUInt32(ExactPart(n, k + 1))
              /\ k > v + 1 => Number(fields[k]) = 0
      <3>. TAKE k \in 0 .. 2
      <3>1. CASE k < v
        BY <2>1, <2>6, <3>1
      <3>2. CASE k = v
        <4>1. ~(k > v + 1)
          BY <2>1, <3>2
        <4>. QED
          BY <2>8, <3>2, <4>1
      <3>3. CASE k > v
        BY <2>1, <2>6, <2>9, <3>3
      <3>. QED
        BY <2>1, <3>1, <3>2, <3>3
    <2>11. 0 \in 0 .. Len(r) /\ i + 1 = Start(n, v + 2) + 0 + 1
      <3>1. i \in Nat
        BY DEF ReadInv, TypeOK
      <3>. QED
        BY <2>4, <2>5, <3>1
    <2>. QED
      BY <2>4, <2>7, <2>10, <2>11
  <1>. QED
    BY <1>3, <1>4, <1>5 DEF ReadInv

LEMMA ReadDigitReads ==
    ASSUME ReadInv, ReadDigit, TypeOK'
    PROVE  ReadInv'
  <1>1. /\ busy /\ str[i] \in Digits /\ i <= Len(str)
        /\ fields' = [fields EXCEPT ![v] = Shifted(fields[v], str[i])]
        /\ i' = i + 1
        /\ UNCHANGED <<str, v, busy, seen>>
    BY DEF ReadDigit, AtChar
  <1>2. LastName' = LastName
    BY <1>1 DEF LastName
  <1>3. TextRead' /\ FieldsRead'
    BY <1>1, <1>2 DEF ReadInv, TextRead, FieldsRead
  <1>4. NothingRead'
    <2>1. ~NoVersion(LastName)
      BY <1>1, NoDot DEF Other, Digits
    <2>. QED
      BY <1>1, <1>2, <2>1 DEF NothingRead
  <1>5. CursorInPart'
    <2>. DEFINE n == LastName
                q == n.parts[v + 1]
                L == Len(n.parts)
    <2>. SUFFICES ASSUME WellFormed(n)
                  PROVE  /\ v < L
                         /\ \E j \in 0 .. Len(q) :
                               /\ i + 1 = Start(n, v + 1) + j + 1
                               /\ Number(fields'[v]) = AsUInt32(Exact(q)[j])
                         /\ \A k \in 0 .. 2 :
                               /\ k < v => Number(fields'[k]) = AsUInt32(ExactPart(n, k + 1))
                               /\ k > v => Number(fields'[k]) = 0
      BY <1>1, <1>2 DEF CursorInPart
    <2>1. /\ n \in Names /\ v \in 0 .. 2
          /\ L \in {1, 2, 3} /\ v + 1 \in 1 .. L
          /\ q \in Seq(Digits) /\ Len(q) \in Nat
      BY <1>1, UnderCursor
    <2>2. PICK j \in 0 .. Len(q) :
             /\ i = Start(n, v + 1) + j + 1
             /\ Start(n, v + 1) \in Nat
             /\ Number(fields[v]) = AsUInt32(Exact(q)[j])
             /\ j < Len(q) => str[i] = q[j + 1]
             /\ j = Len(q) /\ v + 1 < L => str[i] = Dot
             /\ j = Len(q) /\ v + 1 = L => ~AtChar
      BY <1>1, UnderCursor
    <2>3. AtChar /\ Dot \notin Digits
      BY <1>1 DEF AtChar, Dot, Digits
    <2>4. j < Len(q) /\ str[i] = q[j + 1]
      <3>1. j # Len(q)
        BY <1>1, <2>1, <2>2, <2>3
      <3>. QED
        BY <2>1, <2>2, <3>1
    <2>5. /\ j + 1 \in 1 .. Len(q) /\ j + 1 \in 0 .. Len(q) /\ (j + 1) - 1 = j
          /\ i + 1 = Start(n, v + 1) + (j + 1) + 1
      BY <2>1, <2>2, <2>4
    <2>6. /\ Exact(q)[j] \in Nat
          /\ Exact(q)[j + 1] = Exact(q)[j] * 10 + q[j + 1]
      BY <2>1, <2>5, ExactRuns
    <2>7. /\ fields'[v] = Shifted(fields[v], str[i])
          /\ \A k \in 0 .. 2 : k # v => fields'[k] = fields[k]
          /\ fields[v] \in UInt32
      BY <1>1, <2>1 DEF ReadInv, TypeOK
    <2>8. Number(fields'[v]) = AsUInt32(Exact(q)[j + 1])
      BY <1>1, <2>2, <2>4, <2>6, <2>7, ShiftedByDigit
    <2>9. /\ v < L
          /\ \A k \in 0 .. 2 :
                /\ k < v => Number(fields[k]) = AsUInt32(ExactPart(n, k + 1))
                /\ k > v => Number(fields[k]) = 0
      BY <1>1 DEF ReadInv, CursorInPart
    <2>10. \A k \in 0 .. 2 : (k < v \/ k > v) => k # v
      BY <2>1
    <2>. QED
      BY <2>5, <2>7, <2>8, <2>9, <2>10
  <1>. QED
    BY <1>3, <1>4, <1>5 DEF ReadInv

LEMMA FinishReads ==
    ASSUME ReadInv, Finish, TypeOK'
    PROVE  ReadInv'
  <1>1. /\ busy /\ busy' = FALSE
        /\ AtChar => str[i] = Other \/ (str[i] = Dot /\ v = 2)
        /\ UNCHANGED <<str, i, v, fields, seen>>
    BY DEF Finish
  <1>2. LastName' = LastName
    BY <1>1 DEF LastName
  <1>3. TextRead' /\ CursorInPart' /\ NothingRead'
    BY <1>1, <1>2 DEF ReadInv, TextRead, CursorInPart, NothingRead
  <1>4. FieldsRead'
    <2>. DEFINE n == LastName
                q == n.parts[v + 1]
                L == Len(n.parts)
    <2>. SUFFICES ASSUME WellFormed(n), NEW m \in 1 .. 3
                  PROVE  Number(fields[m - 1]) = AsUInt32(ExactPart(n, m))
      BY <1>1, <1>2 DEF FieldsRead
    <2>1. /\ v \in 0 .. 2
          /\ L \in {1, 2, 3} /\ v + 1 \in 1 .. L
          /\ q \in Seq(Digits) /\ Len(q) \in Nat
      BY <1>1, UnderCursor
    <2>2. PICK j \in 0 .. Len(q) :
             /\ Number(fields[v]) = AsUInt32(Exact(q)[j])
             /\ j < Len(q) => AtChar /\ str[i] \in Digits
             /\ j = Len(q) /\ v + 1 < L => AtChar /\ str[i] = Dot
      BY <1>1, UnderCursor
    <2>3. Dot \notin Digits /\ Other \notin Digits /\ Dot # Other
      BY DEF Dot, Other, Digits
    <2>4. j = Len(q)
      <3>1. ~(j < Len(q))
        BY <1>1, <2>2, <2>3
      <3>. QED
        BY <2>1, <3>1
    <2>5. L = v + 1
      <3>1. CASE v + 1 < L
        <4>1. v # 2
          <5>. HIDE DEF L
          <5>. QED
            BY <2>1, <3>1
        <4>. QED
          BY <1>1, <2>2, <2>3, <2>4, <3>1, <4>1
      <3>. QED
        BY <2>1, <3>1
    <2>6. \A k \in 0 .. 2 :
             /\ k < v => Number(fields[k]) = AsUInt32(ExactPart(n, k + 1))
             /\ k > v => Number(fields[k]) = 0
      BY <1>1 DEF ReadInv, CursorInPart
    <2>7. m - 1 \in 0 .. 2 /\ (m - 1) + 1 = m
      OBVIOUS
    <2>8. CASE m - 1 < v
      BY <2>6, <2>7, <2>8
    <2>9. CASE m - 1 = v
      <3>1. ExactPart(n, m) = Exact(q)[Len(q)]
        <4>1. m = v + 1 /\ m <= L
          BY <2>1, <2>5, <2>9
        <4>. QED
          BY <4>1 DEF ExactPart
      <3>. QED
        BY <2>2, <2>4, <2>9, <3>1
    <2>10. CASE m - 1 > v
      <3>1. ~(m <= L)
        BY <2>1, <2>5, <2>10
      <3>2. ExactPart(n, m) = 0
        BY <3>1 DEF ExactPart
      <3>. QED
        BY <2>6, <2>7, <2>10, <3>2, AsUInt32Facts
    <2>. QED
      BY <2>1, <2>8, <2>9, <2>10
  <1>. QED
    BY <1>3, <1>4 DEF ReadInv

LEMMA ReadInvNext == IInv /\ ReadInv /\ [Next]_vars => ReadInv'
  <1>. SUFFICES ASSUME IInv, ReadInv, [Next]_vars
                PROVE  ReadInv'
    OBVIOUS
  <1>0. TypeOK'
    BY InvNext DEF IInv
  <1>1. CASE NextName
    BY <1>0, <1>1, NextNameReads
  <1>2. CASE ReadDot
    BY <1>0, <1>2, ReadDotReads
  <1>3. CASE ReadDigit
    BY <1>0, <1>3, ReadDigitReads
  <1>4. CASE Finish
    BY <1>0, <1>4, FinishReads
  <1>5. CASE UNCHANGED vars
    BY <1>0, <1>5 DEF vars, ReadInv, TextRead, CursorInPart, FieldsRead, NothingRead,
                      LastName, AtChar
  <1>. QED
    BY <1>1, <1>2, <1>3, <1>4, <1>5 DEF Next

\* version_string_to_int reads each field of a name that the Python hook accepts
\* as the number the digits spell, modulo 2^32, and a field without digits as 0.
THEOREM ReadsModulo2Pow32 == Spec => []FieldsRead
  <1>1. ReadInv => FieldsRead
    BY DEF ReadInv
  <1>. QED
    BY InvInit, InvNext, ReadInvInit, ReadInvNext, <1>1, PTL DEF Spec

-----------------------------------------------------------------------------
(***************************************************************************)
(* What follows for the two properties of the runs.                        *)
(***************************************************************************)
\* A part as the Python hook reads it and as the digits spell it.
LEMMA PartIsExact ==
    ASSUME NEW n \in Names, WellFormed(n), NEW k \in 1 .. 3
    PROVE  /\ ExactPart(n, k) \in Nat /\ Part(n, k) \in Nat
           /\ Part(n, k) <= 255 => ExactPart(n, k) = Part(n, k)
           /\ Part(n, k) > 255 => ExactPart(n, k) > 255
  <1>1. CASE k <= Len(n.parts)
    <2>. DEFINE q == n.parts[k]
                value == DecimalValue(q)
                exact == Exact(q)[Len(q)]
    <2>1. q \in Seq(Digits)
      <3>1. k \in 1 .. Len(n.parts)
        BY <1>1, NameParts
      <3>. QED
        BY <3>1, NameParts
    <2>2. /\ exact \in Nat /\ value \in Nat
          /\ value <= Enough => exact = value
          /\ value > Enough => exact > Enough
      BY <2>1, DecimalIsExact
    <2>3. Part(n, k) = value /\ ExactPart(n, k) = exact
      BY <1>1 DEF Part, ExactPart
    <2>. HIDE DEF value, exact
    <2>. QED
      BY <2>2, <2>3 DEF Enough
  <1>2. CASE ~(k <= Len(n.parts))
    BY <1>2 DEF Part, ExactPart
  <1>. QED
    BY <1>1, <1>2

\* Two halves, of which the high one has no bound, modulo 2^32.
LEMMA HalvesModulo ==
    ASSUME NEW h \in Nat, NEW l \in Nat, l <= 65535
    PROVE  /\ (h % 65536) \in Nat
           /\ (h * 65536 + l) % 4294967296 = (h % 65536) * 65536 + l
  <1>. DEFINE q == h \div 65536
              a == h % 65536
  <1>1. q \in Nat /\ a \in Nat /\ a <= 65535 /\ h = q * 65536 + a
    BY SMT
  <1>. HIDE DEF q, a
  <1>2. a * 65536 + l \in Nat /\ a * 65536 + l < 4294967296
    BY <1>1, SMT
  <1>3. h * 65536 + l = q * 4294967296 + (a * 65536 + l)
    BY <1>1, SMT
  <1>4. ASSUME NEW n \in Nat, n < 4294967296
        PROVE  (q * 4294967296 + n) % 4294967296 = n
    BY <1>1, <1>4, SMT
  <1>5. (h * 65536 + l) % 4294967296 = a * 65536 + l
    BY <1>2, <1>3, <1>4
  <1>. QED
    BY <1>1, <1>5 DEF a

\* A number of any size, in halves of which the high one has no bound.
Halves == [hi : Nat, lo : Word]

\* One digit more, in such halves.
LEMMA HalvesByDigit ==
    ASSUME NEW x \in Halves, NEW d \in Digits,
           NEW y, y = [hi |-> x.hi * 10 + ((x.lo * 10 + d) \div Half),
                       lo |-> (x.lo * 10 + d) % Half]
    PROVE  y \in Halves /\ Number(y) = Number(x) * 10 + d
  <1>1. PICK h \in Nat, l \in Word : x.hi = h /\ x.lo = l
    BY DEF Halves
  <1>2. l \in Nat /\ d \in Nat
    BY WordRange DEF Digits
  <1>. DEFINE low == l * 10 + d
  <1>3. /\ low \in Nat /\ (low \div 65536) \in Nat
        /\ (low % 65536) \in Nat /\ low % 65536 <= 65535
        /\ low = (low \div 65536) * 65536 + (low % 65536)
    BY <1>2, SMT
  <1>4. y = [hi |-> h * 10 + (low \div 65536), lo |-> low % 65536]
    BY <1>1, HalfValue
  <1>5. (low % 65536) \in Word
    BY <1>3, InWord
  <1>6. (h * 10 + (low \div 65536)) * 65536 + (low % 65536) = (h * 65536 + l) * 10 + d
    BY <1>2, <1>3, SMT
  <1>. HIDE DEF low
  <1>. QED
    BY <1>1, <1>3, <1>4, <1>5, <1>6 DEF Halves, Number

\* The reference of ClampedAt255 is the number the digits spell.
LEMMA SpelledIsExact ==
    ASSUME NEW ds \in Seq(Digits)
    PROVE  Spelled(ds) \in Halves /\ Number(Spelled(ds)) = Exact(ds)[Len(ds)]
  <1>. DEFINE step(x, d) == [hi |-> x.hi * 10 + ((x.lo * 10 + d) \div Half),
                             lo |-> (x.lo * 10 + d) % Half]
              pass == [x \in (1 .. Len(ds)) \X Halves |-> step(x[2], ds[x[1]])]
              val  == CHOOSE f : f = [k \in 0 .. Len(ds) |->
                         IF k = 0 THEN Zero
                         ELSE [hi |-> f[k - 1].hi * 10
                                        + ((f[k - 1].lo * 10 + ds[k]) \div Half),
                               lo |-> (f[k - 1].lo * 10 + ds[k]) % Half]]
  <1>1. Len(ds) \in Nat /\ \A k \in 1 .. Len(ds) : ds[k] \in Digits
    BY LenProperties, ElementOfSeq
  <1>2. \A x \in Halves, d \in Digits :
           step(x, d) \in Halves /\ Number(step(x, d)) = Number(x) * 10 + d
    BY HalvesByDigit
  <1>3. Zero \in Halves /\ Number(Zero) = 0
    BY ZeroType, NumberOfWord, WordRange DEF Halves, UInt32, Zero
  <1>. HIDE DEF step
  <1>4. pass \in [(1 .. Len(ds)) \X Halves -> Halves]
    BY <1>1, <1>2
  <1>5. PICK run \in [0 .. Len(ds) -> Halves] :
           /\ run[0] = Zero
           /\ \A k \in 1 .. Len(ds) : run[k] = pass[<<k, run[k - 1]>>]
    <2>. HIDE DEF val, pass
    <2>1. pass \in Passes(Len(ds), Halves)
      BY <1>4 DEF Passes
    <2>2. \E run : IsLoop(run, Len(ds), Halves, Zero, pass)
      BY <1>1, <1>3, <2>1, LoopRuns
    <2>. QED
      BY <2>2 DEF IsLoop
  <1>6. \A k \in 1 .. Len(ds) : /\ k - 1 \in 0 .. Len(ds) /\ run[k - 1] \in Halves
                                /\ run[k] = step(run[k - 1], ds[k])
    <2>. HIDE DEF val
    <2>1. \A k \in 1 .. Len(ds) : k - 1 \in 0 .. Len(ds) /\ run[k - 1] \in Halves
      BY <1>1
    <2>. QED
      BY <1>5, <2>1
  <1>7. run = [k \in 0 .. Len(ds) |->
                 IF k = 0 THEN Zero
                 ELSE [hi |-> run[k - 1].hi * 10
                                + ((run[k - 1].lo * 10 + ds[k]) \div Half),
                       lo |-> (run[k - 1].lo * 10 + ds[k]) % Half]]
    <2>. HIDE DEF val, pass
    <2>1. run = [k \in 0 .. Len(ds) |-> run[k]]
      OBVIOUS
    <2>2. \A k \in 0 .. Len(ds) : k = 0 \/ k \in 1 .. Len(ds)
      BY <1>1
    <2>3. \A k \in 1 .. Len(ds) :
             run[k] = [hi |-> run[k - 1].hi * 10
                                + ((run[k - 1].lo * 10 + ds[k]) \div Half),
                       lo |-> (run[k - 1].lo * 10 + ds[k]) % Half]
      BY <1>6 DEF step
    <2>. QED
      BY <1>5, <2>1, <2>2, <2>3
  <1>8. val = [k \in 0 .. Len(ds) |->
                 IF k = 0 THEN Zero
                 ELSE [hi |-> val[k - 1].hi * 10
                                + ((val[k - 1].lo * 10 + ds[k]) \div Half),
                       lo |-> (val[k - 1].lo * 10 + ds[k]) % Half]]
    BY <1>7
  <1>9. Spelled(ds) = val[Len(ds)]
    BY DEF Spelled
  <1>. HIDE DEF val, pass
  <1>10. val[0] = Zero
    BY <1>1, <1>8
  <1>11. \A k \in 1 .. Len(ds) : val[k] = step(val[k - 1], ds[k])
    <2>. TAKE k \in 1 .. Len(ds)
    <2>1. k \in 0 .. Len(ds) /\ k # 0
      BY <1>1
    <2>. QED
      BY <1>8, <2>1 DEF step
  <1>12. /\ \A k \in 0 .. Len(ds) : Exact(ds)[k] \in Nat
         /\ Exact(ds)[0] = 0
         /\ \A k \in 1 .. Len(ds) : Exact(ds)[k] = Exact(ds)[k - 1] * 10 + ds[k]
    BY ExactRuns
  <1>. DEFINE T == {k \in Nat : val[k] \in Halves /\ Number(val[k]) = Exact(ds)[k]}
  <1>13. 0 \in T
    BY <1>3, <1>10, <1>12
  <1>14. \A k \in 0 .. Len(ds) - 1 : k \in T => k + 1 \in T
    <2>. SUFFICES ASSUME NEW k \in 0 .. Len(ds) - 1,
                         val[k] \in Halves, Number(val[k]) = Exact(ds)[k]
                  PROVE  val[k + 1] \in Halves /\ Number(val[k + 1]) = Exact(ds)[k + 1]
      BY <1>1
    <2>1. k + 1 \in 1 .. Len(ds) /\ (k + 1) - 1 = k
      BY <1>1
    <2>2. val[k + 1] = step(val[k], ds[k + 1]) /\ ds[k + 1] \in Digits
      BY <1>1, <1>11, <2>1
    <2>3. Exact(ds)[k + 1] = Exact(ds)[k] * 10 + ds[k + 1]
      BY <1>12, <2>1
    <2>. QED
      BY <1>2, <2>2, <2>3
  <1>. HIDE DEF T
  <1>15. \A k \in 0 .. Len(ds) : k \in T
    BY <1>1, <1>13, <1>14, ByInductionUpTo
  <1>16. Len(ds) \in T
    BY <1>1, <1>15
  <1>. QED
    BY <1>9, <1>16 DEF T

LEMMA ClampedFields == ReadInv => ClampedAt255
  <1>. DEFINE x(k) == SpelledPart(LastName, k)
  <1>. SUFFICES ASSUME ReadInv, ~busy, seen # <<>>, WellFormed(LastName), NEW k \in 1 .. 3
                PROVE  Clamped(fields[k - 1])
                         = IF x(k).hi % Half > 0 \/ x(k).lo > 255 THEN 255 ELSE x(k).lo
    BY DEF ClampedAt255, LastName
  <1>1. LastName \in Names
    BY LastNameRead DEF ReadInv
  <1>2. x(k) \in Halves /\ Number(x(k)) = ExactPart(LastName, k)
    <2>1. CASE k <= Len(LastName.parts)
      <3>1. LastName.parts[k] \in Seq(Digits)
        <4>1. k \in 1 .. Len(LastName.parts)
          BY <1>1, <2>1, NameParts
        <4>. QED
          BY <1>1, <4>1, NameParts
      <3>. QED
        BY <2>1, <3>1, SpelledIsExact DEF SpelledPart, ExactPart
    <2>2. CASE ~(k <= Len(LastName.parts))
      <3>1. Zero \in Halves /\ Number(Zero) = 0
        BY ZeroType, NumberOfWord, WordRange DEF Halves, UInt32, Zero
      <3>. QED
        BY <2>2, <3>1 DEF SpelledPart, ExactPart
    <2>. QED
      BY <2>1, <2>2
  <1>. HIDE DEF x
  <1>3. PICK h \in Nat, l \in Word : x(k).hi = h /\ x(k).lo = l
    BY <1>2 DEF Halves
  <1>4. l \in Nat /\ l <= 65535
    BY WordRange
  <1>5. Number(fields[k - 1]) = (h % 65536) * 65536 + l /\ (h % 65536) \in Nat
    <2>1. Number(fields[k - 1]) = AsUInt32(Number(x(k)))
      BY <1>1, <1>2 DEF ReadInv, FieldsRead
    <2>. QED
      BY <1>3, <1>4, <2>1, HalvesModulo DEF Number, AsUInt32
  <1>6. fields[k - 1] \in UInt32
    BY DEF ReadInv, TypeOK
  <1>7. Clamped(fields[k - 1])
          = IF (h % 65536) * 65536 + l > 255 THEN 255 ELSE (h % 65536) * 65536 + l
    BY <1>5, <1>6, NumberOfWord
  <1>8. CASE h % 65536 > 0
    <2>1. (h % 65536) * 65536 + l > 255
      BY <1>4, <1>5, <1>8, SMT
    <2>. QED
      BY <1>3, <1>7, <1>8, <2>1, HalfValue
  <1>9. CASE h % 65536 = 0
    <2>1. (h % 65536) * 65536 + l = l
      BY <1>4, <1>9, SMT
    <2>. QED
      BY <1>3, <1>4, <1>7, <1>9, <2>1, HalfValue
  <1>. QED
    BY <1>5, <1>8, <1>9

\* The C parser clamps each field of every name at 255 as its comment says, once
\* the uint32_t has wrapped it: nothing is assumed of the size of a part.
THEOREM FieldsClamped == Spec => []ClampedAt255
  <1>. QED
    BY InvInit, InvNext, ReadInvInit, ReadInvNext, ClampedFields, PTL DEF Spec

-----------------------------------------------------------------------------
(***************************************************************************)
(* Both readers keep a maximum: of packed versions, and of tuples.         *)
(***************************************************************************)
\* Names both grammars accept with fields that need no clamping, or reject.
SameToBoth(names) ==
    \A k \in 1 .. Len(names) : Unclamped(names[k]) \/ NoVersion(names[k])

\* Between names both hold the same maximum; while the C loop runs it is still
\* at the one before, which the Python reader has already compared.
SameMaximum ==
    /\ ~found => glibcxx_version = 0
    /\ SameToBoth(seen) =>
         /\ ~busy => \E a, b, c \in Byte : /\ max_ver = <<a, b, c>>
                                          /\ glibcxx_version = Packed(a, b, c)
         /\ busy => \E a, b, c \in Byte :
              /\ max_ver = IF Above(parse_version(LastName), <<a, b, c>>)
                           THEN parse_version(LastName) ELSE <<a, b, c>>
              /\ glibcxx_version = Packed(a, b, c)

\* The fields the C loop has read of such a name are the tuple.
TuplePacked ==
    ~busy /\ seen # <<>> /\ (Unclamped(LastName) \/ NoVersion(LastName)) =>
        \E a, b, c \in Byte : /\ parse_version(LastName) = <<a, b, c>>
                             /\ version = Packed(a, b, c)

LEMMA SameFields == ReadInv => TuplePacked
  <1>. SUFFICES ASSUME ReadInv, ~busy, seen # <<>>,
                       Unclamped(LastName) \/ NoVersion(LastName)
                PROVE  \E a, b, c \in Byte : /\ parse_version(LastName) = <<a, b, c>>
                                            /\ version = Packed(a, b, c)
    BY DEF TuplePacked
  <1>1. LastName \in Names
    BY LastNameRead DEF ReadInv
  <1>2. \A k \in 0 .. 2 : fields[k] \in UInt32
    BY DEF ReadInv, TypeOK
  <1>3. CASE Unclamped(LastName)
    <2>. DEFINE a == Part(LastName, 1)
                b == Part(LastName, 2)
                c == Part(LastName, 3)
    <2>1. WellFormed(LastName) /\ \A k \in 1 .. 3 : Part(LastName, k) <= 255
      BY <1>3 DEF Unclamped
    <2>2. \A k \in 1 .. 3 : /\ Part(LastName, k) \in Nat
                            /\ ExactPart(LastName, k) = Part(LastName, k)
      BY <1>1, <2>1, PartIsExact
    <2>3. \A k \in 1 .. 3 : Part(LastName, k) \in Byte
      BY <2>1, <2>2, InByte
    <2>4. \A k \in 1 .. 3 : Number(fields[k - 1]) = Part(LastName, k)
      <3>. TAKE k \in 1 .. 3
      <3>1. Number(fields[k - 1]) = AsUInt32(Part(LastName, k))
        BY <2>1, <2>2 DEF ReadInv, FieldsRead
      <3>2. Part(LastName, k) \in Nat /\ Part(LastName, k) <= 65536
        BY <2>1, <2>2
      <3>. QED
        BY <3>1, <3>2, AsUInt32Facts
    <2>5. \A k \in 1 .. 3 : Clamped(fields[k - 1]) = Part(LastName, k)
      <3>. TAKE k \in 1 .. 3
      <3>1. fields[k - 1] \in UInt32
        BY <1>2
      <3>2. ~(Part(LastName, k) > 255)
        BY <2>1, <2>2
      <3>. QED
        BY <2>4, <3>1, <3>2, NumberOfWord
    <2>6. /\ Clamped(fields[0]) = a /\ Clamped(fields[1]) = b /\ Clamped(fields[2]) = c
          /\ a \in Byte /\ b \in Byte /\ c \in Byte
      <3>1. 1 - 1 = 0 /\ 2 - 1 = 1 /\ 3 - 1 = 2 /\ 1 \in 1 .. 3 /\ 2 \in 1 .. 3 /\ 3 \in 1 .. 3
        OBVIOUS
      <3>. HIDE DEF a, b, c
      <3>2. /\ Clamped(fields[1 - 1]) = a /\ Clamped(fields[2 - 1]) = b
            /\ Clamped(fields[3 - 1]) = c
        BY <2>5, <3>1 DEF a, b, c
      <3>. QED
        BY <2>3, <3>1, <3>2 DEF a, b, c
    <2>7. parse_version(LastName) = <<a, b, c>>
      BY <2>1 DEF parse_version
    <2>. HIDE DEF a, b, c
    <2>8. version = Packed(a, b, c)
      BY <2>6 DEF version
    <2>. QED
      BY <2>6, <2>7, <2>8
  <1>4. CASE NoVersion(LastName)
    <2>1. parse_version(LastName) = <<0, 0, 0>>
      BY <1>4 DEF NoVersion, parse_version, WellFormed
    <2>2. \A k \in 0 .. 2 : fields[k] = Zero
      BY <1>4 DEF ReadInv, NothingRead
    <2>3. Clamped(Zero) = 0
      BY ZeroType, NumberOfWord
    <2>4. version = Packed(0, 0, 0)
      BY <2>2, <2>3 DEF version
    <2>5. 0 \in Byte
      BY InByte
    <2>. QED
      BY <2>1, <2>4, <2>5
  <1>. QED
    BY <1>3, <1>4

LEMMA MaximumInit == Init => SameMaximum
  <1>. SUFFICES ASSUME Init
                PROVE  SameMaximum
    OBVIOUS
  <1>1. Packed(0, 0, 0) = 0 /\ 0 \in Byte
    BY InByte, SMT DEF Packed
  <1>2. glibcxx_version = 0 /\ max_ver = <<0, 0, 0>> /\ busy = FALSE
    BY DEF Init
  <1>. QED
    BY <1>1, <1>2 DEF SameMaximum

LEMMA MaximumNextName ==
    ASSUME ReadInv, SameMaximum, NextName
    PROVE  SameMaximum'
  <1>1. PICK n \in Names : /\ seen' = Append(seen, n)
                           /\ max_ver' = IF Above(parse_version(n), max_ver)
                                         THEN parse_version(n) ELSE max_ver
    BY DEF NextName
  <1>2. ~busy /\ busy' = TRUE /\ UNCHANGED <<found, glibcxx_version>>
    BY DEF NextName
  <1>3. seen \in Seq(Names)
    BY DEF ReadInv, TypeOK
  <1>4. /\ Len(seen') = Len(seen) + 1 /\ Len(seen) \in Nat
        /\ seen'[Len(seen) + 1] = n
        /\ \A k \in 1 .. Len(seen) : seen'[k] = seen[k]
    BY <1>1, <1>3, AppendProperties, LenProperties
  <1>5. LastName' = n
    BY <1>4 DEF LastName
  <1>6. SameToBoth(seen)' => SameToBoth(seen)
    BY <1>4 DEF SameToBoth
  <1>. QED
    BY <1>1, <1>2, <1>5, <1>6 DEF SameMaximum

LEMMA MaximumFinish ==
    ASSUME ReadInv, ReadInv', SameMaximum, Finish
    PROVE  SameMaximum'
  <1>1. /\ busy /\ busy' = FALSE /\ found' = TRUE
        /\ glibcxx_version' = IF found THEN uint_max(glibcxx_version, version) ELSE version
        /\ UNCHANGED <<fields, seen, max_ver>>
    BY DEF Finish
  <1>2. LastName' = LastName /\ version' = version
    BY <1>1 DEF LastName, version
  <1>. SUFFICES ASSUME SameToBoth(seen)
                PROVE  \E a, b, c \in Byte : /\ max_ver = <<a, b, c>>
                                            /\ glibcxx_version' = Packed(a, b, c)
    BY <1>1 DEF SameMaximum
  <1>3. seen # <<>> /\ (Unclamped(LastName) \/ NoVersion(LastName))
    <2>1. seen # <<>> /\ seen \in Seq(Names)
      BY <1>1 DEF ReadInv, TextRead, TypeOK
    <2>2. Len(seen) \in 1 .. Len(seen)
      BY <2>1, EmptySeq, LenProperties
    <2>. QED
      BY <2>1, <2>2 DEF SameToBoth, LastName
  <1>4. PICK x, y, z \in Byte : /\ parse_version(LastName) = <<x, y, z>>
                                /\ version = Packed(x, y, z)
    <2>1. (ReadInv => TuplePacked)'
      BY SameFields, PTL
    <2>. QED
      BY <1>1, <1>2, <1>3, <2>1 DEF TuplePacked
  <1>5. PICK a, b, c \in Byte :
           /\ max_ver = IF Above(<<x, y, z>>, <<a, b, c>>) THEN <<x, y, z>> ELSE <<a, b, c>>
           /\ glibcxx_version = Packed(a, b, c)
    BY <1>1, <1>4 DEF SameMaximum
  <1>6. Packed(x, y, z) > Packed(a, b, c) <=> Above(<<x, y, z>>, <<a, b, c>>)
    BY PackedOrder
  <1>7. Packed(a, b, c) \in Nat /\ Packed(x, y, z) \in Nat
    BY PackedRange
  <1>8. glibcxx_version' = IF Packed(x, y, z) > Packed(a, b, c)
                           THEN Packed(x, y, z) ELSE Packed(a, b, c)
    <2>1. CASE found
      BY <1>1, <1>4, <1>5, <1>7, <2>1 DEF uint_max
    <2>2. CASE ~found
      <3>1. Packed(a, b, c) = 0
        BY <1>5, <2>2 DEF SameMaximum
      <3>. QED
        BY <1>1, <1>4, <1>7, <2>2, <3>1
    <2>. QED
      BY <2>1, <2>2
  <1>. QED
    BY <1>5, <1>6, <1>8

LEMMA MaximumNext ==
    IInv /\ ReadInv /\ SameMaximum /\ [Next]_vars => SameMaximum'
  <1>. SUFFICES ASSUME IInv, ReadInv, SameMaximum, [Next]_vars
                PROVE  SameMaximum'
    OBVIOUS
  <1>1. CASE NextName
    BY <1>1, MaximumNextName
  <1>2. CASE ReadDot
    BY <1>2 DEF ReadDot, SameMaximum, LastName
  <1>3. CASE ReadDigit
    BY <1>3 DEF ReadDigit, SameMaximum, LastName
  <1>4. CASE Finish
    BY <1>4, ReadInvNext, MaximumFinish
  <1>5. CASE UNCHANGED vars
    BY <1>5 DEF vars, SameMaximum, LastName
  <1>. QED
    BY <1>1, <1>2, <1>3, <1>4, <1>5 DEF Next

\* The audit library and the Python hook read the same version from the same
\* file, however many names it has and whatever their order, when both grammars
\* accept or reject its names and no field needs clamping.
THEOREM ReadersAgreeOnVersion == Spec => []ReadersAgree
  <1>1. SameMaximum => ReadersAgree
    BY DEF SameMaximum, ReadersAgree, SameToBoth
  <1>. QED
    BY InvInit, InvNext, ReadInvInit, ReadInvNext, MaximumInit, MaximumNext, <1>1,
       PTL DEF Spec

=============================================================================
