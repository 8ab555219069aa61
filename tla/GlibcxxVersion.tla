--------------------------- MODULE GlibcxxVersion ---------------------------
(***************************************************************************)
(* Reading the version of a libstdc++ from the names of its version        *)
(* definitions, as the C code does it (version_string_to_int and the       *)
(* maximum in get_libstdcxx_version) and as the Python code does it        *)
(* (parse_version and the maximum in get_glibcxx_versions_from_gnu_        *)
(* version_d).  The two run side by side on the same names.                *)
(*                                                                         *)
(* The C loop runs one character per step.  A uint32_t is kept as two      *)
(* halves of 16 bits, so that its wrap-around is exact.                    *)
(***************************************************************************)
EXTENDS Integers, Sequences

CONSTANTS
    Names,    \* what follows "GLIBCXX_" in the names that may occur
    MaxNames  \* bound on the names of one file

Dot   == 10
Other == 11              \* any character that is no digit and no '.'
Digits == 0 .. 9
Char  == Digits \cup {Dot, Other}

\* A name is its parts between the dots, and whether another character follows
\* (from which on neither parser looks).
Name == [parts : Seq(Seq(Digits)), junk : BOOLEAN]

ASSUME NamesAssumption ==
    /\ Names \subseteq Name
    /\ \A n \in Names : n.parts # <<>>
    /\ MaxNames \in Nat

\* The characters of a name.
Text(n) ==
    LET text[k \in 1 .. Len(n.parts)] ==
          IF k = 1 THEN n.parts[1] ELSE text[k - 1] \o <<Dot>> \o n.parts[k]
    IN  text[Len(n.parts)] \o (IF n.junk THEN <<Other>> ELSE <<>>)

VARIABLES
    str, i,           \* the string under the loop and its cursor c
    v, fields,        \* v and major_minor_revision
    busy,             \* inside version_string_to_int?
    found,            \* at_least_one_glibcxx_version_found
    glibcxx_version,  \* *glibcxx_version
    max_ver,          \* Python: max_ver
    seen              \* history: the names read so far

vars == <<str, i, v, fields, busy, found, glibcxx_version, max_ver, seen>>

-----------------------------------------------------------------------------
Half == 65536
Word == 0 .. Half - 1
UInt32 == [hi : Word, lo : Word]
Zero == [hi |-> 0, lo |-> 0]

\* x * 10 + d, modulo 2^32.
Shifted(x, d) ==
    LET low == x.lo * 10 + d IN
    [hi |-> (x.hi * 10 + (low \div Half)) % Half, lo |-> low % Half]

\* Faulty variants, named Bug...: each stands before what it replaces.
BugUnclamped(x) == x.lo

\* uint_min(x, 255)
Clamped(x) == IF x.hi > 0 \/ x.lo > 255 THEN 255 ELSE x.lo

\* (version << 8) | field, three times.
Packed(a, b, c) == (a * 256 + b) * 256 + c

version == Packed(Clamped(fields[0]), Clamped(fields[1]), Clamped(fields[2]))

BugLatest(a, b) == b

uint_max(a, b) == IF a > b THEN a ELSE b

-----------------------------------------------------------------------------
\* re.fullmatch(r"(\d+)(?:\.(\d+))?(?:\.(\d+))?", n)
WellFormed(n) ==
    /\ ~n.junk
    /\ Len(n.parts) <= 3
    /\ \A k \in 1 .. Len(n.parts) : n.parts[k] # <<>>

\* The value of a run of digits, exact up to Enough and above it beyond.
Enough == 100000
DecimalValue(ds) ==
    LET val[k \in 0 .. Len(ds)] ==
          IF k = 0 THEN 0
          ELSE IF val[k - 1] > Enough THEN val[k - 1]
          ELSE val[k - 1] * 10 + ds[k]
    IN  val[Len(ds)]

Part(n, k) == IF k <= Len(n.parts) THEN DecimalValue(n.parts[k]) ELSE 0

\* parse_version: anything else is version 0.0.0, with a warning.
parse_version(n) ==
    IF WellFormed(n) THEN <<Part(n, 1), Part(n, 2), Part(n, 3)>> ELSE <<0, 0, 0>>

\* The order of Python's tuples.
Above(p, q) ==
    \/ p[1] > q[1]
    \/ p[1] = q[1] /\ p[2] > q[2]
    \/ p[1] = q[1] /\ p[2] = q[2] /\ p[3] > q[3]

-----------------------------------------------------------------------------
Init ==
    /\ str = <<>> /\ i = 1 /\ v = 0
    /\ fields = [n \in 0 .. 2 |-> Zero]
    /\ busy = FALSE /\ found = FALSE
    /\ glibcxx_version = 0
    /\ max_ver = <<0, 0, 0>>
    /\ seen = <<>>

\* A name that begins with GLIBCXX_ is handed to both parsers.
NextName ==
    /\ ~busy /\ Len(seen) < MaxNames
    /\ \E n \in Names :
          /\ str' = Text(n)
          /\ seen' = Append(seen, n)
          /\ max_ver' = IF Above(parse_version(n), max_ver)
                        THEN parse_version(n) ELSE max_ver
    /\ i' = 1 /\ v' = 0 /\ fields' = [n \in 0 .. 2 |-> Zero]
    /\ busy' = TRUE
    /\ UNCHANGED <<found, glibcxx_version>>

AtChar == busy /\ i <= Len(str)

BugUnboundedIndex ==
    /\ AtChar /\ str[i] = Dot
    /\ v' = v + 1 /\ i' = i + 1
    /\ UNCHANGED <<str, fields, busy, found, glibcxx_version, max_ver, seen>>

ReadDot ==
    /\ AtChar /\ str[i] = Dot /\ v < 2
    /\ v' = v + 1 /\ i' = i + 1
    /\ UNCHANGED <<str, fields, busy, found, glibcxx_version, max_ver, seen>>

ReadDigit ==
    /\ AtChar /\ str[i] \in Digits
    /\ fields' = [fields EXCEPT ![v] = Shifted(fields[v], str[i])]
    /\ i' = i + 1
    /\ UNCHANGED <<str, v, busy, found, glibcxx_version, max_ver, seen>>

\* The end of the string, another character, or a third dot.
Finish ==
    /\ busy
    /\ AtChar => str[i] = Other \/ (str[i] = Dot /\ v = 2)
    /\ busy' = FALSE /\ found' = TRUE
    /\ glibcxx_version' = IF found THEN uint_max(glibcxx_version, version)
                                   ELSE version
    /\ UNCHANGED <<str, i, v, fields, max_ver, seen>>

Next == NextName \/ ReadDot \/ ReadDigit \/ Finish

Spec == Init /\ [][Next]_vars

-----------------------------------------------------------------------------
\* The number a run of digits spells, of any size: its multiples of 65536 and
\* the rest.
Spelled(ds) ==
    LET val[k \in 0 .. Len(ds)] ==
          IF k = 0 THEN Zero
          ELSE [hi |-> val[k - 1].hi * 10 + ((val[k - 1].lo * 10 + ds[k]) \div Half),
                lo |-> (val[k - 1].lo * 10 + ds[k]) % Half]
    IN  val[Len(ds)]

SpelledPart(n, k) == IF k <= Len(n.parts) THEN Spelled(n.parts[k]) ELSE Zero

-----------------------------------------------------------------------------
\* In particular v stays an index of major_minor_revision.
TypeOK ==
    /\ i \in Nat \ {0} /\ v \in 0 .. 2
    /\ fields \in [0 .. 2 -> UInt32]
    /\ busy \in BOOLEAN /\ found \in BOOLEAN
    /\ glibcxx_version \in Nat
    /\ seen \in Seq(Names)

\* A packed version has the form 0x00AABBCC, so that it can never be the
\* 0xDEADBEEF by which audit.c marks the version it does not know.
FitsIn24Bits == glibcxx_version < 16777216

\* Each field is the number its digits spell, clamped at 255 as the comment of
\* version_string_to_int says, but only after a uint32_t has wrapped it: it is
\* clamped when 2^8 .. 2^32 - 1 is left of it modulo 2^32, and a part of 2^32 is
\* read as 0.
ClampedAt255 ==
    ~busy /\ seen # <<>> /\ WellFormed(seen[Len(seen)]) =>
        \A n \in 1 .. 3 :
            LET x == SpelledPart(seen[Len(seen)], n) IN
            Clamped(fields[n - 1]) = IF x.hi % Half > 0 \/ x.lo > 255 THEN 255
                                     ELSE x.lo

\* On names both grammars accept whole, with fields that need no clamping, and
\* on names both reject, the audit library and the Python hook read the same
\* version from the same file, whatever the order of its names.
Unclamped(n) == WellFormed(n) /\ \A k \in 1 .. 3 : Part(n, k) <= 255

NoVersion(n) == n.junk /\ n.parts = <<<<>>>>

ReadersAgree ==
    ~busy /\ (\A k \in 1 .. Len(seen) : Unclamped(seen[k]) \/ NoVersion(seen[k])) =>
        glibcxx_version = Packed(max_ver[1], max_ver[2], max_ver[3])
=============================================================================
