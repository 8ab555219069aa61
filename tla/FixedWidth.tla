------------------------------ MODULE FixedWidth ------------------------------
(***************************************************************************)
(* Integers in fields of a fixed width: the packers of the struct module   *)
(* that FormatField calls, int_to_bin and bin_to_int of lib/binary.py, and *)
(* the places a relocation writes.  A field is a sequence of cells, each   *)
(* below a base: 256 for a byte, 2 for a bit.                              *)
(***************************************************************************)
EXTENDS Integers, Sequences

Power(b, w) ==
    LET power[k \in 0 .. w] == IF k = 0 THEN 1 ELSE b * power[k - 1] IN power[w]

\* The most significant cell first; what does not fit is cut off.
CellsOfNumber(b, w, n) ==
    LET rest[k \in 0 .. w] == IF k = 0 THEN n ELSE rest[k - 1] \div b
    IN  [i \in 1 .. w |-> rest[w - i] % b]
NumberOfCells(b, s) ==
    LET upto[k \in 0 .. Len(s)] == IF k = 0 THEN 0 ELSE b * upto[k - 1] + s[k]
    IN  upto[Len(s)]
Swapped(s, little) == IF little THEN [i \in 1 .. Len(s) |-> s[Len(s) + 1 - i]] ELSE s

\* What a field of w cells holds, and the field that holds n.
FieldNumber(b, s, little) == NumberOfCells(b, Swapped(s, little))
FieldCells(b, n, w, little) == Swapped(CellsOfNumber(b, w, n), little)

\* A negative number is held as its complement.
Complement(b, n, w) == IF n < 0 THEN n + Power(b, w) ELSE n
InRange(b, n, w, signed) ==
    IF signed THEN -Power(b, w) <= 2 * n /\ 2 * n < Power(b, w)
    ELSE 0 <= n /\ n < Power(b, w)

\* struct.unpack and struct.pack of one integer of w bytes.
Unpack(s, signed, little) ==
    LET u == FieldNumber(256, s, little)
    IN  IF signed /\ 2 * u >= Power(256, Len(s)) THEN u - Power(256, Len(s)) ELSE u
BugBigEndian(n, w, little) == FieldCells(256, Complement(256, n, w), w, FALSE)
Pack(n, w, little) == FieldCells(256, Complement(256, n, w), w, little)

\* Every "bit" is a byte 0 or 1, the most significant first.
int_to_bin(n, width) == CellsOfNumber(2, width, Complement(2, n, width))
bin_to_int(bits, signed) ==
    LET u == NumberOfCells(2, bits)
    IN  IF signed /\ Head(bits) = 1 THEN u - Power(2, Len(bits)) ELSE u
=============================================================================
