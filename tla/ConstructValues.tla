-------------------------- MODULE ConstructValues ---------------------------
(***************************************************************************)
(* The data the construct library of pyelftools works on: Python values,   *)
(* streams of bytes, the functions of a context that a format may contain, *)
(* and the adapters, which convert a parsed value and back                 *)
(* (elftools/construct/core.py, adapters.py, lib/binary.py).               *)
(*                                                                         *)
(* A Python value is a pair of a tag and a payload, so that values of      *)
(* different types can be compared.  A call in progress is a record m:     *)
(* the stream (data, pos), the context, the value just returned (val) and  *)
(* the exception just raised (err, "" for none).                           *)
(***************************************************************************)
EXTENDS FixedWidth, FiniteSets, SequencesExt, TLC, Bitwise

NoneV == <<"none", 0>>
IntV(n) == <<"int", n>>
BytesV(s) == <<"bytes", s>>       \* a Python bytes: sequence of 0..255
TextV(s) == <<"text", s>>         \* a Python str: sequence of code points
ListV(s) == <<"list", s>>
ContV(f) == <<"cont", f>>         \* a Container: function from names to values
NameV(s) == <<"name", s>>         \* a str used as an enumeration constant
BoolV(b) == <<"bool", b>>

\* The exceptions below ConstructError; any other one (TypeError, KeyError,
\* ValueError, ...) passes through the handlers of the library.
AdaptationErrors == {"AdaptationError", "BitIntegerError", "MappingError",
                     "ConstError", "ValidationError", "PaddingError"}
ConstructErrors == AdaptationErrors \cup
    {"ConstructError", "FieldError", "SizeofError", "ArrayError", "RangeError", "SwitchError",
     "SelectError", "TerminatorError"}

Call(data, ctx) == [data |-> data, pos |-> 0, bits |-> FALSE, ctx |-> ctx,
                    val |-> NoneV, err |-> ""]
Returned(m, v) == [m EXCEPT !.val = v]
Raised(m, e) == [m EXCEPT !.err = e]
Failed(m) == m.err # ""

Smaller(a, b) == IF a < b THEN a ELSE b
Larger(a, b) == IF a > b THEN a ELSE b

------------------------------------------------------------------------------
(* lib/container.py *)

\* Container.__contains__, __getitem__, __setitem__ and __delitem__.
Has(ctx, name) == name \in DOMAIN ctx
Put(ctx, name, v) == (name :> v) @@ ctx
Without(ctx, name) == [n \in DOMAIN ctx \ {name} |-> ctx[n]]

\* Container.update: the entries of the other one win.
Updated(ctx, other) == other @@ ctx

\* LazyContainer: what is needed to parse later.  Its context is shared with the
\* structure that is being parsed, and known when that is complete (BindLazy).
LazyV(sub, m) == <<"lazy", [sub |-> sub, data |-> m.data, pos |-> m.pos, ctx |-> "open",
                            has_value |-> FALSE]>>

------------------------------------------------------------------------------
(* streams: BytesIO, the bit reader and writer, _read_stream, _write_stream *)

BytesAt(m, n) == SubSeq(m.data, m.pos + 1, Smaller(m.pos + n, Len(m.data)))

\* BitStreamReader.read: its buffer starts as the str "", which cannot take
\* the bytes of encode_bin: the first bit asked for raises TypeError, after
\* the whole bytes were taken from the stream below.
BitReaderRead(m, n) ==
    LET got == BytesAt(m, (n + 7) \div 8)
    IN  IF n = 0 THEN Returned(m, BytesV(<<>>))
        ELSE Raised([m EXCEPT !.pos = @ + Len(got)], "TypeError")

\* BitStreamWriter.write: nothing is a no-op, and bytes are not a str.
BitWriterWrite(m, s) == IF s = <<>> THEN m ELSE Raised(m, "TypeError")

ReadStream(m, n) ==
    LET got == BytesAt(m, n)
        after == [m EXCEPT !.pos = @ + Len(got), !.val = BytesV(got)]
    IN  IF n < 0 THEN Raised(m, "ValueError")
        ELSE IF m.bits THEN BitReaderRead(m, n)
        ELSE IF Len(got) # n THEN Raised(after, "FieldError")
        ELSE after

\* BytesIO.write at the position: overwrites, and fills a gap with zeros.
WriteAt(m, s) ==
    LET end == m.pos + Len(s)
        Byte(i) == IF i > m.pos /\ i <= end THEN s[i - m.pos]
                   ELSE IF i <= Len(m.data) THEN m.data[i] ELSE 0
    IN  IF s = <<>> THEN m
        ELSE [m EXCEPT !.data = [i \in 1..Larger(Len(m.data), end) |-> Byte(i)],
                       !.pos = end]

WriteStream(m, n, v) ==
    IF n < 0 THEN Raised(m, "ValueError")
    ELSE IF v[1] \notin {"bytes", "text", "list", "cont"} THEN Raised(m, "TypeError")
    ELSE IF Cardinality(DOMAIN v[2]) # n THEN Raised(m, "FieldError")
    ELSE IF v[1] # "bytes" THEN Raised(m, "TypeError")
    ELSE IF m.bits THEN BitWriterWrite(m, v[2])
    ELSE WriteAt(m, v[2])

------------------------------------------------------------------------------
(* lib/binary.py *)

\* Groups of bytesize elements in the opposite order; a last group that is not
\* full comes first.
swap_bytes(bits, bytesize) ==
    LET groups == (Len(bits) + bytesize - 1) \div bytesize
        Group(k) == SubSeq(bits, (k - 1) * bytesize + 1, Smaller(k * bytesize, Len(bits)))
    IN  FlattenSeq([k \in 1..groups |-> Group(groups + 1 - k)])

encode_bin(data) == FlattenSeq([i \in 1..Len(data) |-> int_to_bin(data[i], 8)])
decode_bin(bits) ==
    [k \in 1..(Len(bits) \div 8) |-> bin_to_int(SubSeq(bits, 8 * k - 7, 8 * k), FALSE)]

------------------------------------------------------------------------------
(* adapters.py: Decode is applied to what the inner construct parsed, Encode   *)
(* to what it shall build.  size is the size of the inner construct.           *)

BitIntegerDecode(c, m) ==
    LET bits == IF c.swapped THEN swap_bytes(m.val[2], c.bytesize) ELSE m.val[2]
    IN  Returned(m, IntV(bin_to_int(bits, c.signed)))
BitIntegerEncode(c, obj, m) ==
    LET bits == int_to_bin(obj[2], c.width)
    IN  IF obj[1] # "int" THEN Raised(m, "TypeError")
        ELSE IF obj[2] < 0 /\ ~c.signed THEN Raised(m, "BitIntegerError")
        ELSE Returned(m, BytesV(IF c.swapped THEN swap_bytes(bits, c.bytesize) ELSE bits))

\* A default of NotImplemented is "raise", one of Pass is "pass".
Mapped(table, default, obj, m) ==
    IF obj \in DOMAIN table THEN Returned(m, table[obj])
    ELSE IF default = <<"raise">> THEN Raised(m, "MappingError")
    ELSE IF default = <<"pass">> THEN Returned(m, obj)
    ELSE Returned(m, default)
MappingDecode(c, m) == Mapped(c.decoding, c.decdefault, m.val, m)
MappingEncode(c, obj, m) == Mapped(c.encoding, c.encdefault, obj, m)

FlagsDecode(c, m) ==
    Returned(m, ContV([f \in DOMAIN c.flagbits |-> BoolV((m.val[2] & c.flagbits[f]) # 0)]))
FlagsEncode(c, obj, m) ==
    LET on == {f \in DOMAIN c.flagbits : /\ obj[1] = "cont"
                                        /\ f \in DOMAIN obj[2]
                                        /\ obj[2][f] = BoolV(TRUE)}
    IN  Returned(m, IntV(FoldSet(LAMBDA f, n : n | c.flagbits[f], 0, on)))

\* An encoding of "" returns the bytes; the only other one here is "ascii".
StringDecode(c, m) ==
    IF c.encoding = "" THEN m
    ELSE IF \E i \in DOMAIN m.val[2] : m.val[2][i] > 127
         THEN Raised(m, "UnicodeDecodeError")
         ELSE Returned(m, TextV(m.val[2]))
StringEncode(c, obj, m) ==
    IF c.encoding = "" THEN Returned(m, obj)
    ELSE IF obj[1] # "text" THEN Raised(m, "AttributeError")
    ELSE Returned(m, BytesV(obj[2]))

RECURSIVE StripLeft(_, _)
StripLeft(s, pad) == IF s # <<>> /\ Head(s) = pad THEN StripLeft(Tail(s), pad) ELSE s
StripRight(s, pad) == Reverse(StripLeft(Reverse(s), pad))
Pads(n, pad) == [i \in 1..Larger(n, 0) |-> pad]

PaddedStringDecode(c, m) ==
    LET s == m.val[2]
        t == CASE c.paddir = "right" -> StripRight(s, c.padchar)
               [] c.paddir = "left" -> StripLeft(s, c.padchar)
               [] OTHER -> StripLeft(StripRight(s, c.padchar), c.padchar)
    IN  Returned(m, <<m.val[1], t>>)
\* bytes.center puts the odd pad on the left when both the number of pads and
\* the width are odd, on the right otherwise.
Centred(s, size, pad) ==
    LET n == Larger(size - Len(s), 0)
        left == n \div 2 + (IF n % 2 = 1 /\ size % 2 = 1 THEN 1 ELSE 0)
    IN  Pads(left, pad) \o s \o Pads(n - left, pad)
PaddedStringEncode(c, obj, m, size) ==
    LET s == obj[2]
        t == CASE c.paddir = "right" -> s \o Pads(size - Len(s), c.padchar)
               [] c.paddir = "left" -> Pads(size - Len(s), c.padchar) \o s
               [] OTHER -> Centred(s, size, c.padchar)
    IN  IF obj[1] \notin {"bytes", "text"} THEN Raised(m, "AttributeError")
        ELSE Returned(m, <<obj[1], IF c.trimdir = "right" THEN SubSeq(t, 1, size)
                                   ELSE IF size = 0 THEN t   \* obj[-0:] is obj
                                   ELSE SubSeq(t, Len(t) - size + 1, Len(t))>>)

LengthValueDecode(m) == Returned(m, m.val[2][2])
LengthValueEncode(obj, m) ==
    IF obj[1] \notin {"bytes", "text", "list"} THEN Raised(m, "TypeError")
    ELSE Returned(m, ListV(<<IntV(Len(obj[2])), obj>>))

\* All but the terminator, joined; the first terminator is put back.
CStringDecode(c, m) ==
    LET chars == m.val[2]
    IN  StringDecode(c, Returned(m, BytesV(FlattenSeq(
            [i \in 1..(Len(chars) - 1) |-> chars[i][2]]))))
CStringEncode(c, obj, m) ==
    LET e == StringEncode(c, obj, m)
    IN  IF Failed(e) THEN e
        ELSE IF e.val[1] # "bytes" THEN Raised(e, "TypeError")
        ELSE Returned(e, BytesV(Append(e.val[2], c.terminators[1])))

\* The two functions are multiplication and division by a factor, as in the
\* example of the class.
ExprDecode(c, m) == Returned(m, IntV(m.val[2] * c.factor))
ExprEncode(c, obj, m) ==
    IF obj[1] # "int" THEN Raised(m, "TypeError")
    ELSE Returned(m, IntV(obj[2] \div c.factor))

ConstDecode(c, m) == IF m.val # c.value THEN Raised(m, "ConstError") ELSE m
ConstEncode(c, obj, m) ==
    IF obj \in {NoneV, c.value} THEN Returned(m, c.value) ELSE Raised(m, "ConstError")

\* A start or stop of -1 stands for None.
SlicingDecode(c, m) ==
    LET s == m.val[2]
    IN  Returned(m, <<m.val[1], SubSeq(s, Larger(c.start, 0) + 1,
                                   IF c.stop = -1 THEN Len(s) ELSE Smaller(c.stop, Len(s)))>>)
SlicingEncode(c, obj, m) ==
    IF c.start = -1 THEN Returned(m, obj)
    ELSE IF obj[1] # "list" THEN Raised(m, "TypeError")
    ELSE Returned(m, ListV([i \in 1..c.start |-> NoneV] \o obj[2]))

IndexingDecode(c, m) ==
    IF c.index < Len(m.val[2]) THEN Returned(m, m.val[2][c.index + 1])
    ELSE Raised(m, "IndexError")
IndexingEncode(c, obj, m) ==
    Returned(m, ListV([i \in 1..c.index |-> NoneV] \o <<obj>>))

PaddingDecode(c, m, size) ==
    IF c.strict /\ m.val # BytesV(Pads(size, c.pattern)) THEN Raised(m, "PaddingError")
    ELSE m
PaddingEncode(c, m, size) == Returned(m, BytesV(Pads(size, c.pattern)))

\* OneOf and NoneOf; both directions validate.
ValidatorDecode(c, m) ==
    IF (m.val \in c.values) = c.wanted THEN m ELSE Raised(m, "ValidationError")
=============================================================================
