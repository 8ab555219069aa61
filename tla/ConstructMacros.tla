-------------------------- MODULE ConstructMacros ---------------------------
(***************************************************************************)
(* The formats one writes with the construct library: fields, arrays,      *)
(* mappings, strings and conditions put together from the classes of       *)
(* ConstructCore (elftools/construct/macros.py).  A dict is a sequence of  *)
(* pairs, because the order of its entries decides what a reversed dict    *)
(* holds.                                                                  *)
(***************************************************************************)
EXTENDS ConstructCore

\* A length is a number, or a function of the context (a tuple).
Fixed(n) == <<"fixed", n>>
Field(name, length) ==
    IF length[1] = "fixed" THEN StaticField(name, length[2]) ELSE MetaField(name, length)

BitField(name, width, swapped, signed, bytesize) ==
    AdapterOf("bitint", StaticField(name, width))
    @@ [width |-> width, swapped |-> swapped, signed |-> signed, bytesize |-> bytesize]
Bit(name) == BitField(name, 1, FALSE, FALSE, 8)
Nibble(name) == BitField(name, 4, FALSE, FALSE, 8)
Octet(name) == BitField(name, 8, FALSE, FALSE, 8)

Padding(length, pattern, strict) ==
    AdapterOf("padding", Field(NoName, length)) @@ [pattern |-> pattern, strict |-> strict]

\* Integers of w bytes: big, little and native (little) endian, without and
\* with sign.
UBInt(name, w) == FormatField(name, w, FALSE, FALSE)
SBInt(name, w) == FormatField(name, w, TRUE, FALSE)
ULInt(name, w) == FormatField(name, w, FALSE, TRUE)
SLInt(name, w) == FormatField(name, w, TRUE, TRUE)
NInt(name, w, signed) == FormatField(name, w, signed, TRUE)
UBInt24(name) == UBInt(name, 3)
ULInt24(name) == ULInt(name, 3)

------------------------------------------------------------------------------
(* arrays *)

Array(count, sub) ==
    IF count[1] = "fixed"
    THEN WithFlags(MetaArray(<<"const", IntV(count[2])>>, sub), {}, {"DYNAMIC"})
    ELSE MetaArray(count, sub)
PrefixedArray(sub, length_field) ==
    AdapterOf("lengthvalue", SequenceOf(sub.name,
        <<length_field, Array(<<"key", length_field.name>>, sub)>>, FALSE))
OpenRange(min, sub) == RangeOf(min, MaxSize, sub)
GreedyRange(sub) == OpenRange(1, sub)
OptionalGreedyRange(sub) == OpenRange(0, sub)

------------------------------------------------------------------------------
(* around an inner construct *)

Optional(sub) == SelectFrom(sub.name, <<sub, Pass>>, FALSE)

BitwiseOver(sub) == Subconstruct("Bitwise", sub)

Indexing(sub, index) == AdapterOf("indexing", sub) @@ [index |-> index]
SeqOfOne(name, subs, nested) == Indexing(SequenceOf(name, subs, nested), 0)
Aligned(sub, modulus, pattern) ==
    SeqOfOne(sub.name, <<sub, Padding(<<"pad", sub, modulus>>, pattern, FALSE)>>, FALSE)
Embedded(sub) == Reconfig(sub.name, sub, {"EMBED"}, {})
Rename(name, sub) == Reconfig(name, sub, {}, {})
Alias(new, old) == ValueOf(new, <<"key", old>>)

------------------------------------------------------------------------------
(* mappings *)

SymmetricMapping(sub, pairs, default) ==
    AdapterOf("mapping", sub)
    @@ [encoding |-> FoldLeft(LAMBDA f, p : (p[1] :> p[2]) @@ f, <<>>, pairs),
        decoding |-> FoldLeft(LAMBDA f, p : (p[2] :> p[1]) @@ f, <<>>, pairs),
        encdefault |-> default, decdefault |-> default]
Enum(sub, pairs, default) ==
    SymmetricMapping(sub, [i \in DOMAIN pairs |-> <<NameV(pairs[i][1]), IntV(pairs[i][2])>>], default)
FlagsEnum(sub, values) == AdapterOf("flags", sub) @@ [flagbits |-> values]
Flag(name) ==
    SymmetricMapping(StaticField(name, 1),
        <<<<BoolV(TRUE), BytesV(<<1>>)>>, <<BoolV(FALSE), BytesV(<<0>>)>>>>, BoolV(FALSE))

------------------------------------------------------------------------------
(* structures and strings *)

AlignedStruct(name, subs, modulus, pattern) ==
    StructOf(name, [i \in DOMAIN subs |-> Aligned(subs[i], modulus, pattern)], TRUE)
BitStruct(name, subs) == BitwiseOver(StructOf(name, subs, TRUE))
EmbeddedBitStruct(subs) == BitwiseOver(Embedded(StructOf(NoName, subs, TRUE)))

\* A padchar of -1 stands for None.
String(name, length, encoding, padchar, paddir, trimdir) ==
    LET con == AdapterOf("string", Field(name, length)) @@ [encoding |-> encoding]
    IN  IF padchar = -1 THEN con
        ELSE AdapterOf("padded", con)
             @@ [padchar |-> padchar, paddir |-> paddir, trimdir |-> trimdir]
PascalString(name, length_field, encoding) ==
    AdapterOf("string", AdapterOf("lengthvalue", SequenceOf(name,
        <<length_field, MetaField("data", <<"key", length_field.name>>)>>, TRUE)))
    @@ [encoding |-> encoding]
CString(name, terminators, encoding) ==
    Rename(name, AdapterOf("cstring",
        RepeatUntil(<<"in", {BytesV(<<terminators[i]>>) : i \in DOMAIN terminators}>>,
                    StaticField(NoName, 1)))
        @@ [terminators |-> terminators, encoding |-> encoding])

------------------------------------------------------------------------------
(* conditions and pointers *)

IfThenElse(name, pred, then, else) ==
    SwitchOn(name, pred, BoolV(TRUE) :> then @@ BoolV(FALSE) :> else, NoDefault, FALSE)
If(pred, sub, elsevalue) ==
    IfThenElse(sub.name, pred, sub, ValueOf("elsevalue", <<"const", elsevalue>>))
OnDemandPointer(fun, sub, force) == OnDemand(Pointer(fun, sub), FALSE, force)
Magic(data) == AdapterOf("const", StaticField(NoName, Len(data))) @@ [value |-> BytesV(data)]

\* Classes of adapters.py that no macro wraps.
OneOf(sub, values) == AdapterOf("validator", sub) @@ [values |-> values, wanted |-> TRUE]
NoneOf(sub, values) == AdapterOf("validator", sub) @@ [values |-> values, wanted |-> FALSE]
Slicing(sub, start, stop) == AdapterOf("slicing", sub) @@ [start |-> start, stop |-> stop]
Tunnel(sub, inner) == AdapterOf("tunnel", sub) @@ [inner |-> inner]
Scaled(sub, factor) == AdapterOf("expr", sub) @@ [factor |-> factor]
=============================================================================
