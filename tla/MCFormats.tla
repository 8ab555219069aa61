------------------------------ MODULE MCFormats ------------------------------
(* Instances of ConstructUse for TLC: formats and the bytes they are given.  *)
EXTENDS ConstructUse

MCBindings == [tree |-> StructOf("node",
    <<UBInt("n", 1), Array(<<"key", "n">>, LazyBound("kid", "tree"))>>, TRUE)]

\* Every way to change one byte of a sample.
Changed(s) == {[s EXCEPT ![i] = b] : i \in DOMAIN s, b \in {0, 1, 2, 128, 255}}
Ones(n) == [i \in 1..n |-> 1]
Strings(alphabet, n) == UNION {[1..k -> alphabet] : k \in 0..n}

------------------------------------------------------------------------------
(* ELF and EHABI *)

Elf(little, class, machine, etype, osabi) ==
    [little |-> little, class |-> class, machine |-> machine, etype |-> etype, osabi |-> osabi]
Targets == <<Elf(TRUE, 32, "EM_ARM", "ET_DYN", "none"), Elf(FALSE, 64, "EM_MIPS", "ET_CORE", "none"),
             Elf(TRUE, 64, "EM_X86_64", "ET_DYN", "ELFOSABI_SOLARIS")>>
Samples(name) ==
    CASE name = "Elf_Prop" -> {<<1, 1, 7, 0, 0>>, <<2, 3, 9, 9, 9, 0>>, <<192, 1, 5, 0>>}
      [] name = "Elf_Nt_File" -> {<<1, 0, 1, 2, 3, 0, 65, 0, 66>>, <<0, 1, 0, 9, 0, 1, 0, 2, 0, 3, 65, 0>>}
      [] name \in {"Elf_Hash", "Gnu_Hash"} -> {<<2, 1, 1, 4, 5, 6, 7, 8, 9>>}
      [] name \in {"Elf_debugaltlink", "Elf_Attr_Subsection"} -> {<<65, 66, 0, 1, 2, 3, 4, 5>>}
      [] name \in {"Elf_Arm_Attribute_Tag", "Elf_RiscV_Attribute_Tag"} -> {<<133, 0, 1>>}
      [] OTHER -> {Ones(28)}
ElfIds == {"elf"} \X (DOMAIN Targets) \X ElfStructNames

------------------------------------------------------------------------------
(* DWARF *)

Dwarf(little, format, size, version) ==
    [little |-> little, format |-> format, address_size |-> size, version |-> version]
DwarfTargets == <<Dwarf(TRUE, 32, 1, 5), Dwarf(FALSE, 64, 2, 2)>>
\* unit_length, version and what follows; the last ones have a 64-bit length.
DwarfSamples(name) ==
    CASE name = "CU_header" -> {<<9, 5, 4, 1, 7, 8, 9, 1, 2, 3>>, <<255, 0, 9, 5, 2, 1, 7, 0, 8, 9, 1, 2>>}
      [] name = "abbrev" -> {<<17, 1, 1, 8, 3, 33, 127, 0, 0>>}
      [] name = "lineprog" ->
            {<<9, 5, 4, 0, 6, 1, 1, 1, 251, 14, 2, 9, 1, 1, 8, 1, 65, 0, 1, 1, 15, 1, 3>>,
             <<9, 5, 4, 0, 6, 1, 1, 1, 251, 14, 1, 1, 1, 33, 1, 65, 0, 0, 0>>,
             <<9, 3, 6, 1, 1, 251, 14, 2, 9, 65, 0, 0, 66, 0, 1, 2, 3, 0>>,
             <<9, 5, 4, 0, 0, 6, 1, 1, 1, 251, 14, 1, 1, 1, 24, 1, 2, 7, 7, 1, 1, 13, 1, 127>>}
      [] name = "file_entry" -> {<<65, 0, 1, 2, 3>>}
      [] name = "CIE" -> {<<9, 0, 4, 122, 0, 4, 0, 1, 124, 16>>, <<9, 0, 0, 1, 0, 1, 124, 16, 1>>}
      [] name \in {"loclists", "rnglists"} ->
            {<<k, 1, 2, 1, 9, 0, 0>> : k \in 0..8} \cup {<<k, 1, 2, 1, 1, 1, 9, 0>> : k \in 4..8}
      [] name \in {"debuglink", "debugsup"} -> {<<65, 66, 0, 0, 1, 2>>, <<1, 65, 66, 67, 0, 5>>}
      [] OTHER -> {Ones(16), <<255>> \o Ones(20)}
DwarfIds == {"dwarf"} \X (DOMAIN DwarfTargets) \X DwarfStructNames

------------------------------------------------------------------------------
(* the rest of the library: the classes and macros that no format above uses *)

x(name) == UBInt(name, 1)
\* Part stands for OnDemand, or for the construct itself.  The context of the
\* second one has what it needs only later, that of the third has changed.
LazyExample(n, Part(_, _)) ==
    LET Counted(key) == Part(Array(<<"key", key>>, x("v")), FALSE)
    IN  StructOf("s",
            CASE n = 1 -> <<x("a"), Counted("a"), x("b")>>
              [] n = 2 -> <<x("a"), Counted("b"), x("b")>>
              [] n = 3 -> <<x("a"), Counted("a"), x("a")>>
              [] n = 4 -> <<x("a"), Part(ULInt("v", 2), TRUE), x("b")>>
              [] n = 5 -> <<x("a"), Part(ULInt("v", 2), FALSE), x("b")>>, TRUE)
LazyFormat(n) == LazyExample(n, LAMBDA sub, advance : OnDemand(sub, advance, TRUE))
EagerFormat(n) == LazyExample(n, LAMBDA sub, advance : sub)
Short == Strings({0, 1, 2, 65}, 4)
LibraryFormat(n) ==
    CASE n = 1 -> StructOf("s", <<x("a"), Embedded(StructOf("in", <<x("b"), x("c")>>, TRUE))>>, TRUE)
      [] n = 2 -> SequenceOf("q", <<x("a"), Embedded(SequenceOf("in", <<x("b"), x("c")>>, TRUE))>>, TRUE)
      [] n = 3 -> BitStruct("bs", <<Nibble("hi"), Flag("f"), Padding(Fixed(3), 0, FALSE)>>)
      [] n = 4 -> BitStruct("bs", <<BitField("n", 16, TRUE, TRUE, 8), Octet("o")>>)
      [] n = 5 -> StructOf("s", <<EmbeddedBitStruct(<<Bit("a"), BitField("c", 7, FALSE, TRUE, 8)>>)>>, TRUE)
      [] n = 6 -> BitStruct("bits", <<BitField("n", 8, FALSE, FALSE, 8), GreedyRange(Bit("more"))>>)
      [] n = 7 -> FlagsEnum(x("fl"), [one |-> 1, two |-> 2])
      [] n = 8 -> AlignedStruct("al", <<x("a"), SBInt("b", 2)>>, 2, 0)
      [] n = 9 -> Magic(<<1, 2>>)
      [] n = 10 -> Padding(Fixed(2), 0, TRUE)
      [] n = 11 -> String("st", Fixed(3), "ascii", 0, "right", "right")
      [] n = 12 -> String("st", Fixed(3), "", 65, "left", "left")
      [] n = 13 -> String("st", Fixed(2), "", 65, "center", "right")
      [] n = 14 -> PascalString("p", x("length"), "ascii")
      [] n = 15 -> CString("c", <<0, 1>>, "ascii")
      [] n = 16 -> PrefixedArray(x("e"), x("length"))
      [] n = 17 -> GreedyRange(ULInt("e", 2)) [] n = 18 -> OptionalGreedyRange(Magic(<<1>>))
      [] n = 19 -> RangeOf(1, 2, x("e"))
      [] n = 20 -> RepeatUntil(<<"in", {IntV(0)}>>, Reconfig("e", x("e"), {"COPY"}, {}))
      [] n = 21 -> StructOf("s", <<Optional(SLInt("o", 2)), x("z")>>, TRUE)
      [] n = 22 -> SelectFrom("sel", <<Magic(<<1, 1>>), x("any")>>, TRUE)
      [] n = 23 -> SwitchOn("sw", <<"const", IntV(1)>>, IntV(1) :> x("one"), NoDefault, TRUE)
      [] n = 24 -> StructOf("s", <<x("a"), IfThenElse("b", <<"eq", "a", IntV(1)>>, x("t"), ULInt24("e"))>>, TRUE)
      [] n = 25 -> StructOf("s", <<x("a"), If(<<"nonempty", "gone">>, x("b"), NoneV)>>, TRUE)
      [] n = 26 -> StructOf("s", <<x("a"), Pointer(<<"key", "a">>, x("p")), x("b")>>, TRUE)
      [] n = 27 -> UnionOf("u", ULInt("m", 2), <<UBInt("b", 2), NInt("c", 1, TRUE)>>)
      [] n = 28 -> StructOf("s", <<PeekOf(x("next"), FALSE), AnchorAt("here"), x("a")>>, TRUE)
      [] n = 29 -> LazyBound("root", "tree")
      [] n = 30 -> StructOf("s", <<x("a"), Terminator>>, TRUE)
      [] n = 31 -> OneOf(x("v"), {IntV(1), IntV(2)}) [] n = 32 -> NoneOf(x("v"), {IntV(0)})
      [] n = 33 -> Tunnel(Field("t", Fixed(2)), StructOf("in", <<x("a"), x("b")>>, TRUE))
      [] n = 34 -> Scaled(x("v"), 2) [] n = 35 -> UBInt24("v") [] n = 36 -> Rename("w", x("v"))
      [] n = 37 -> RepeatUntil(<<"in", {IntV(0)}>>, x("e"))
      [] n = 38 -> Slicing(Array(Fixed(3), x("v")), 1, 3)
      [] n = 39 -> Slicing(Array(Fixed(3), x("v")), -1, -1)
      [] n = 40 -> Indexing(SequenceOf("q", <<x("a"), x("b")>>, TRUE), 1)
LibraryIds == {"library"} \X (1..40) \X {"sample"}
LazyIds == {"lazy"} \X (1..5) \X {"sample"}

------------------------------------------------------------------------------

MCFormatIds == ElfIds \cup DwarfIds \cup LibraryIds \cup LazyIds
MCFileFormats == ElfIds \cup DwarfIds
MCLazyFormats == LazyIds
MCWhat == [id \in MCFormatIds |->
    CASE id[1] = "elf" -> ElfStruct(Targets[id[2]], id[3])
      [] id[1] = "dwarf" -> DwarfStruct(DwarfTargets[id[2]], id[3])
      [] id[1] = "library" -> LibraryFormat(id[2])
      [] id[1] = "lazy" -> LazyFormat(id[2])]
MCEager == [id \in MCFormatIds |->
    IF id \in MCLazyFormats THEN EagerFormat(id[2]) ELSE MCWhat[id]]
MCInputs == [id \in MCFormatIds |->
    CASE id[1] = "elf" -> UNION {Changed(s) : s \in Samples(id[3])}
      [] id[1] = "dwarf" -> UNION {Changed(s) : s \in DwarfSamples(id[3])}
      [] OTHER -> Short]
=============================================================================
