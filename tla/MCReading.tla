------------------------------ MODULE MCReading -------------------------------
(* Instances of ReaderUse for TLC: files as a linker or an assembler would   *)
(* lay them out, and a few damaged ones.                                     *)
EXTENDS ReaderUse, VerdefLayout

SHDRS == 3000
NAMES == 2900
PHDRS == 64
Base == 4096     \* where the first segment is loaded

\* The records of one format that lie one after the other.
Row(format, at, step, vals) ==
    [p \in {<<format, at + step * (i - 1)>> : i \in DOMAIN vals} |->
        [v |-> vals[(p[2] - at) \div step + 1], n |-> step]]
One(format, at, n, v) == <<format, at>> :> [v |-> v, n |-> n]

Section0 == [name |-> "", sh_type |-> "SHT_NULL", sh_offset |-> 0, sh_size |-> 0, sh_link |-> 0,
             sh_info |-> 0, sh_entsize |-> 0, sh_flags |-> {}, sh_addr |-> 0]
Sec(name, type, at, size) ==
    [Section0 EXCEPT !.name = name, !.sh_type = type, !.sh_offset = at, !.sh_size = size]
\* One that is loaded, with a table of entries for a linked section.
Loaded(sec, link, entsize) ==
    [sec EXCEPT !.sh_flags = {"SHF_ALLOC"}, !.sh_addr = Base + sec.sh_offset, !.sh_link = link,
                !.sh_entsize = entsize]
Seg(type, at, size) ==
    [p_type |-> type, p_offset |-> at, p_vaddr |-> Base + at, p_filesz |-> size, p_memsz |-> size]

Sizes ==
    [Elf_Shdr |-> 8, Elf_Phdr |-> 6, Elf_Chdr |-> 3, Elf_Sym |-> 4, Elf_Dyn |-> 2, Elf_Rel |-> 2,
     Elf_Rela |-> 3, Elf_Relr |-> 1, Elf_Nhdr |-> 12, Elf_Stabs |-> 12, word |-> 4, xword |-> 8,
     addr |-> 1]
ShdrOf(sec, i) == [f \in (DOMAIN sec \ {"name"}) \cup {"sh_name"} |-> IF f = "sh_name" THEN i ELSE sec[f]]

\* A file with these sections, of which the last one holds the names.
File(secs, segs, recs, strs) ==
    LET header == [e_shoff |-> IF secs = <<>> THEN 0 ELSE SHDRS, e_shentsize |-> 8,
                   e_shnum |-> Len(secs), e_shstrndx |-> Max({Len(secs) - 1, 0}),
                   e_phoff |-> PHDRS, e_phentsize |-> 6, e_phnum |-> Len(segs),
                   e_machine |-> "EM_X86_64", e_type |-> "ET_DYN", e_flags |-> {}]
    IN  [recs |-> One("Elf_Ehdr", 0, 64, header) @@ recs
                  @@ Row("Elf_Shdr", SHDRS, 8, [i \in DOMAIN secs |-> ShdrOf(secs[i], i)])
                  @@ One("Elf_Shdr", 0, 8, ShdrOf(Section0, 0))
                  @@ Row("Elf_Phdr", PHDRS, 6, segs),
         strs |-> strs @@ [a \in {NAMES + i : i \in DOMAIN secs} |-> secs[a - NAMES].name],
         data |-> <<>>, len |-> 4000, mapped |-> 4096, ident |-> [magic |-> TRUE, class |-> 64, data |-> "little"],
         class |-> 64, little |-> TRUE, sizes |-> Sizes, spelling |-> <<>>, sups |-> <<>>,
         loader |-> None, words |-> <<>>, versions |-> <<>>, native |-> 64, truth |-> None]
Names == Sec(".shstrtab", "SHT_STRTAB", NAMES, 50)

------------------------------------------------------------------------------
(* a library: what it exports, how many hash buckets, which hash tables the  *)
(* tags name, and whether its section headers are still there                *)

Spelling == [puts |-> <<112, 117>>, fa |-> <<102, 97>>, fb |-> <<102, 98>>, gc |-> <<103, 99>>,
             hd |-> <<104, 68>>, wide |-> <<104, 119, 113, 112>>, none |-> <<110>>, ge |-> <<103, 101>>]
StringsOf == [puts |-> 1, fa |-> 2, fb |-> 3, gc |-> 4, hd |-> 5, wide |-> 6]
\* fa and fb have the same hash but for the last bit; ge, which is in no library,
\* has that of hd; the hash of wide has a carry out of the word.
ExportSets == (SUBSET {"fa", "fb", "gc", "hd"} \ {{}}) \cup {{"wide"}, {"fa", "wide"}, {"gc", "hd", "wide"}}
LibIds == {<<"lib", names, buckets, tables, headers>> :
              names \in ExportSets, buckets \in {1, 2, 3},
              tables \in {"both", "elf", "none"}, headers \in BOOLEAN}

Hashes(names) == [n \in names |-> gnu_hash(Spelling[n])]
Exports(names, buckets) ==
    LET h == Hashes(names)
    IN  SetToSortSeq(names, LAMBDA a, b : h[a] % buckets < h[b] % buckets)

\* As a linker builds them: the hash of a word's width, the chains of the one by
\* insertion, those of the other as runs of the symbol table.
LinkersHash(name) ==
    LET High(w) == w \div 2 ^ (WordBits - 4)
        Fold(w) == (w % 2 ^ (WordBits - 4)) ^^ (High(w) * 2 ^ (WordBits \div 8))
    IN  FoldLeft(LAMBDA h, c : Fold((h * 16 + c) % 2 ^ WordBits), 0, name)
ElfHashOf(syms, buckets) ==
    LET h == [i \in DOMAIN syms |-> LinkersHash(Spelling[syms[i]]) % buckets]
        InChain(b, limit) == {i \in DOMAIN syms : h[i] = b /\ i < limit}
        Latest(s) == IF s = {} THEN 0 ELSE Max(s)
    IN  [buckets |-> [b \in 1 .. buckets |-> Latest(InChain(b - 1, Len(syms) + 1))],
         chains |-> <<0>> \o [i \in DOMAIN syms |-> Latest(InChain(h[i], i))]]
GnuHashOf(exports, first, buckets) ==
    LET h == Hashes(Range(exports))
        InBucket(b) == {i \in DOMAIN exports : h[exports[i]] % buckets = b}
    IN  [symoffset |-> first, bloom_shift |-> 5,
         bloom |-> <<UNION {{h[n] % 64, (h[n] \div 32) % 64} : n \in Range(exports)}>>,
         buckets |-> [b \in 1 .. buckets |->
                         IF InBucket(b - 1) = {} THEN 0 ELSE first + Min(InBucket(b - 1)) - 1]]
ChainWords(exports, buckets) ==
    LET h == Hashes(Range(exports))
        EndsRun(i) == i = Len(exports) \/ h[exports[i + 1]] % buckets # h[exports[i]] % buckets
    IN  [i \in DOMAIN exports |-> (h[exports[i]] \div 2) * 2 + (IF EndsRun(i) THEN 1 ELSE 0)]

Tag(name, value) == [d_tag |-> name, d_val |-> value]
Library(names, buckets, tables, headers) ==
    LET exports == Exports(names, buckets)
        syms == <<"puts">> \o exports
        n == Len(syms) + 1
        entries == <<[st_name |-> 0, st_value |-> 0, st_shndx |-> "SHN_UNDEF"]>>
                   \o [i \in DOMAIN syms |-> [st_name |-> StringsOf[syms[i]], st_value |-> 10 * i,
                            st_shndx |-> IF syms[i] = "puts" THEN "SHN_UNDEF" ELSE "7"]]
        strings == 200 + 4 * n
        tags == <<Tag("DT_NEEDED", 11), Tag("DT_SONAME", 12), Tag("DT_STRTAB", Base + strings)>>
                \o (IF tables = "both" THEN <<Tag("DT_GNU_HASH", Base + 500)>> ELSE <<>>)
                \o (IF tables = "none" THEN <<>> ELSE <<Tag("DT_HASH", Base + 400)>>)
                \o <<Tag("DT_SYMTAB", Base + 200), Tag("DT_SYMENT", 4), Tag("DT_RELA", Base + 900),
                     Tag("DT_RELASZ", 6), Tag("DT_RELAENT", 3), Tag("DT_NULL", 0)>>
        dynamic == Loaded(Sec(".dynamic", "SHT_DYNAMIC", 1100, 2 * Len(tags)), 2, 2)
        secs ==
            <<Section0,
              Loaded(Sec(".dynsym", "SHT_DYNSYM", 200, 4 * n), 2, 4),
              Loaded(Sec(".dynstr", "SHT_STRTAB", strings, 40), 0, 0),
              Loaded(Sec(".hash", "SHT_HASH", 400, 16), 1, 4),
              Loaded(Sec(".gnu.hash", "SHT_GNU_HASH", 500, 40), 1, 0),
              Loaded(Sec(".gnu.version", "SHT_GNU_versym", 600, n), 1, 1),
              [Loaded(Sec(".gnu.version_d", "SHT_GNU_verdef", 700, 48), 2, 0) EXCEPT !.sh_info = 2],
              [Loaded(Sec(".gnu.version_r", "SHT_GNU_verneed", 800, 32), 2, 0) EXCEPT !.sh_info = 1],
              Loaded(Sec(".rela.dyn", "SHT_RELA", 900, 6), 1, 3),
              Loaded(Sec(".note", "SHT_NOTE", 1000, 60), 0, 0), dynamic,
              [Loaded(Sec(".bss", "SHT_NOBITS", 2000, 50), 0, 0) EXCEPT !.sh_addr = Base + 2000],
              Names>>
        recs ==
            Row("Elf_Sym", 200, 4, entries)
            @@ One("Elf_Hash", 400, 8 + 4 * (buckets + n), ElfHashOf(syms, buckets))
            @@ One("Gnu_Hash", 500, 16 + 8 + 4 * buckets, GnuHashOf(exports, 2, buckets))
            @@ Row("word", 500 + 16 + 8 + 4 * buckets, 4, ChainWords(exports, buckets))
            @@ Row("Elf_Versym", 600, 1, [i \in 1 .. n |-> [ndx |-> Min({i - 1, 2})]])
            @@ Row("Elf_Dyn", 1100, 2, tags)
            @@ One("Elf_Verdef", 700, 20, [version |-> 1, ndx |-> 1, cnt |-> 1, aux |-> 20, next |-> 28])
            @@ One("Elf_Verdaux", 720, 8, [name |-> 12, next |-> 0])
            @@ One("Elf_Verdef", 728, 20, [version |-> 1, ndx |-> 2, cnt |-> 1, aux |-> 20, next |-> 0])
            @@ One("Elf_Verdaux", 748, 8, [name |-> 13, next |-> 0])
            @@ One("Elf_Verneed", 800, 16, [file |-> 11, cnt |-> 2, aux |-> 16, next |-> 0])
            @@ One("Elf_Vernaux", 816, 16, [name |-> 14, other |-> 0, next |-> 16])
            @@ One("Elf_Vernaux", 832, 16, [name |-> 13, other |-> 3, next |-> 0])
            @@ Row("Elf_Rela", 900, 3, [i \in {1, 2} |-> [r_offset |-> i, r_info_sym |-> i,
                                               r_info_type |-> "R_X86_64_64", r_addend |-> 0]])
            @@ One("Elf_Nhdr", 1000, 12, [n_namesz |-> 4, n_descsz |-> 16, n_type |-> "NT_GNU_ABI_TAG"])
            @@ One("Elf_abi", 1016, 16, "abi")
            @@ One("Elf_Nhdr", 1032, 12, [n_namesz |-> 3, n_descsz |-> 6, n_type |-> "NT_GNU_PROPERTY_TYPE_0"])
            @@ One("Elf_Prop", 1048, 16, [pr_datasz |-> 4])
        strs == strings :> "" @@ [a \in {strings + StringsOf[s] : s \in Range(syms)} |->
                                     CHOOSE s \in Range(syms) : strings + StringsOf[s] = a]
                @@ strings + 11 :> "libc.so.6" @@ strings + 12 :> "libx.so.1"
                @@ strings + 13 :> "X_1" @@ strings + 14 :> "GLIBC_2.2" @@ 1012 :> "GNU"
                @@ 1044 :> "GNU" @@ 150 :> "/lib/ld.so"
        segs == <<Seg("PT_LOAD", 0, 1000), Seg("PT_LOAD", 1000, 1000), Seg("PT_INTERP", 150, 11),
                  Seg("PT_NOTE", 1000, 60), Seg("PT_DYNAMIC", 1100, 2 * Len(tags))>>
    IN  [File(IF headers THEN secs ELSE <<>>, segs, recs, strs) EXCEPT
            !.spelling = Spelling, !.truth = [symbols |-> <<"">> \o syms]]

------------------------------------------------------------------------------
(* version definitions as a linker writes them: every name that is a parent  *)
(* is also defined, each definition has its name first and its parent's then; *)
(* the words that follow the section are those of another                    *)

Versioned == {"GLIBCXX_A", "GLIBCXX_B", "CXXABI"}
VersionOf == [GLIBCXX_A |-> 5, GLIBCXX_B |-> 9]
NameOf == [GLIBCXX_A |-> 1, GLIBCXX_B |-> 2, CXXABI |-> 3, soname |-> 4]
Parents == {<<>>} \cup {<<n>> : n \in Versioned}
DefinitionLists ==
    {d \in UNION {[1 .. k -> Versioned \X Parents] : k \in 1 .. 3} :
        /\ \A i, j \in DOMAIN d : i # j => d[i][1] # d[j][1]
        /\ \A i \in DOMAIN d : d[i][2] # <<>> => \E j \in 1 .. i - 1 : d[j][1] = d[i][2][1]}
\* Before the versions there may be the definition of the library itself.
WithBase == {<<<<"soname", <<>>>>>> \o d : d \in {e \in DefinitionLists : Len(e) = 3}}
VerdefIds == {<<"verdef", d, other, class>> : d \in DefinitionLists \cup WithBase, other \in {7, 90000}, class \in {32, 64}}

VERDEFS == 700
Verdefs(defs, other, class) ==
    LET size(i) == 20 + 8 * (1 + Len(defs[i][2]))
        at[i \in 1 .. Len(defs) + 1] == IF i = 1 THEN VERDEFS ELSE at[i - 1] + size(i - 1)
        next(i) == IF i = Len(defs) THEN 0 ELSE size(i)
        names(i) == <<defs[i][1]>> \o defs[i][2]
        Aux(i) == [j \in DOMAIN names(i) |-> [name |-> NameOf[names(i)[j]],
                                             next |-> IF j = Len(names(i)) THEN 0 ELSE 8]]
        count(i) == Len(names(i))
        All(S, Op(_)) == FoldSet(LAMBDA x, acc : Op(x) @@ acc, <<>>, S)
        secs == <<Section0, Loaded(Sec(".dynstr", "SHT_STRTAB", 300, 40), 0, 0),
                  [Loaded(Sec(".gnu.version_d", "SHT_GNU_verdef", VERDEFS, at[Len(defs) + 1] - VERDEFS), 1, 0)
                      EXCEPT !.sh_info = Len(defs)], Names>>
        recs == All(DOMAIN defs, LAMBDA i :
                    One("Elf_Verdef", at[i], 20, [version |-> 1, ndx |-> i, cnt |-> count(i),
                                                  aux |-> 20, next |-> next(i)])
                    @@ Row("Elf_Verdaux", at[i] + 20, 8, Aux(i)))
        words == All(DOMAIN defs, LAMBDA i :
                    (at[i] :> 1) @@ (at[i] + 4 :> i + 65536 * count(i)) @@ (at[i] + 8 :> other)
                    @@ (at[i] + 12 :> 20) @@ (at[i] + 16 :> next(i))
                    @@ All(DOMAIN Aux(i), LAMBDA j :
                           (at[i] + 12 + 8 * j :> Aux(i)[j].name) @@ (at[i] + 16 + 8 * j :> Aux(i)[j].next)))
                 @@ [a \in {at[Len(defs) + 1] + 4 * k : k \in 0 .. 20} |-> other]
    IN  [File(secs, <<>>, recs, 300 :> "" @@ [a \in {300 + NameOf[n] : n \in DOMAIN NameOf} |->
                  CHOOSE n \in DOMAIN NameOf : 300 + NameOf[n] = a]) EXCEPT
            !.words = words, !.versions = VersionOf, !.ident.class = class]

\* How such a section is described, for what is said of all of them.
Described(f, defs) ==
    LET at[i \in DOMAIN defs] == IF i = 1 THEN VERDEFS ELSE at[i - 1] + 28 + 8 * Len(defs[i - 1][2])
        first(i) == at[i] + 20
    IN  [i \in DOMAIN defs |->
            [at |-> at[i], aux |-> <<first(i)>> \o [k \in DOMAIN defs[i][2] |-> first(i) + 8],
             read |-> <<first(i)>> \o [k \in DOMAIN defs[i][2] |-> first(i) + 64]]]

------------------------------------------------------------------------------
(* compact relocations of a set of addresses, and object files               *)

RECURSIVE Compact(_, _)
Compact(A, base) ==
    LET window == IF base = None THEN {} ELSE A \cap base[1] .. base[1] + 6
        low == Min(A)
    IN  IF A = {} THEN <<>>
        ELSE IF window # {}
             THEN <<1 + FoldSet(LAMBDA a, n : n + 2 ^ (a - base[1] + 1), 0, window)>>
                  \o Compact(A \ window, <<base[1] + 7>>)
        ELSE <<low>> \o Compact(A \ {low}, <<low + 1>>)
RelrIds == {<<"relr", A>> : A \in {B \in SUBSET {10, 11, 13, 17, 18, 24, 40, 46} :
                                   /\ B # {}
                                   /\ B \cap {11, 13, 17} # {} => 10 \in B}}
CompactFile(A) ==
    LET words == Compact(A, None)
        secs == <<Section0, Loaded(Sec(".relr.dyn", "SHT_RELR", 950, Len(words)), 0, 1), Names>>
    IN  [File(secs, <<>>, Row("Elf_Relr", 950, 1, [i \in DOMAIN words |-> [r_offset |-> words[i]]]),
              <<>>) EXCEPT !.truth = [relr |-> A]]

Reloc(at, sym, type, addend) ==
    [r_offset |-> at, r_info_sym |-> sym, r_info_type |-> type, r_addend |-> addend]
Plain(rel) == [r_offset |-> rel.r_offset, r_info_sym |-> rel.r_info_sym, r_info_type |-> rel.r_info_type]
\* Machine, section type, places a relocation of each type may have.
Objects == [EM_X86_64 |-> <<"SHT_RELA", {"R_X86_64_64", "R_X86_64_PC32", "R_X86_64_32", "R_X86_64_X"}>>,
            EM_386 |-> <<"SHT_REL", {"R_386_32", "R_386_PC32"}>>,
            EM_ARM |-> <<"SHT_REL", {"R_ARM_ABS32"}>>,
            EM_LOONGARCH |-> <<"SHT_RELA", {"R_LARCH_64", "R_LARCH_32"}>>,
            EM_S390 |-> <<"SHT_RELA", {"R_390_64", "R_390_32"}>>]
ObjIds == {<<"obj", machine, types, little, addend>> :
              machine \in DOMAIN Objects, types \in {<<i, j>> : i, j \in 1 .. 4},
              little \in BOOLEAN, addend \in {-3, 3, 70000}}
Object2(machine, types, little, addend) ==
    LET kinds == SetToSeq(Objects[machine][2])
        Type(i) == kinds[((types[i] - 1) % Len(kinds)) + 1]
        rela == Objects[machine][1] = "SHT_RELA"
        relocs == <<Reloc(1, 1, Type(1), addend), Reloc(9, types[2] % 3, Type(2), addend)>>
        secs == <<Section0, Sec(".debug_info", "SHT_PROGBITS", 400, 17),
                  [Sec(IF rela THEN ".rela.debug_info" ELSE ".rel.debug_info", Objects[machine][1], 500,
                       IF rela THEN 6 ELSE 4) EXCEPT !.sh_link = 3, !.sh_entsize = IF rela THEN 3 ELSE 2],
                  [Sec(".symtab", "SHT_SYMTAB", 600, 8) EXCEPT !.sh_link = 4, !.sh_entsize = 4],
                  Sec(".strtab", "SHT_STRTAB", 700, 8), Names>>
        f == File(secs, <<>>,
                  (IF rela THEN Row("Elf_Rela", 500, 3, relocs)
                   ELSE Row("Elf_Rel", 500, 2, [i \in DOMAIN relocs |-> Plain(relocs[i])]))
                  @@ Row("Elf_Sym", 600, 4, <<[st_name |-> 0, st_value |-> 0, st_shndx |-> "SHN_UNDEF"],
                                              [st_name |-> 1, st_value |-> 250, st_shndx |-> "1"]>>),
                  700 :> "" @@ 701 :> "local")
    IN  [f EXCEPT !.recs[<<"Elf_Ehdr", 0>>].v.e_machine = machine,
                  !.recs[<<"Elf_Ehdr", 0>>].v.e_type = "ET_REL", !.little = little,
                  !.data = 400 :> [i \in 1 .. 17 |-> i % 4]]

------------------------------------------------------------------------------
(* a file with the rarer sections, and one whose tables end too early        *)

Holder(level, label, at, start, end) ==
    [level |-> level, item |-> [label |-> label, at |-> at, start |-> start, end |-> end]]
Value(tag, value, extra) == [tag |-> tag, value |-> value, extra |-> extra]
Holding(values) == [i \in DOMAIN values |-> [level |-> "attribute", item |-> values[i]]]
\* Two subsections, of which the first holds two subsubsections, from 1201 on.
AttributesThere ==
    <<Holder("subsection", "aeabi", 1201, 1206, 1235), Holder("subsubsection", "TAG_FILE", 1206, 1211, 1226)>>
    \o Holding(<<Value("TAG_CPU_ARCH", 10, <<>>), Value("TAG_CPU_NAME", "cpu", <<>>),
                 Value("TAG_ALSO_COMPATIBLE_WITH", Value("TAG_CPU_ARCH", 11, <<>>), <<>>),
                 Value("TAG_COMPATIBILITY", 1, <<"g">>)>>)
    \o <<Holder("subsubsection", "TAG_SECTION", 1226, 1233, 1235)>>
    \o Holding(<<Value("TAG_CPU_ARCH", 12, <<>>)>>)
    \o <<Holder("subsection", "gnu", 1235, 1240, 1249), Holder("subsubsection", "TAG_FILE", 1240, 1245, 1249)>>
    \o Holding(<<Value("TAG_CPU_ARCH", 13, <<>>), Value("TAG_CPU_NAME", "", <<>>)>>)
Rare(sizes_right) ==
    LET secs ==
            <<Section0,
              Sec(".ARM.attributes", "SHT_ARM_ATTRIBUTES", 1200, 49), Sec(".stab", "SHT_PROGBITS", 1300, 24),
              [Sec(".symtab", "SHT_SYMTAB", 600, IF sizes_right THEN 12 ELSE 16) EXCEPT !.sh_link = 4,
                                                                                !.sh_entsize = 4],
              Sec(".strtab", "SHT_STRTAB", 700, 8),
              [Sec(".symtab_shndx", "SHT_SYMTAB_SHNDX", 800, 12) EXCEPT !.sh_link = 3, !.sh_entsize = 4],
              [Sec(".SUNW_syminfo", "SHT_SUNW_syminfo", 900, 3) EXCEPT !.sh_link = 3, !.sh_entsize = 1],
              [Sec(".relr.dyn", "SHT_RELR", 950, 2) EXCEPT !.sh_entsize = 1],
              [Sec(".debug_info", "SHT_PROGBITS", 400, 9) EXCEPT !.sh_flags = {"SHF_COMPRESSED"}],
              Sec(".debug_str", "SHT_PROGBITS", 420, 3), Sec(".gnu_debugaltlink", "SHT_PROGBITS", 430, 2),
              Sec(".ARM.exidx", "SHT_ARM_EXIDX", 500, 8),
              [Sec(".gnu.version_r", "SHT_GNU_verneed", 1000, 32) EXCEPT
                  !.sh_link = 4, !.sh_info = IF sizes_right THEN 1 ELSE 2], Names>>
        Attribute(at, tag) == One("Elf_Arm_Attribute_Tag", at, 1, [tag |-> tag])
        recs ==
            One("byte", 1200, 1, "A")
            @@ One("Elf_Attr_Subsection_Header", 1201, 5, [vendor_name |-> "aeabi", length |-> 34])
            @@ Attribute(1206, "TAG_FILE") @@ One("word", 1207, 4, 20)
            @@ Attribute(1211, "TAG_CPU_ARCH") @@ One("uleb128", 1212, 1, 10)
            @@ Attribute(1213, "TAG_CPU_NAME") @@ One("ntbs", 1214, 4, "cpu")
            @@ Attribute(1218, "TAG_ALSO_COMPATIBLE_WITH") @@ Attribute(1219, "TAG_CPU_ARCH")
            @@ One("uleb128", 1220, 1, 11) @@ One("byte", 1221, 1, 0)
            @@ Attribute(1222, "TAG_COMPATIBILITY") @@ One("uleb128", 1223, 1, 1)
            @@ One("ntbs", 1224, 2, "g")
            @@ Attribute(1226, "TAG_SECTION") @@ One("word", 1227, 4, 9)
            @@ Row("uleb128", 1231, 1, <<3, 0>>) @@ Attribute(1233, "TAG_CPU_ARCH") @@ One("uleb128", 1234, 1, 12)
            @@ One("Elf_Attr_Subsection_Header", 1235, 5, [vendor_name |-> "gnu", length |-> 14])
            @@ Attribute(1240, "TAG_FILE") @@ One("word", 1241, 4, 9)
            @@ Attribute(1245, "TAG_CPU_ARCH") @@ One("uleb128", 1246, 1, 13)
            @@ Attribute(1247, "TAG_CPU_NAME") @@ One("ntbs", 1248, 1, "")
            @@ Row("Elf_Stabs", 1300, 12, <<"first", "second">>)
            @@ Row("Elf_Sym", 600, 4, [i \in 1 .. 3 |-> [st_name |-> Min({i - 1, 1}), st_value |-> 5 * i,
                                                        st_shndx |-> "1"]])
            @@ Row("word", 800, 4, <<0, 1, 2>>)
            @@ Row("Elf_Sunw_Syminfo", 900, 1, <<"version", "self", "parent">>)
            @@ Row("Elf_Relr", 950, 1, <<[r_offset |-> 10], [r_offset |-> 7]>>)
            @@ One("Elf_Chdr", 400, 3, [ch_type |-> "ELFCOMPRESS_ZLIB", ch_size |-> 6])
            @@ One("Elf_Verneed", 1000, 16, [file |-> 1, cnt |-> 1, aux |-> 16, next |-> 32])
            @@ One("Elf_Vernaux", 1016, 16, [name |-> 1, other |-> 2, next |-> 0])
        f == File(secs, <<>>, recs, 700 :> "" @@ 701 :> "local")
        other == File(<<Section0, Sec(".debug_str", "SHT_PROGBITS", 420, 3), Names>>, <<>>, <<>>, <<>>)
    IN  [f EXCEPT !.data = (400 :> <<0, 0, 0>>) @@ (403 :> <<1, 2, 3, 1, 2, 3>>) @@ (420 :> <<1, 0, 2>>),
                  !.sups = [gnu_debugaltlink |-> <<"alt">>], !.loader = <<[alt |-> other]>>,
                  !.truth = [relr |-> {10, 11, 12}, attributes |-> AttributesThere]]
Damaged == [File(<<Section0, Names>>, <<>>, <<>>, <<>>) EXCEPT !.ident.magic = FALSE]

------------------------------------------------------------------------------

Sample == {<<"lib", {"fa", "gc", "hd"}, 2, "both", h>> : h \in BOOLEAN}
RareIds == {<<"rare", TRUE>>, <<"rare", FALSE>>}
MCIds == LibIds \cup VerdefIds \cup RelrIds \cup ObjIds \cup RareIds \cup {<<"damaged">>}
ImageOf(i) ==
    CASE i[1] = "lib" -> Library(i[2], i[3], i[4], i[5])
      [] i[1] = "verdef" -> Verdefs(i[2], i[3], i[4])
      [] i[1] = "relr" -> CompactFile(i[2])
      [] i[1] = "obj" -> Object2(i[2], i[3], i[4], i[5])
      [] i[1] = "rare" -> Rare(i[2])
      [] OTHER -> Damaged
MCImage == [i \in MCIds |-> ImageOf(i)]

Q(op, of) == [op |-> op, of |-> of]
S(n) == <<"section", n>>
Segment(n) == <<"segment", n>>
QuestionsOf(i) ==
    CASE i \in Sample ->
             {Q(op, Segment(4)) : op \in {"iter_tags", "num_tags", "get_relocation_tables", "iter_symbols"}}
             \cup {[op |-> "get_tag", of |-> Segment(4), n |-> n] : n \in {0, 2}}
             \cup {[op |-> op, of |-> Segment(4), name |-> "gc"] : op \in {"gnu_lookup", "elf_lookup"}}
             \cup {Q("get_interp_name", Segment(2)), Q("iter_notes", Segment(3)), [op |-> "address_offsets", at |-> Base + 1100]}
             \cup (IF ~i[5] THEN {}
                   ELSE {Q("num_tags", S(10)), Q("has_indexes", S(7)),
                         [op |-> "iter_segments", types |-> {"PT_LOAD", "PT_DYNAMIC"}],
                         [op |-> "get_version", of |-> S(6), n |-> 2], [op |-> "get_version", of |-> S(7), n |-> 3],
                         [op |-> "get_symbol_by_name", of |-> S(1), name |-> "gc"],
                         Q("iter_symbols", S(5)),
                         [op |-> "gnu_lookup", of |-> S(4), name |-> "hd"],
                         [op |-> "get_section_by_name", name |-> ".dynsym"], [op |-> "get_section_by_name", name |-> ".absent"]})
      [] i \in RareIds ->
             {Q("iter_stabs", S(2)), Q("items", S(1)), Q("has_dwarf_info", None), Q("get_ehabi_infos", None),
              Q("get_dwarf_info", None), Q("has_indexes", S(12)), [op |-> "get_symbol_section", of |-> S(5), n |-> 1],
              [op |-> "get_symbol_by_name", of |-> S(3), name |-> "local"],
              [op |-> "get_symbol_by_name", of |-> S(6), name |-> "local"], Q("iter_symbols", S(6)),
              [op |-> "get_relr", of |-> S(7), n |-> 1], [op |-> "get_relr", of |-> S(7), n |-> 5],
              [op |-> "get_section_by_name", name |-> ".stab"], [op |-> "iter_sections", types |-> {"SHT_PROGBITS"}]}
      [] OTHER -> {}
MCQuestions == [i \in MCIds |-> QuestionsOf(i)]
IterationsOf(i) ==
    CASE i \in Sample -> {[over |-> "tags", of |-> Segment(4)]}
                         \cup (IF i[5] THEN {[over |-> "versions", of |-> S(6)],
                                            [over |-> "tags", of |-> S(10)]} ELSE {})
      [] i \in RareIds -> {[over |-> "attributes", of |-> S(1)]}
      [] OTHER -> {}
MCIterations == [i \in MCIds |-> IterationsOf(i)]

\* Every such image of the loader's class is one that the theorems about all of
\* them speak of; where the C code strays, it ends in some and reads on in some.
DescribedSection(f) ==
    [SectionObject("GNUVerDefSection", Shdr(f, 2), ".gnu.version_d") EXCEPT
        !.link = <<SectionObject("StringTableSection", Shdr(f, 1), ".dynstr")>>]
OpenImage(v) == [Unread(MCImage[v]) EXCEPT !.header = MCImage[v].recs[<<"Elf_Ehdr", 0>>].v]
ASSUME ImagesAreLaidOut ==
    \A v \in {i \in VerdefIds : i[4] = 64} :
        LET f == OpenImage(v)
            sec == DescribedSection(f)
            d == Described(f, v[2])
        IN  /\ IsOpen(f) /\ IsNative(f) /\ OnlySection(f, 2, sec)
            /\ LaidOut(f, sec, d) /\ ParentsDefined(f, sec, d) /\ WithoutGaps(f, d)
ASSUME StraysBothWays ==
    LET Harmless(v) == StraysHarmless(OpenImage(v), DescribedSection(OpenImage(v)),
                                       Described(OpenImage(v), v[2]))
        Named == {i \in VerdefIds : i[4] = 64 /\ \E j \in DOMAIN i[2] : i[2][j][2] # <<>>}
    IN  (\E v \in Named : Harmless(v)) /\ (\E v \in Named : ~Harmless(v))
=============================================================================
