------------------------------- MODULE ElfFile --------------------------------
(***************************************************************************)
(* An open ELF file (elftools/elf/elffile.py) with its sections and        *)
(* segments (sections.py, segments.py).  The file and its stream are those *)
(* of ElfStream.                                                           *)
(***************************************************************************)
EXTENDS ElfStream, FiniteSets, SequencesExt, TLC

\* A method is looked up by its name when it is called; the table is at the end.
RECURSIVE CallFile(_, _, _)

Upto(n) == [i \in 1 .. n |-> i - 1]

\* [Op(x) for x in xs], and the first of them for which P holds, if any.
ForEach(f, xs, Op(_, _)) ==
    LET Step(g, x) == LET r == Op(g, x)
                      IN  IF Failed(g) THEN g
                          ELSE IF Failed(r) THEN r ELSE Returned(r, Append(g.val, r.val))
    IN  FoldLeft(Step, Returned(f, <<>>), xs)
FirstOf(f, xs, Op(_, _), P(_)) ==
    LET Step(g, x) == LET r == Op(g, x)
                      IN  IF Failed(g) \/ g.val # None THEN g
                          ELSE IF Failed(r) THEN r
                          ELSE Returned(r, IF P(r.val) THEN <<r.val>> ELSE None)
    IN  FoldLeft(Step, Returned(f, None), xs)
FirstSection(f, xs, P(_)) ==
    FirstOf(f, xs, LAMBDA g, i : CallFile(g, "get_section", <<i>>), P)
FirstSegment(f, xs, P(_)) ==
    FirstOf(f, xs, LAMBDA g, i : CallFile(g, "get_segment", <<i>>), P)
Keep(f, P(_)) == Then(f, LAMBDA g : Returned(g, SelectSeq(g.val, P)))

------------------------------------------------------------------------------
(* common/utils.py *)

elf_assert(f, cond) == Check(f, cond, "ELFError")
roundup(n, bits) == ((n + 2 ^ bits - 1) \div 2 ^ bits) * 2 ^ bits

------------------------------------------------------------------------------
(* sections.py: Section *)

SectionObject(cls, hdr, name) ==
    [cls |-> cls, hdr |-> hdr, name |-> name, offset |-> hdr.sh_offset, size |-> hdr.sh_size,
     ctype |-> None, link |-> None, params |-> None, start |-> 0]

\* Section.__init__: a compressed section says its real size in the data.
init_section(f, sec) ==
    IF "SHF_COMPRESSED" \notin sec.hdr.sh_flags THEN Returned(f, sec)
    ELSE Then(struct_parse(f, "Elf_Chdr", sec.hdr.sh_offset),
              LAMBDA g : Returned(g, [sec EXCEPT !.ctype = <<g.val.ch_type>>,
                                                 !.size = g.val.ch_size]))

\* stream.read: never fails, may be short.
Cells(f, at, n) ==
    LET stored == IF at \in DOMAIN f.data THEN f.data[at] ELSE <<>>
    IN  [f EXCEPT !.pos = at + Min({n, Len(stored)}), !.val = SubSeq(stored, 1, Min({n, Len(stored)}))]

\* Section.data; zlib is external, and its input here is its output.  The message
\* about another type of compression is made for a number and fails for a name.
CompressionNames ==
    {"ELFCOMPRESS_LOOS", "ELFCOMPRESS_HIOS", "ELFCOMPRESS_LOPROC", "ELFCOMPRESS_HIPROC"}
section_data(f, sec) ==
    LET at == sec.hdr.sh_offset + sizeof(f, "Elf_Chdr")
        raw == Cells(f, at, sec.hdr.sh_size - sizeof(f, "Elf_Chdr"))
        result == SubSeq(raw.val, 1, Min({sec.size, Len(raw.val)}))
    IN  IF sec.hdr.sh_type = "SHT_NOBITS" THEN Returned(f, [i \in 1 .. sec.size |-> 0])
        ELSE IF sec.ctype = None THEN Cells(f, sec.hdr.sh_offset, sec.size)
        ELSE IF sec.ctype # <<"ELFCOMPRESS_ZLIB">>
             THEN Raised(f, IF sec.ctype[1] \in CompressionNames THEN "ValueError" ELSE "ELFCompressionError")
        ELSE Check(Returned(raw, result), Len(result) = sec.size, "ELFCompressionError")

------------------------------------------------------------------------------
(* elffile.py: section headers, names and objects *)

section_offset(f, n) ==
    LET shentsize == f.header.e_shentsize
    IN  Check(Returned(f, f.header.e_shoff + n * shentsize),
              ~(f.header.e_shoff > 0 /\ shentsize < sizeof(f, "Elf_Shdr")), "ELFError")

\* None past the end of the file.
get_section_header(f, n) ==
    Then(section_offset(f, n),
         LAMBDA g : IF g.val > g.len THEN Returned(g, None)
                    ELSE Then(struct_parse(g, "Elf_Shdr", g.val),
                              LAMBDA h : Returned(h, <<h.val>>)))

get_section_name(f, hdr) ==
    IF f.shstr = None THEN Raised(f, "ELFParseError") ELSE get_string(f, f.shstr[1], hdr.sh_name)

SectionClass ==
    [SHT_STRTAB |-> "StringTableSection", SHT_NULL |-> "NullSection",
     SHT_SYMTAB |-> "SymbolTableSection", SHT_DYNSYM |-> "SymbolTableSection",
     SHT_SUNW_LDYNSYM |-> "SymbolTableSection", SHT_SYMTAB_SHNDX |-> "SymbolTableIndexSection",
     SHT_SUNW_syminfo |-> "SUNWSyminfoTableSection", SHT_GNU_verneed |-> "GNUVerNeedSection",
     SHT_GNU_verdef |-> "GNUVerDefSection", SHT_GNU_versym |-> "GNUVerSymSection",
     SHT_REL |-> "RelocationSection", SHT_RELA |-> "RelocationSection",
     SHT_DYNAMIC |-> "DynamicSection", SHT_NOTE |-> "NoteSection",
     SHT_ARM_ATTRIBUTES |-> "AttributesSection", SHT_RISCV_ATTRIBUTES |-> "AttributesSection",
     SHT_HASH |-> "ELFHashSection", SHT_GNU_HASH |-> "GNUHashSection",
     SHT_RELR |-> "RelrRelocationSection"]
ClassOf(type, name) ==
    IF type \in DOMAIN SectionClass THEN SectionClass[type]
    ELSE IF type = "SHT_PROGBITS" /\ name = ".stab" THEN "StabSection" ELSE "Section"

\* The types that the section named by sh_link may have.
SymbolTypes == {"SHT_SYMTAB", "SHT_DYNSYM"}
LinkedTypes ==
    [SymbolTableSection |-> {"SHT_STRTAB"}, GNUVerNeedSection |-> {"SHT_STRTAB"},
     GNUVerDefSection |-> {"SHT_STRTAB"}, DynamicSection |-> {"SHT_STRTAB", "SHT_NOBITS"},
     SUNWSyminfoTableSection |-> SymbolTypes, ELFHashSection |-> SymbolTypes,
     GNUHashSection |-> SymbolTypes]

\* What the constructor of a class asks of its header, or reads.
init_class(f, sec) ==
    LET hdr == sec.hdr
        params(format) == Then(struct_parse(f, format, hdr.sh_offset),
                               LAMBDA g : Returned(g, [sec EXCEPT !.params = <<g.val>>,
                                                                  !.start = g.pos]))
    IN  CASE sec.cls = "SymbolTableSection" ->
                 elf_assert(Returned(f, sec), hdr.sh_entsize > 0 /\ hdr.sh_size % hdr.sh_entsize = 0)
          [] sec.cls = "RelocationSection" ->
                 elf_assert(Returned(f, sec), hdr.sh_entsize = sizeof(f,
                     IF hdr.sh_type = "SHT_RELA" THEN "Elf_Rela" ELSE "Elf_Rel"))
          [] sec.cls = "RelrRelocationSection" ->
                 elf_assert(Returned(f, sec), hdr.sh_entsize = sizeof(f, "Elf_Relr"))
          [] sec.cls = "ELFHashSection" -> params("Elf_Hash")
          [] sec.cls = "GNUHashSection" -> params("Gnu_Hash")
          [] sec.cls = "AttributesSection" ->
                 LET g == params("byte") IN elf_assert(g, g.val.params = <<"A">>)
          [] OTHER -> Returned(f, sec)

\* The section that sh_link names; a versym section takes any, itself as well.
Linking == DOMAIN LinkedTypes \cup {"GNUVerSymSection"}
link_section(f, sec, depth) ==
    IF sec.cls \notin Linking THEN Returned(f, sec)
    ELSE Then(CallFile(f, "get_section_header", <<sec.hdr.sh_link>>), LAMBDA g :
         IF g.val = None
         THEN Raised(g, IF sec.cls = "DynamicSection" THEN "AttributeError" ELSE "TypeError")
         ELSE IF sec.cls # "GNUVerSymSection" /\ g.val[1].sh_type \notin LinkedTypes[sec.cls]
              THEN Raised(g, "ELFError")
         ELSE Then(CallFile(g, "make_section", <<g.val, depth - 1>>),
                   LAMBDA h : Returned(h, [sec EXCEPT !.link = <<h.val>>])))

\* _make_section; depth stands for the limit of recursion.
make_section(f, hdr, depth) ==
    IF depth = 0 THEN Raised(f, "RecursionError")
    ELSE Then(get_section_name(f, hdr[1]), LAMBDA g :
         LET sec == SectionObject(ClassOf(hdr[1].sh_type, g.val), hdr[1], g.val)
         IN  IF sec.cls = "DynamicSection"
             THEN Then(init_section(g, sec), LAMBDA h : link_section(h, h.val, depth))
             ELSE Then(Then(link_section(g, sec, depth), LAMBDA h : init_section(h, h.val)),
                       LAMBDA h : init_class(h, h.val)))

RecursionLimit == 6
get_section(f, n) ==
    LET h == CallFile(f, "get_section_header", <<n>>)
    IN  IF Failed(h) THEN h
        ELSE IF h.val = None THEN Raised(h, IF h.shstr = None THEN "ELFParseError" ELSE "TypeError")
        ELSE CallFile(h, "make_section", <<h.val, RecursionLimit>>)

num_sections(f) ==
    IF f.header.e_shoff = 0 THEN Returned(f, 0)
    ELSE IF f.header.e_shnum # 0 THEN Returned(f, f.header.e_shnum)
    ELSE LET h == CallFile(f, "get_section_header", <<0>>)
         IN  IF ~Failed(h) /\ h.val = None THEN Raised(h, "TypeError")
             ELSE Then(h, LAMBDA g : Returned(g, g.val[1].sh_size))

sections(f) ==
    Then(CallFile(f, "num_sections", <<>>),
         LAMBDA g : ForEach(g, Upto(g.val), LAMBDA h, i : CallFile(h, "get_section", <<i>>)))
iter_sections(f, types) ==
    Keep(CallFile(f, "sections", <<>>), LAMBDA s : s.hdr.sh_type \in types)

BugMapOneOff(f) ==
    LET Step(g, i) == LET r == CallFile(g, "get_section", <<i>>)
                      IN  IF Failed(g) THEN g ELSE IF Failed(r) THEN r
                          ELSE [r EXCEPT !.names = <<(r.val.name :> i + 1) @@ g.names[1]>>]
    IN  Then(CallFile([f EXCEPT !.names = <<<<>>>>], "num_sections", <<>>),
             LAMBDA g : FoldLeft(Step, g, Upto(g.val)))
\* The map is there before it is filled: an exception on the way leaves what
\* was found so far.  The last section of a name is the one found.
make_section_name_map(f) ==
    LET Step(g, i) == LET r == CallFile(g, "get_section", <<i>>)
                      IN  IF Failed(g) THEN g ELSE IF Failed(r) THEN r
                          ELSE [r EXCEPT !.names = <<(r.val.name :> i) @@ g.names[1]>>]
    IN  Then(CallFile([f EXCEPT !.names = <<<<>>>>], "num_sections", <<>>),
             LAMBDA g : FoldLeft(Step, g, Upto(g.val)))
get_section_index(f, name) ==
    Then(IF f.names = None THEN make_section_name_map(f) ELSE f,
         LAMBDA g : Returned(g, IF name \in DOMAIN g.names[1] THEN <<g.names[1][name]>> ELSE None))
get_section_by_name(f, name) ==
    Then(CallFile(f, "get_section_index", <<name>>),
         LAMBDA g : IF g.val = None THEN g
                    ELSE Then(CallFile(g, "get_section", <<g.val[1]>>),
                              LAMBDA h : Returned(h, <<h.val>>)))

\* The same without its result's being looked at: is there one?
has_section(f, name) ==
    Then(CallFile(f, "get_section_by_name", <<name>>),
         LAMBDA g : Returned(g, g.val # None))

------------------------------------------------------------------------------
(* segments *)

PN_XNUM == 65535
SHN_XINDEX == 65535

num_segments(f) ==
    IF f.header.e_phnum < PN_XNUM THEN Returned(f, f.header.e_phnum)
    ELSE Then(CallFile(f, "get_section", <<0>>), LAMBDA g : Returned(g, g.val.hdr.sh_info))

segment_header(f, n) ==
    LET phentsize == f.header.e_phentsize
    IN  IF f.header.e_phoff > 0 /\ phentsize < sizeof(f, "Elf_Phdr") THEN Raised(f, "ELFError")
        ELSE struct_parse(f, "Elf_Phdr", f.header.e_phoff + n * phentsize)

\* DynamicSegment.__init__ takes the string table of the dynamic section that
\* lies where the segment does.
dynamic_segment(f, seg) ==
    LET SameTable(s) == s.cls = "DynamicSection" /\ s.hdr.sh_offset = seg.hdr.p_offset
        dyn == Then(CallFile(f, "num_sections", <<>>),
                    LAMBDA g : FirstSection(g, Upto(g.val), SameTable))
    IN  IF Failed(dyn) THEN dyn
        ELSE IF dyn.val = None THEN Returned(dyn, seg)
        ELSE Then(CallFile(dyn, "get_section", <<dyn.val[1].hdr.sh_link>>),
                  LAMBDA g : Returned(g, [seg EXCEPT !.link = <<g.val>>]))

get_segment(f, n) ==
    Then(segment_header(f, n),
         LAMBDA g : LET seg == [cls |-> g.val.p_type, hdr |-> g.val, link |-> None,
                               offset |-> g.val.p_offset]
                    IN  IF g.val.p_type = "PT_DYNAMIC" THEN dynamic_segment(g, seg)
                        ELSE Returned(g, seg))
segments(f) ==
    Then(CallFile(f, "num_segments", <<>>),
         LAMBDA g : ForEach(g, Upto(g.val), LAMBDA h, i : CallFile(h, "get_segment", <<i>>)))
iter_segments(f, types) ==
    Keep(CallFile(f, "segments", <<>>), LAMBDA s : s.hdr.p_type \in types)


\* address_offsets: where the bytes of an address range are in the file.
Holds(hdr, start, size) ==
    /\ hdr.p_type = "PT_LOAD"
    /\ start >= hdr.p_vaddr /\ start + size <= hdr.p_vaddr + hdr.p_filesz
address_offsets(f, start, size) ==
    LET all == Keep(CallFile(f, "segments", <<>>), LAMBDA s : Holds(s.hdr, start, size))
    IN  Then(all, LAMBDA g : Returned(g, [i \in DOMAIN g.val |->
                        start - g.val[i].hdr.p_vaddr + g.val[i].hdr.p_offset]))
BugVirtual(f, ptr) ==
    Then(Then(CallFile(f, "num_segments", <<>>),
              LAMBDA g : FirstSegment(g, Upto(g.val), LAMBDA s : Holds(s.hdr, ptr, 1))),
         LAMBDA g : IF g.val = None THEN g ELSE Returned(g, <<ptr - g.val[1].hdr.p_vaddr>>))
\* next(address_offsets(ptr), None): later segments are not looked at.
first_offset(f, ptr) ==
    Then(Then(CallFile(f, "num_segments", <<>>),
              LAMBDA g : FirstSegment(g, Upto(g.val), LAMBDA s : Holds(s.hdr, ptr, 1))),
         LAMBDA g : IF g.val = None THEN g
                    ELSE Returned(g, <<ptr - g.val[1].hdr.p_vaddr + g.val[1].hdr.p_offset>>))

\* get_interp_name; the exception is struct_parse's.
get_interp_name(f, seg) ==
    LET g == parse_cstring_from_stream(f, seg.hdr.p_offset)
    IN  IF g.val = None THEN Raised(g, "ELFParseError")
        ELSE IF g.val = <<NotUtf8>> THEN Raised(g, "UnicodeDecodeError")
        ELSE Returned(g, g.val[1])

\* The start of one range lies in another and its end too; an empty one does
\* not lie at the very end.
Within(at, size, start, length) ==
    /\ at >= start /\ at - start + size <= length
    /\ length = 0 \/ at - start <= length - 1
section_in_segment(sec, seg) ==
    LET Flag(flag) == flag \in sec.sh_flags
    IN  /\ IF Flag("SHF_TLS") THEN seg.p_type \in {"PT_TLS", "PT_GNU_RELRO", "PT_LOAD"}
           ELSE seg.p_type \notin {"PT_TLS", "PT_PHDR"}
        /\ Flag("SHF_ALLOC") \/ seg.p_type \notin {"PT_LOAD", "PT_DYNAMIC", "PT_GNU_EH_FRAME",
                                                   "PT_GNU_RELRO", "PT_GNU_STACK"}
        /\ Flag("SHF_ALLOC") => Within(sec.sh_addr, sec.sh_size, seg.p_vaddr, seg.p_memsz)
        /\ \/ sec.sh_type = "SHT_NOBITS"
           \/ Within(sec.sh_offset, sec.sh_size, seg.p_offset, seg.p_filesz)

------------------------------------------------------------------------------
(* opening *)

architectures ==
    [EM_386 |-> "x86", EM_X86_64 |-> "x64", EM_MIPS |-> "MIPS", EM_ARM |-> "ARM",
     EM_AARCH64 |-> "AArch64", EM_PPC64 |-> "64-bit PowerPC", EM_S390 |-> "IBM S/390",
     EM_BPF |-> "Linux BPF - in-kernel virtual machine", EM_LOONGARCH |-> "LoongArch"]
get_machine_arch(f) ==
    IF f.header.e_machine \in DOMAIN architectures THEN architectures[f.header.e_machine]
    ELSE "<unknown>"

get_shstrndx(f) ==
    IF f.header.e_shstrndx # SHN_XINDEX THEN Returned(f, f.header.e_shstrndx)
    ELSE LET h == CallFile(f, "get_section_header", <<0>>)
         IN  IF ~Failed(h) /\ h.val = None THEN Raised(h, "TypeError")
             ELSE Then(h, LAMBDA g : Returned(g, g.val[1].sh_link))

\* None when the header lies outside the file.
get_section_header_stringtable(f) ==
    LET h == Then(CallFile(f, "get_shstrndx", <<>>),
                  LAMBDA g : CallFile(g, "get_section_header", <<g.val>>))
    IN  IF Failed(h) \/ h.val = None THEN h
        ELSE Then(init_section(h, SectionObject("StringTableSection", h.val[1], "")),
                  LAMBDA g : Returned(g, <<g.val>>))

\* _identify_file reads the marks of the first six bytes; class and byte order
\* are part of what the image says.
identify_file(f) ==
    LET ident == f.ident
    IN  Check(Check(f, ident.magic, "ELFError"),
              ident.class \in {32, 64} /\ ident.data \in {"little", "big"}, "ELFError")

\* ELFFile.__init__ on a stream with this image.
Unread(image) ==
    image @@ [pos |-> 0, val |-> None, err |-> "", shstr |-> None, names |-> None,
              header |-> [e_shoff |-> 0], cache |-> <<>>]
OpenFile(image) ==
    LET parsed == Then(identify_file(Unread(image)), LAMBDA f : struct_parse(f, "Elf_Ehdr", 0))
    IN  Then(Then(parsed, LAMBDA f : CallFile([f EXCEPT !.header = f.val],
                                              "get_section_header_stringtable", <<>>)),
             LAMBDA f : [f EXCEPT !.shstr = f.val, !.val = None])

------------------------------------------------------------------------------

CallFile(f, method, a) ==
    CASE method = "get_section_header" -> get_section_header(f, a[1])
      [] method = "make_section" -> make_section(f, a[1], a[2])
      [] method = "get_section" -> get_section(f, a[1])
      [] method = "num_sections" -> num_sections(f)
      [] method = "sections" -> sections(f)
      [] method = "iter_sections" -> iter_sections(f, a[1])
      [] method = "get_section_index" -> get_section_index(f, a[1])
      [] method = "get_section_by_name" -> get_section_by_name(f, a[1])
      [] method = "has_section" -> has_section(f, a[1])
      [] method = "section_data" -> section_data(f, a[1])
      [] method = "num_segments" -> num_segments(f)
      [] method = "get_segment" -> get_segment(f, a[1])
      [] method = "segments" -> segments(f)
      [] method = "iter_segments" -> iter_segments(f, a[1])
      [] method = "address_offsets" -> address_offsets(f, a[1], a[2])
      [] method = "first_offset" -> first_offset(f, a[1])
      [] method = "get_interp_name" -> get_interp_name(f, a[1])
      [] method = "get_shstrndx" -> get_shstrndx(f)
      [] method = "get_section_header_stringtable" -> get_section_header_stringtable(f)
=============================================================================
