---------------------------- MODULE ElfRelocation -----------------------------
(***************************************************************************)
(* Relocation tables and the relocation of debug sections                  *)
(* (elftools/elf/relocation.py), and the debug information of a file       *)
(* (ELFFile.get_dwarf_info and what it calls).                             *)
(*                                                                         *)
(* The contents of a section are cells, each one byte of ByteBase values   *)
(* (256 in the program).                                                   *)
(***************************************************************************)
EXTENDS ElfTables, FixedWidth

CONSTANT ByteBase

\* The methods of this module and those of the modules below, by their names.
RECURSIVE Call(_, _, _)

------------------------------------------------------------------------------
(* tables *)

RelocationTable(offset, size, entry) == [offset |-> offset, size |-> size, entry |-> entry]
section_relocations(sec) ==
    RelocationTable(sec.offset, sec.hdr.sh_size,
                    IF sec.hdr.sh_type = "SHT_RELA" THEN "Elf_Rela" ELSE "Elf_Rel")
num_relocations(f, table) == table.size \div sizeof(f, table.entry)
get_relocation(f, table, n) ==
    struct_parse(f, table.entry, table.offset + n * sizeof(f, table.entry))
iter_relocations(f, table) ==
    ForEach(f, Upto(num_relocations(f, table)), LAMBDA g, n : get_relocation(g, table, n))

\* An even entry is an address; an odd one has a bit for each of the words that
\* follow what the last entries covered.
HighBits == 1 .. 29
RECURSIVE relr_from(_, _, _, _, _)
relr_from(f, at, limit, base, got) ==
    LET size == sizeof(f, "Elf_Relr")
        e == struct_parse(f, "Elf_Relr", at)
        word == e.val.r_offset
        set == SelectSeq([k \in HighBits |-> k], LAMBDA k : (word \div 2 ^ k) % 2 = 1)
    IN  IF at >= limit THEN Returned(f, got)
        ELSE IF Failed(e) THEN e
        ELSE IF word % 2 = 0 THEN relr_from(e, at + size, limit, <<word + size>>, Append(got, word))
        ELSE IF base = None THEN Raised(e, "ELFError")
        ELSE relr_from(e, at + size, limit, <<base[1] + (8 * size - 1) * sizeof(f, "addr")>>,
                 got \o [i \in DOMAIN set |-> base[1] + (set[i] - 1) * size])
iter_relr(f, at, size) == IF size = 0 THEN Returned(f, <<>>) ELSE relr_from(f, at, at + size, None, <<>>)

\* num_relocations and get_relocation: the list is made once.
relr_list(f, sec) ==
    LET known == Remembered(f, sec, "relr")
    IN  IF known # None THEN Returned(f, known[1])
        ELSE Then(iter_relr(f, sec.offset, sec.hdr.sh_size),
                  LAMBDA g : Remember(g, sec, "relr", g.val))
get_relr(f, sec, n) ==
    Then(Call(f, "relr_list", <<sec>>),
         LAMBDA g : IF n < Len(g.val) THEN Returned(g, g.val[n + 1]) ELSE Raised(g, "IndexError"))

------------------------------------------------------------------------------
(* recipes: <<bytes, has an addend, calculation>> *)

calc_func(how, value, sym, offset, addend) ==
    CASE how = "identity" -> value
      [] how = "sym_plus_value" -> sym + value + addend
      [] how = "sym_plus_value_pcrel" -> sym + value - offset
      [] how = "sym_plus_addend" -> sym + addend
      [] how = "sym_plus_addend_pcrel" -> sym + addend - offset
      [] how = "value_minus_sym_addend" -> value - sym - addend
      [] how = "arm_sym_plus_value_pcrel" -> sym \div 4 + value - offset \div 4
      [] how = "bpf_64_32_sym_plus_addend" -> (sym + addend) \div 8 - 1

RECIPES_ARM ==
    [R_ARM_ABS32 |-> <<4, FALSE, "sym_plus_value">>,
     R_ARM_CALL |-> <<4, FALSE, "arm_sym_plus_value_pcrel">>]
RECIPES_AARCH64 ==
    [R_AARCH64_ABS64 |-> <<8, TRUE, "sym_plus_addend">>,
     R_AARCH64_ABS32 |-> <<4, TRUE, "sym_plus_addend">>,
     R_AARCH64_PREL32 |-> <<4, TRUE, "sym_plus_addend_pcrel">>]
RECIPES_MIPS_REL ==
    [R_MIPS_NONE |-> <<4, FALSE, "identity">>, R_MIPS_32 |-> <<4, FALSE, "sym_plus_value">>]
RECIPES_MIPS_RELA ==
    [R_MIPS_NONE |-> <<4, TRUE, "identity">>, R_MIPS_32 |-> <<4, TRUE, "sym_plus_value">>,
     R_MIPS_64 |-> <<8, TRUE, "sym_plus_value">>]
RECIPES_PPC64 ==
    [R_PPC64_ADDR32 |-> <<4, TRUE, "sym_plus_addend">>,
     R_PPC64_REL32 |-> <<4, TRUE, "sym_plus_addend_pcrel">>,
     R_PPC64_ADDR64 |-> <<8, TRUE, "sym_plus_addend">>]
RECIPES_X86 ==
    [R_386_NONE |-> <<4, FALSE, "identity">>, R_386_32 |-> <<4, FALSE, "sym_plus_value">>,
     R_386_PC32 |-> <<4, FALSE, "sym_plus_value_pcrel">>]
RECIPES_X64 ==
    [R_X86_64_NONE |-> <<8, TRUE, "identity">>, R_X86_64_64 |-> <<8, TRUE, "sym_plus_addend">>,
     R_X86_64_PC32 |-> <<4, TRUE, "sym_plus_addend_pcrel">>,
     R_X86_64_32 |-> <<4, TRUE, "sym_plus_addend">>,
     R_X86_64_32S |-> <<4, TRUE, "sym_plus_addend">>]
RECIPES_EBPF ==
    [R_BPF_NONE |-> <<8, FALSE, "identity">>, R_BPF_64_64 |-> <<8, FALSE, "identity">>,
     R_BPF_64_32 |-> <<8, FALSE, "bpf_64_32_sym_plus_addend">>,
     R_BPF_64_NODYLD32 |-> <<4, FALSE, "identity">>, R_BPF_64_ABS64 |-> <<8, FALSE, "identity">>,
     R_BPF_64_ABS32 |-> <<4, FALSE, "identity">>]
RECIPES_LOONGARCH ==
    [R_LARCH_NONE |-> <<4, FALSE, "identity">>, R_LARCH_32 |-> <<4, TRUE, "sym_plus_addend">>,
     R_LARCH_64 |-> <<8, TRUE, "sym_plus_addend">>, R_LARCH_ADD8 |-> <<1, TRUE, "sym_plus_value">>,
     R_LARCH_SUB8 |-> <<1, TRUE, "value_minus_sym_addend">>,
     R_LARCH_ADD16 |-> <<2, TRUE, "sym_plus_value">>,
     R_LARCH_SUB16 |-> <<2, TRUE, "value_minus_sym_addend">>,
     R_LARCH_ADD32 |-> <<4, TRUE, "sym_plus_value">>,
     R_LARCH_SUB32 |-> <<4, TRUE, "value_minus_sym_addend">>,
     R_LARCH_ADD64 |-> <<8, TRUE, "sym_plus_value">>,
     R_LARCH_SUB64 |-> <<8, TRUE, "value_minus_sym_addend">>,
     R_LARCH_32_PCREL |-> <<4, TRUE, "sym_plus_addend_pcrel">>,
     R_LARCH_64_PCREL |-> <<8, TRUE, "sym_plus_addend_pcrel">>]
RECIPES_S390X ==
    [R_390_32 |-> <<4, TRUE, "sym_plus_addend">>, R_390_PC32 |-> <<4, TRUE, "sym_plus_addend_pcrel">>,
     R_390_64 |-> <<8, TRUE, "sym_plus_addend">>]

\* The recipes of a machine for entries with or without addends; some machines
\* have only one of the kinds, which is an error of its own.
Recipes(arch, rela) ==
    CASE arch = "x86" /\ ~rela -> RECIPES_X86
      [] arch = "x64" /\ rela -> RECIPES_X64
      [] arch = "MIPS" -> IF rela THEN RECIPES_MIPS_RELA ELSE RECIPES_MIPS_REL
      [] arch = "ARM" /\ ~rela -> RECIPES_ARM
      [] arch = "AArch64" -> RECIPES_AARCH64
      [] arch = "64-bit PowerPC" -> RECIPES_PPC64
      [] arch = "IBM S/390" -> RECIPES_S390X
      [] arch = "Linux BPF - in-kernel virtual machine" -> RECIPES_EBPF
      [] arch = "LoongArch" /\ rela -> RECIPES_LOONGARCH
      [] OTHER -> <<>>

------------------------------------------------------------------------------
(* applying *)

Stored(cells, little) == FieldNumber(ByteBase, cells, little)
BugByteOrder(n, w, little) == FieldCells(ByteBase, n, w, FALSE)
CellsOf(n, w, little) == FieldCells(ByteBase, n, w, little)

\* A relocated value wraps to the width of its place, which is read and
\* written; a place outside the section fails before anything is written.
put_relocation(f, data, reloc, entry) ==
    LET rela == "r_addend" \in DOMAIN reloc
        recipes == Recipes(get_machine_arch(f), rela)
        recipe == recipes[reloc.r_info_type]
        w == recipe[1]
        at == reloc.r_offset
        several == /\ rela /\ get_machine_arch(f) = "MIPS" /\ reloc.r_info_type = "R_MIPS_64"
                   /\ reloc.r_type2 # 0 \/ reloc.r_type3 # 0 \/ reloc.r_ssym # 0
        old == Stored(SubSeq(data, at + 1, at + w), f.little)
        new == calc_func(recipe[3], old, entry.st_value, at, IF recipe[2] THEN reloc.r_addend ELSE 0)
    IN  IF "st_value" \notin DOMAIN entry THEN Raised(f, "KeyError")
        ELSE IF several \/ reloc.r_info_type \notin DOMAIN recipes
             THEN Raised(f, "ELFRelocationError")
        ELSE IF at + w > Len(data) THEN Raised(f, "ELFParseError")
        ELSE IF recipe[2] /\ ~rela THEN Raised(f, "KeyError")
        ELSE Returned(f, SubSeq(data, 1, at) \o CellsOf(new % Power(ByteBase, w), w, f.little)
                         \o SubSeq(data, at + w + 1, Len(data)))
apply_relocation(f, data, reloc, symtab) ==
    IF symtab.cls \notin DOMAIN SymbolFormat THEN Raised(f, "AttributeError")
    ELSE Then(section_num_symbols(f, symtab), LAMBDA many :
         IF reloc.r_info_sym >= many.val THEN Raised(many, "ELFRelocationError")
         ELSE Then(Call(many, "get_symbol", <<symtab, reloc.r_info_sym>>),
                   LAMBDA sym : put_relocation(sym, data, reloc, sym.val.entry)))

apply_section_relocations(f, data, sec) ==
    LET table == section_relocations(sec)
        Step(symtab, g, n) ==
            Then(g, LAMBDA h : Then(get_relocation(h, table, n),
                LAMBDA r : apply_relocation(r, h.val, r.val, symtab)))
    IN  Then(Call(f, "get_section", <<sec.hdr.sh_link>>), LAMBDA symtab :
             FoldLeft(LAMBDA g, n : Step(symtab.val, g, n), Returned(symtab, data),
                      Upto(num_relocations(f, table))))

find_relocations_for_section(f, sec) ==
    LET names == {".rel" \o sec.name, ".rela" \o sec.name}
    IN  Then(Call(f, "num_sections", <<>>),
             LAMBDA g : FirstOf(g, Upto(g.val), LAMBDA h, i : Call(h, "get_section", <<i>>),
                                LAMBDA s : s.cls = "RelocationSection" /\ s.name \in names))

------------------------------------------------------------------------------
(* elffile.py: debug information *)

has_phantom_bytes(f) ==
    f.header.e_machine = "EM_DSPIC30F" /\ "EF_PIC30_NO_PHANTOM_BYTE" \notin f.header.e_flags
EveryOther(data) == [i \in 1 .. (Len(data) + 1) \div 2 |-> data[2 * i - 1]]

\* A DebugSectionDescriptor with the relocated contents.
read_dwarf_section(f, sec, relocate) ==
    LET phantom == has_phantom_bytes(f)
        raw == Call(f, "section_data", <<sec>>)
        data == IF phantom THEN EveryOther(raw.val) ELSE raw.val
        reloc == IF relocate THEN Call(raw, "find_relocations_for_section", <<sec>>)
                 ELSE Returned(raw, None)
        done == IF reloc.val = None THEN Returned(reloc, data)
                ELSE IF phantom THEN Raised(reloc, "ELFParseError")
                ELSE Call(reloc, "apply_section_relocations", <<data, reloc.val[1]>>)
    IN  IF Failed(raw) THEN raw
        ELSE IF Failed(reloc) THEN reloc
        ELSE Then(done, LAMBDA g : Returned(g,
                 [name |-> sec.name, data |-> g.val, global_offset |-> sec.hdr.sh_offset,
                  address |-> sec.hdr.sh_addr,
                  size |-> IF phantom THEN sec.size \div 2 ELSE sec.size]))

ZLIB == 1

\* .zdebug_*: a mark, the size in eight bytes and what zlib (external) makes of
\* the rest; in the image the mark and the size are one cell each.
decompress_dwarf_section(f, d) ==
    LET rest == SubSeq(d.data, 3, Len(d.data))
    IN  IF d.size <= 2 \/ d.data[1] # ZLIB \/ d.data[2] # Len(rest) THEN Raised(f, "AssertionError")
        ELSE Returned(f, [d EXCEPT !.data = rest, !.size = Len(rest)])

\* The sections that are looked for; with .zdebug_info, every name but
\* .eh_frame has the z.
DebugNames ==
    <<"debug_info", "debug_aranges", "debug_abbrev", "debug_str", "debug_line", "debug_frame",
      "debug_loc", "debug_ranges", "debug_pubtypes", "debug_pubnames", "debug_addr",
      "debug_str_offsets", "debug_line_str", "debug_loclists", "debug_rnglists", "debug_sup",
      "gnu_debugaltlink", "gnu_debuglink", "debug_types">>

has_dwarf_info(f) ==
    LET info == Call(f, "has_section", <<".debug_info">>)
        zinfo == Call(info, "has_section", <<".zdebug_info">>)
    IN  IF Failed(info) \/ info.val THEN info
        ELSE IF Failed(zinfo) \/ zinfo.val THEN zinfo
        ELSE Call(zinfo, "has_section", <<".eh_frame">>)

\* The descriptor of every section that is there, by its plain name, and the
\* supplementary file that they lead to.
dwarf_section(f, secname, relocate, squeezed) ==
    Then(Call(f, "get_section_by_name", <<secname>>), LAMBDA sec :
    IF sec.val = None THEN sec
    ELSE Then(Then(Call(sec, "read_dwarf_section", <<sec.val[1], relocate>>),
                   LAMBDA g : IF squeezed THEN decompress_dwarf_section(g, g.val) ELSE g),
              LAMBDA g : Returned(g, <<g.val>>)))
dwarf_sections(f, relocate) ==
    LET Add(g, name, r) ==
            Then(r, LAMBDA h : Returned(h, IF h.val = None THEN g.val ELSE (name :> h.val[1]) @@ g.val))
        Step(zipped, g, name) ==
            Then(g, LAMBDA h : Add(h, name,
                IF name = "eh_frame" THEN dwarf_section(h, ".eh_frame", relocate, FALSE)
                ELSE dwarf_section(h, (IF zipped THEN ".z" ELSE ".") \o name, relocate, zipped)))
    IN  Then(Call(f, "has_section", <<".zdebug_info">>), LAMBDA z :
             FoldLeft(LAMBDA g, name : Step(z.val, g, name), Returned(z, <<>>),
                      Append(DebugNames, "eh_frame")))

\* parse_debugsupinfo of DWARFInfo: the first section that is there and names a
\* file that is not itself the supplement; sups says what they name.
supplement_path(f, secs) ==
    LET named(name) == IF name \in DOMAIN secs THEN f.sups[name] ELSE None
    IN  IF named("debug_sup") # None THEN named("debug_sup")
        ELSE IF named("gnu_debugaltlink") # None THEN named("gnu_debugaltlink")
        ELSE named("gnu_debuglink")

\* The supplement is opened without a loader: it has no supplement of its own.
Info(f, secs, supplement) == Returned(f, [sections |-> secs, supplement |-> supplement])
read_supplement(f, secs, path) ==
    LET sup == Then(Call(f, "ELFFile", <<f.loader[1][path]>>),
                    LAMBDA g : Call([g EXCEPT !.loader = None], "get_dwarf_info", <<TRUE, TRUE>>))
    IN  IF path \notin DOMAIN f.loader[1] THEN Raised(f, "OSError")
        ELSE IF Failed(sup) THEN Raised(f, sup.err)
        ELSE Info(f, secs, <<sup.val.sections>>)
get_dwarf_info(f, relocate, follow_links) ==
    Then(Call(f, "dwarf_sections", <<relocate>>),
         LAMBDA g : LET path == supplement_path(f, g.val)
                    IN  IF ~follow_links \/ path = None \/ f.loader = None
                        THEN Info(g, g.val, None)
                        ELSE read_supplement(g, g.val, path[1]))

\* ehabi: the exception tables of a file that is linked.
has_ehabi_info(f) ==
    Then(Call(f, "iter_sections", <<{"SHT_ARM_EXIDX"}>>),
         LAMBDA g : Returned(g, g.val # <<>>))
get_ehabi_infos(f) ==
    IF f.header.e_type = "ET_REL" THEN Raised(f, "AssertionError")
    ELSE Then(Call(f, "iter_sections", <<{"SHT_ARM_EXIDX"}>>),
              LAMBDA g : Returned(g, IF g.val = <<>> THEN None ELSE <<g.val>>))

------------------------------------------------------------------------------

Call(f, method, a) ==
    CASE method = "iter_relocations" -> iter_relocations(f, a[1])
      [] method = "relr_list" -> relr_list(f, a[1])
      [] method = "get_relr" -> get_relr(f, a[1], a[2])
      [] method = "apply_section_relocations" -> apply_section_relocations(f, a[1], a[2])
      [] method = "find_relocations_for_section" -> find_relocations_for_section(f, a[1])
      [] method = "read_dwarf_section" -> read_dwarf_section(f, a[1], a[2])
      [] method = "dwarf_sections" -> dwarf_sections(f, a[1])
      [] method = "get_dwarf_info" -> get_dwarf_info(f, a[1], a[2])
      [] method = "has_dwarf_info" -> has_dwarf_info(f)
      [] method = "has_ehabi_info" -> has_ehabi_info(f)
      [] method = "get_ehabi_infos" -> get_ehabi_infos(f)
      [] method = "ELFFile" -> OpenFile(a[1])
      [] OTHER -> CallTable(f, method, a)
=============================================================================
