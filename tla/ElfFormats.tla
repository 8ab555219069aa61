----------------------------- MODULE ElfFormats ------------------------------
(***************************************************************************)
(* The formats of an ELF file (elftools/elf/structs.py) and of the ARM     *)
(* exception tables (elftools/ehabi/structs.py), one operator per          *)
(* structure.  s is the ELFStructs: [little, class, machine, etype, osabi].*)
(*                                                                         *)
(* Sizes are those of the standard with a word of WordBytes and a half     *)
(* word of HalfBytes.  An enumeration is reduced to a few of its entries,  *)
(* the processor's own ones at codes from 112 (0x70) on, as in enums.py.   *)
(***************************************************************************)
EXTENDS ConstructMacros

CONSTANT HalfBytes

byte(s, name) == FormatField(name, 1, FALSE, s.little)
half(s, name) == FormatField(name, HalfBytes, FALSE, s.little)
word(s, name) == FormatField(name, WordBytes, FALSE, s.little)
word64(s, name) == FormatField(name, 2 * WordBytes, FALSE, s.little)
XwordBytes(s) == IF s.class = 32 THEN WordBytes ELSE 2 * WordBytes
addr(s, name) == FormatField(name, XwordBytes(s), FALSE, s.little)     \* also offset
xword(s, name) == FormatField(name, XwordBytes(s), FALSE, s.little)
sxword(s, name) == FormatField(name, XwordBytes(s), TRUE, s.little)
words(s, names) == [i \in DOMAIN names |-> word(s, names[i])]
halves(s, names) == [i \in DOMAIN names |-> half(s, names[i])]

\* enums.py: all but EI_CLASS and EI_DATA let an unknown code through.
AnyCode == <<"pass">>
ELFCLASS == <<<<"ELFCLASSNONE", 0>>, <<"ELFCLASS32", 1>>, <<"ELFCLASS64", 2>>>>
ELFDATA == <<<<"ELFDATANONE", 0>>, <<"ELFDATA2LSB", 1>>, <<"ELFDATA2MSB", 2>>>>
ENUM_E_TYPE == <<<<"ET_REL", 1>>, <<"ET_DYN", 3>>, <<"ET_CORE", 4>>>>
ENUM_E_MACHINE ==
    <<<<"EM_386", 3>>, <<"EM_MIPS", 8>>, <<"EM_PPC64", 21>>, <<"EM_S390", 22>>, <<"EM_ARM", 40>>,
      <<"EM_X86_64", 62>>, <<"EM_DSPIC30F", 118>>, <<"EM_AARCH64", 183>>, <<"EM_BPF", 247>>,
      <<"EM_LOONGARCH", 251>>>>
ENUM_VERSYM == <<<<"VER_NDX_LOCAL", 0>>, <<"VER_NDX_GLOBAL", 1>>>>

\* The processor's codes are added to the common ones.
WithProcessor(s, common, extra) ==
    IF s.machine \in DOMAIN extra THEN common \o extra[s.machine] ELSE common
ENUM_P_TYPE(s) ==
    WithProcessor(s,
        <<<<"PT_LOAD", 1>>, <<"PT_DYNAMIC", 2>>, <<"PT_INTERP", 3>>, <<"PT_NOTE", 4>>,
          <<"PT_PHDR", 6>>, <<"PT_TLS", 7>>, <<"PT_GNU_RELRO", 82>>>>,
        [EM_ARM |-> <<<<"PT_ARM_EXIDX", 113>>>>, EM_MIPS |-> <<<<"PT_MIPS_REGINFO", 112>>>>])
ENUM_SH_TYPE(s) ==
    WithProcessor(s,
        <<<<"SHT_NULL", 0>>, <<"SHT_PROGBITS", 1>>, <<"SHT_SYMTAB", 2>>, <<"SHT_STRTAB", 3>>,
          <<"SHT_RELA", 4>>, <<"SHT_HASH", 5>>, <<"SHT_DYNAMIC", 6>>, <<"SHT_NOTE", 7>>,
          <<"SHT_NOBITS", 8>>, <<"SHT_REL", 9>>, <<"SHT_DYNSYM", 11>>, <<"SHT_SYMTAB_SHNDX", 18>>,
          <<"SHT_RELR", 19>>, <<"SHT_GNU_HASH", 246>>, <<"SHT_SUNW_syminfo", 252>>,
          <<"SHT_GNU_verdef", 253>>, <<"SHT_GNU_verneed", 254>>, <<"SHT_GNU_versym", 255>>>>,
        [EM_ARM |-> <<<<"SHT_ARM_EXIDX", 113>>, <<"SHT_ARM_ATTRIBUTES", 115>>>>,
         EM_X86_64 |-> <<<<"SHT_AMD64_UNWIND", 113>>>>])
ENUM_D_TAG_COMMON ==
    <<<<"DT_NULL", 0>>, <<"DT_NEEDED", 1>>, <<"DT_PLTRELSZ", 2>>, <<"DT_HASH", 4>>,
      <<"DT_STRTAB", 5>>, <<"DT_SYMTAB", 6>>, <<"DT_RELA", 7>>, <<"DT_RELASZ", 8>>,
      <<"DT_RELAENT", 9>>, <<"DT_SYMENT", 11>>, <<"DT_SONAME", 14>>, <<"DT_RPATH", 15>>,
      <<"DT_REL", 17>>, <<"DT_RELSZ", 18>>, <<"DT_RELENT", 19>>, <<"DT_PLTREL", 20>>,
      <<"DT_JMPREL", 23>>, <<"DT_RUNPATH", 29>>, <<"DT_RELRSZ", 35>>, <<"DT_RELR", 36>>,
      <<"DT_RELRENT", 37>>, <<"DT_GNU_HASH", 101>>>>
ENUM_D_TAG(s) ==
    ENUM_D_TAG_COMMON
    \o (IF s.machine = "EM_MIPS" THEN <<<<"DT_MIPS_FLAGS", 112>>>>
       ELSE IF s.osabi = "ELFOSABI_SOLARIS" THEN <<<<"DT_SUNW_FILTER", 97>>>> ELSE <<>>)

------------------------------------------------------------------------------
(* the structures *)

Elf_Ehdr(s) ==
    LET ident == StructOf("e_ident",
                     <<Array(Fixed(4), byte(s, "EI_MAG")),
                       Enum(byte(s, "EI_CLASS"), ELFCLASS, <<"raise">>),
                       Enum(byte(s, "EI_DATA"), ELFDATA, <<"raise">>),
                       byte(s, "EI_VERSION"), byte(s, "EI_OSABI"), byte(s, "EI_ABIVERSION"),
                       Padding(Fixed(7), 0, FALSE)>>, TRUE)
    IN  StructOf("Elf_Ehdr",
            <<ident, Enum(half(s, "e_type"), ENUM_E_TYPE, AnyCode),
              Enum(half(s, "e_machine"), ENUM_E_MACHINE, AnyCode), word(s, "e_version"),
              addr(s, "e_entry"), addr(s, "e_phoff"), addr(s, "e_shoff"), word(s, "e_flags")>>
            \o halves(s, <<"e_ehsize", "e_phentsize", "e_phnum", "e_shentsize", "e_shnum",
                           "e_shstrndx">>), TRUE)

Elf_Phdr(s) ==
    LET p_type == Enum(word(s, "p_type"), ENUM_P_TYPE(s), AnyCode)
        places == <<addr(s, "p_offset"), addr(s, "p_vaddr"), addr(s, "p_paddr")>>
    IN  StructOf("Elf_Phdr",
            IF s.class = 32
            THEN <<p_type>> \o places \o words(s, <<"p_filesz", "p_memsz", "p_flags", "p_align">>)
            ELSE <<p_type, word(s, "p_flags")>> \o places
                 \o <<xword(s, "p_filesz"), xword(s, "p_memsz"), xword(s, "p_align")>>, TRUE)

Elf_Shdr(s) ==
    StructOf("Elf_Shdr",
        <<word(s, "sh_name"), Enum(word(s, "sh_type"), ENUM_SH_TYPE(s), AnyCode),
          xword(s, "sh_flags"), addr(s, "sh_addr"), addr(s, "sh_offset"), xword(s, "sh_size"),
          word(s, "sh_link"), word(s, "sh_info"), xword(s, "sh_addralign"),
          xword(s, "sh_entsize")>>, TRUE)

Elf_Chdr(s) ==
    StructOf("Elf_Chdr",
        <<Enum(word(s, "ch_type"), <<<<"ELFCOMPRESS_ZLIB", 1>>>>, AnyCode)>>
        \o (IF s.class = 64 THEN <<word(s, "ch_reserved")>> ELSE <<>>)
        \o <<xword(s, "ch_size"), xword(s, "ch_addralign")>>, TRUE)

\* r_info is taken apart: the low quarter of a word, or the low word, is the
\* type.  MIPS64 has the parts in the file; the number they would make is left out.
RelFields(s) ==
    LET Split(unit) ==
            <<xword(s, "r_info"), ValueOf("r_info_sym", <<"div", "r_info", unit, 256 ^ WordBytes>>),
              ValueOf("r_info_type", <<"div", "r_info", 1, unit>>)>>
    IN  IF s.class = 32 THEN Split(4 ^ WordBytes)
        ELSE IF s.machine = "EM_MIPS"
        THEN <<word(s, "r_sym"), byte(s, "r_ssym"), byte(s, "r_type3"), byte(s, "r_type2"),
               byte(s, "r_type"), Alias("r_info_sym", "r_sym"), Alias("r_info_ssym", "r_ssym"),
               Alias("r_info_type", "r_type"), Alias("r_info_type2", "r_type2"),
               Alias("r_info_type3", "r_type3")>>
        ELSE Split(256 ^ WordBytes)
Elf_Rel(s) == StructOf("Elf_Rel", <<addr(s, "r_offset")>> \o RelFields(s), TRUE)
Elf_Rela(s) ==
    StructOf("Elf_Rela", <<addr(s, "r_offset")>> \o RelFields(s) \o <<sxword(s, "r_addend")>>, TRUE)

Elf_Relr(s) == StructOf("Elf_Relr", <<addr(s, "r_offset")>>, TRUE)

Elf_Dyn(s) ==
    StructOf("Elf_Dyn", <<Enum(sxword(s, "d_tag"), ENUM_D_TAG(s), AnyCode),
                          xword(s, "d_val"), Alias("d_ptr", "d_val")>>, TRUE)

Elf_Sym(s) ==
    LET Bits(name, width, pairs) == Enum(BitField(name, width, FALSE, FALSE, 8), pairs, AnyCode)
        st_info == BitStruct("st_info", <<Bits("bind", 4, <<<<"STB_GLOBAL", 1>>>>),
                                          Bits("type", 4, <<<<"STT_FUNC", 2>>>>)>>)
        st_other == BitStruct("st_other", <<Bits("local", 3, <<>>), Padding(Fixed(2), 0, FALSE),
                                            Bits("visibility", 3, <<<<"STV_HIDDEN", 2>>>>)>>)
        st_shndx == Enum(half(s, "st_shndx"), <<<<"SHN_UNDEF", 0>>>>, AnyCode)
    IN  StructOf("Elf_Sym",
            IF s.class = 32
            THEN <<word(s, "st_name"), addr(s, "st_value"), word(s, "st_size"), st_info, st_other,
                   st_shndx>>
            ELSE <<word(s, "st_name"), st_info, st_other, st_shndx, addr(s, "st_value"),
                   xword(s, "st_size")>>, TRUE)
Elf_Sunw_Syminfo(s) ==
    StructOf("Elf_Sunw_Syminfo",
        <<Enum(half(s, "si_boundto"), <<<<"SYMINFO_BT_SELF", 255>>>>, AnyCode),
          half(s, "si_flags")>>, TRUE)

Elf_Verneed(s) ==
    StructOf("Elf_Verneed", halves(s, <<"vn_version", "vn_cnt">>)
                            \o words(s, <<"vn_file", "vn_aux", "vn_next">>), TRUE)
Elf_Vernaux(s) ==
    StructOf("Elf_Vernaux", <<word(s, "vna_hash")>> \o halves(s, <<"vna_flags", "vna_other">>)
                            \o words(s, <<"vna_name", "vna_next">>), TRUE)
Elf_Verdef(s) ==
    StructOf("Elf_Verdef", halves(s, <<"vd_version", "vd_flags", "vd_ndx", "vd_cnt">>)
                           \o words(s, <<"vd_hash", "vd_aux", "vd_next">>), TRUE)
Elf_Verdaux(s) == StructOf("Elf_Verdaux", words(s, <<"vda_name", "vda_next">>), TRUE)
Elf_Versym(s) == StructOf("Elf_Versym", <<Enum(half(s, "ndx"), ENUM_VERSYM, AnyCode)>>, TRUE)

Elf_abi(s) ==
    StructOf("Elf_abi", <<Enum(word(s, "abi_os"), <<<<"ELF_NOTE_OS_LINUX", 0>>>>, AnyCode)>>
                        \o words(s, <<"abi_major", "abi_minor", "abi_tiny">>), TRUE)
CheckedName(bytes) ==
    <<CString("sup_filename", <<0>>, ""),
      String("sup_checksum", Fixed(bytes), "", -1, "right", "right")>>
Elf_debugaltlink == StructOf("Elf_debugaltlink", CheckedName(5 * WordBytes), TRUE)

\* The three families of processor properties have one form.  The data of any
\* other has the length it says; then come bytes up to a word or an xword.
ProcessorProperties == {"GNU_PROPERTY_X86_FEATURE_1_AND", "GNU_PROPERTY_AARCH64_FEATURE_1_AND"}
Elf_Prop(s) ==
    LET stack == ListV(<<NameV("GNU_PROPERTY_STACK_SIZE"), IntV(XwordBytes(s))>>)
    IN  StructOf("Elf_Prop",
            <<Enum(word(s, "pr_type"), <<<<"GNU_PROPERTY_STACK_SIZE", 1>>,
                                         <<"GNU_PROPERTY_NO_COPY_ON_PROTECTED", 2>>,
                                         <<"GNU_PROPERTY_X86_FEATURE_1_AND", 192>>>>, AnyCode),
              word(s, "pr_datasz"),
              SwitchOn("pr_data", <<"property", "pr_type", ProcessorProperties>>,
                       stack :> xword(s, "pr_data")
                       @@ NameV("processor") :> word(s, "pr_data"),
                       Field("pr_data", <<"key", "pr_datasz">>), FALSE),
              Padding(<<"align", "pr_datasz", XwordBytes(s)>>, 0, FALSE)>>, TRUE)

\* Only some 32-bit machines have 16-bit user and group numbers.
Elf_ugid(s, name) ==
    IF s.class = 32 /\ s.machine \in {"EM_ARM", "EM_386"} THEN half(s, name) ELSE word(s, name)
ENUM_NOTE_N_TYPE == <<<<"NT_GNU_ABI_TAG", 1>>, <<"NT_GNU_BUILD_ID", 3>>,
                      <<"NT_GNU_GOLD_VERSION", 4>>, <<"NT_GNU_PROPERTY_TYPE_0", 5>>>>
ENUM_CORE_NOTE_N_TYPE == <<<<"NT_PRPSINFO", 3>>, <<"NT_FILE", 70>>>>
Elf_Nhdr(s) ==
    LET types == IF s.etype = "ET_CORE" THEN ENUM_CORE_NOTE_N_TYPE ELSE ENUM_NOTE_N_TYPE
    IN  StructOf("Elf_Nhdr", words(s, <<"n_namesz", "n_descsz">>)
                             \o <<Enum(word(s, "n_type"), types, AnyCode)>>, TRUE)
\* The names of 16 and 80 characters are one word and five words long here.
Elf_Prpsinfo(s) ==
    LET Name(name, n) == String(name, Fixed(n), "", -1, "right", "right")
    IN  StructOf("Elf_Prpsinfo",
            <<byte(s, "pr_state"), Name("pr_sname", 1), byte(s, "pr_zomb"), byte(s, "pr_nice")>>
            \o (IF s.class = 64 THEN <<Padding(Fixed(4), 0, FALSE)>> ELSE <<>>)
            \o <<xword(s, "pr_flag"), Elf_ugid(s, "pr_uid"), Elf_ugid(s, "pr_gid")>>
            \o words(s, <<"pr_pid", "pr_ppid", "pr_pgrp", "pr_sid">>)
            \o <<Name("pr_fname", WordBytes), Name("pr_psargs", 5 * WordBytes)>>, TRUE)
Elf_Nt_File(s) ==
    StructOf("Elf_Nt_File",
        <<xword(s, "num_map_entries"), xword(s, "page_size"),
          Array(<<"key", "num_map_entries">>,
                StructOf("Elf_Nt_File_Entry", <<addr(s, "vm_start"), addr(s, "vm_end"),
                                                addr(s, "page_offset")>>, TRUE)),
          Array(<<"key", "num_map_entries">>, CString("filename", <<0>>, ""))>>, TRUE)

Elf_Stabs(s) ==
    StructOf("Elf_Stabs", <<word(s, "n_strx"), byte(s, "n_type"), byte(s, "n_other"),
                            half(s, "n_desc"), word(s, "n_value")>>, TRUE)

Elf_Attr_Subsection_Header(s) ==
    StructOf("Elf_Attr_Subsection",
             <<word(s, "length"), CString("vendor_name", <<0>>, "ascii")>>, TRUE)
Elf_Attribute_Tag(name, pairs) == StructOf(name, <<Enum(ULEB128("tag"), pairs, <<"raise">>)>>, TRUE)
ENUM_ATTR_TAG_ARM ==
    <<<<"TAG_FILE", 1>>, <<"TAG_SECTION", 2>>, <<"TAG_CPU_NAME", 5>>, <<"TAG_CPU_ARCH", 6>>,
      <<"TAG_COMPATIBILITY", 32>>, <<"TAG_ALSO_COMPATIBLE_WITH", 65>>>>
ENUM_ATTR_TAG_RISCV ==
    <<<<"TAG_FILE", 1>>, <<"TAG_SECTION", 2>>, <<"TAG_STACK_ALIGN", 4>>, <<"TAG_ARCH", 5>>>>
Elf_Arm_Attribute_Tag == Elf_Attribute_Tag("Elf_Arm_Attribute_Tag", ENUM_ATTR_TAG_ARM)
Elf_RiscV_Attribute_Tag == Elf_Attribute_Tag("Elf_RiscV_Attribute_Tag", ENUM_ATTR_TAG_RISCV)

Elf_Hash(s) ==
    StructOf("Elf_Hash",
        words(s, <<"nbuckets", "nchains">>)
        \o <<Array(<<"key", "nbuckets">>, word(s, "buckets")),
             Array(<<"key", "nchains">>, word(s, "chains"))>>, TRUE)
Gnu_Hash(s) ==
    StructOf("Gnu_Hash",
        words(s, <<"nbuckets", "symoffset", "bloom_size", "bloom_shift">>)
        \o <<Array(<<"key", "bloom_size">>, xword(s, "bloom")),
             Array(<<"key", "nbuckets">>, word(s, "buckets"))>>, TRUE)

------------------------------------------------------------------------------
(* ehabi/structs.py *)

EH_index_struct(s) == StructOf("EH_index", words(s, <<"word0", "word1">>), TRUE)
EH_table_struct(s) == StructOf("EH_table", words(s, <<"word0">>), TRUE)


\* Every structure by its name.
ElfStructNames ==
    {"Elf_Ehdr", "Elf_Phdr", "Elf_Shdr", "Elf_Chdr", "Elf_Rel", "Elf_Rela", "Elf_Relr", "Elf_Dyn",
     "Elf_Sym", "Elf_Sunw_Syminfo", "Elf_Verneed", "Elf_Vernaux", "Elf_Verdef", "Elf_Verdaux",
     "Elf_Versym", "Elf_abi", "Elf_debugaltlink", "Elf_Prop", "Elf_Nhdr", "Elf_Prpsinfo",
     "Elf_Nt_File", "Elf_Stabs", "Elf_Attr_Subsection", "Elf_Arm_Attribute_Tag",
     "Elf_RiscV_Attribute_Tag", "Elf_Hash", "Gnu_Hash", "EH_index", "EH_table"}
ElfStruct(s, name) ==
    CASE name = "Elf_Ehdr" -> Elf_Ehdr(s) [] name = "Elf_Phdr" -> Elf_Phdr(s)
      [] name = "Elf_Shdr" -> Elf_Shdr(s) [] name = "Elf_Chdr" -> Elf_Chdr(s)
      [] name = "Elf_Rel" -> Elf_Rel(s) [] name = "Elf_Rela" -> Elf_Rela(s)
      [] name = "Elf_Relr" -> Elf_Relr(s) [] name = "Elf_Dyn" -> Elf_Dyn(s)
      [] name = "Elf_Sym" -> Elf_Sym(s)
      [] name = "Elf_Sunw_Syminfo" -> Elf_Sunw_Syminfo(s)
      [] name = "Elf_Verneed" -> Elf_Verneed(s) [] name = "Elf_Vernaux" -> Elf_Vernaux(s)
      [] name = "Elf_Verdef" -> Elf_Verdef(s) [] name = "Elf_Verdaux" -> Elf_Verdaux(s)
      [] name = "Elf_Versym" -> Elf_Versym(s) [] name = "Elf_abi" -> Elf_abi(s)
      [] name = "Elf_debugaltlink" -> Elf_debugaltlink [] name = "Elf_Prop" -> Elf_Prop(s)
      [] name = "Elf_Nhdr" -> Elf_Nhdr(s) [] name = "Elf_Prpsinfo" -> Elf_Prpsinfo(s)
      [] name = "Elf_Nt_File" -> Elf_Nt_File(s) [] name = "Elf_Stabs" -> Elf_Stabs(s)
      [] name = "Elf_Attr_Subsection" -> Elf_Attr_Subsection_Header(s)
      [] name = "Elf_Arm_Attribute_Tag" -> Elf_Arm_Attribute_Tag
      [] name = "Elf_RiscV_Attribute_Tag" -> Elf_RiscV_Attribute_Tag
      [] name = "Elf_Hash" -> Elf_Hash(s) [] name = "Gnu_Hash" -> Gnu_Hash(s)
      [] name = "EH_index" -> EH_index_struct(s) [] name = "EH_table" -> EH_table_struct(s)
=============================================================================
