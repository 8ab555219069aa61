---------------------------- MODULE DwarfFormats -----------------------------
(***************************************************************************)
(* The formats of DWARF (elftools/dwarf/structs.py), one operator per      *)
(* structure.  d is the DWARFStructs: [little, format, address_size,       *)
(* version] with a format of 32 or 64 and the address size in bytes.       *)
(*                                                                         *)
(* A 32-bit number has WordBytes bytes, a 16-bit one HalfBytes and a 64-bit*)
(* one two words; codes of the enumerations are the real ones, of tags and *)
(* attributes only a few.                                                  *)
(***************************************************************************)
EXTENDS ElfFormats

uint(d, name, w) == FormatField(name, w, FALSE, d.little)
uint8(d, name) == uint(d, name, 1)
uint16(d, name) == uint(d, name, HalfBytes)
uint24(d, name) == uint(d, name, WordBytes - (WordBytes \div 4))
uint32(d, name) == uint(d, name, WordBytes)
uint64(d, name) == uint(d, name, 2 * WordBytes)
int8(d, name) == FormatField(name, 1, TRUE, d.little)
OffsetBytes(d) == IF d.format = 32 THEN WordBytes ELSE 2 * WordBytes
offset(d, name) == uint(d, name, OffsetBytes(d))
target_addr(d, name) == uint(d, name, d.address_size)

initial_length(d, name) ==
    AdapterOf("initial_length", StructOf(name,
        <<uint32(d, "first"),
          If(<<"eq", "first", IntV(256 ^ WordBytes - 1)>>, uint64(d, "second"), NoneV)>>, TRUE))
Unit(d, name, fields) ==
    StructOf(name, <<initial_length(d, "unit_length"), uint16(d, "version")>> \o fields, TRUE)

AtLeast(key, n) == <<"between", key, n, MaxSize>>
Below(key, n) == <<"between", key, 0, n - 1>>

\* The type of a unit, the entry of a list: a structure embedded by its code.
Codes(names, first) == [i \in DOMAIN names |-> <<names[i], first + i - 1>>]
EmbeddedBy(key, names, Struct(_)) ==
    Embedded(SwitchOn("", <<"key", key>>,
        [v \in {NameV(names[i]) : i \in DOMAIN names} |-> Struct(v[2])], NoDefault, FALSE))

ENUM_DW_UT == <<"DW_UT_compile", "DW_UT_type", "DW_UT_partial", "DW_UT_skeleton",
                "DW_UT_split_compile", "DW_UT_split_type">>
UserUnits == <<<<"DW_UT_lo_user", 128>>, <<"DW_UT_hi_user", 255>>>>
CU_header(d) ==
    LET abbrev == offset(d, "debug_abbrev_offset")
        size == uint8(d, "address_size")
        Kind(unit) ==
            StructOf("", <<size, abbrev>>
                \o (IF unit \in {"DW_UT_skeleton", "DW_UT_split_compile"}
                    THEN <<uint64(d, "dwo_id")>>
                    ELSE IF unit \in {"DW_UT_type", "DW_UT_split_type"}
                    THEN <<uint64(d, "type_signature"), offset(d, "type_offset")>>
                    ELSE <<>>), TRUE)
        v5 == StructOf("", <<Enum(uint8(d, "unit_type"), Codes(ENUM_DW_UT, 1) \o UserUnits, <<"raise">>),
                             EmbeddedBy("unit_type", ENUM_DW_UT, Kind)>>, TRUE)
        v4 == StructOf("", <<abbrev, size>>, TRUE)
    IN  Unit(d, "Dwarf_CU_header",
             <<IfThenElse("", AtLeast("version", 5), Embedded(v5), Embedded(v4))>>)
TU_header(d) ==
    Unit(d, "Dwarf_TU_header",
         <<offset(d, "debug_abbrev_offset"), uint8(d, "address_size"), uint64(d, "signature"),
           offset(d, "type_offset")>>)

ENUM_DW_FORM ==
    Codes(<<"DW_FORM_null", "DW_FORM_addr", "DW_FORM_ref", "DW_FORM_block2", "DW_FORM_block4",
           "DW_FORM_data2", "DW_FORM_data4", "DW_FORM_data8", "DW_FORM_string", "DW_FORM_block",
           "DW_FORM_block1", "DW_FORM_data1", "DW_FORM_flag", "DW_FORM_sdata", "DW_FORM_strp",
           "DW_FORM_udata", "DW_FORM_ref_addr", "DW_FORM_ref1", "DW_FORM_ref2", "DW_FORM_ref4",
           "DW_FORM_ref8", "DW_FORM_ref_udata", "DW_FORM_indirect", "DW_FORM_sec_offset",
           "DW_FORM_exprloc", "DW_FORM_flag_present", "DW_FORM_strx", "DW_FORM_addrx",
           "DW_FORM_ref_sup4", "DW_FORM_strp_sup", "DW_FORM_data16", "DW_FORM_line_strp",
           "DW_FORM_ref_sig8", "DW_FORM_implicit_const", "DW_FORM_loclistx", "DW_FORM_rnglistx",
           "DW_FORM_ref_sup8", "DW_FORM_strx1", "DW_FORM_strx2", "DW_FORM_strx3", "DW_FORM_strx4",
           "DW_FORM_addrx1", "DW_FORM_addrx2", "DW_FORM_addrx3", "DW_FORM_addrx4">>, 0)

\* The parsers of the forms, without a name.  strx4 is a 64-bit number in the
\* code; a reference to another unit is an address in version 2; implicit_const
\* has no parser, since its value is not where the form is used.
dw_form(d) ==
    LET Block(length_field) == PrefixedArray(uint8(d, "elem"), length_field)
        Each(names, c) == [f \in names |-> c]
    IN  Each({"DW_FORM_addrx", "DW_FORM_udata", "DW_FORM_ref_udata", "DW_FORM_indirect",
              "DW_FORM_loclistx", "DW_FORM_rnglistx"}, ULEB128(""))
        @@ Each({"DW_FORM_addrx1", "DW_FORM_data1", "DW_FORM_strx1", "DW_FORM_flag",
                 "DW_FORM_ref1"}, uint8(d, ""))
        @@ Each({"DW_FORM_addrx2", "DW_FORM_data2", "DW_FORM_strx2", "DW_FORM_ref2"}, uint16(d, ""))
        @@ Each({"DW_FORM_addrx3", "DW_FORM_strx3"}, uint24(d, ""))
        @@ Each({"DW_FORM_addrx4", "DW_FORM_data4", "DW_FORM_ref", "DW_FORM_ref4",
                 "DW_FORM_ref_sup4"}, uint32(d, ""))
        @@ Each({"DW_FORM_data8", "DW_FORM_strx4", "DW_FORM_ref8", "DW_FORM_ref_sup8",
                 "DW_FORM_ref_sig8"}, uint64(d, ""))
        @@ Each({"DW_FORM_strp", "DW_FORM_strp_sup", "DW_FORM_line_strp", "DW_FORM_sec_offset",
                 "DW_FORM_GNU_strp_alt", "DW_FORM_GNU_ref_alt"}, offset(d, ""))
        @@ [DW_FORM_addr |-> target_addr(d, ""),
            DW_FORM_ref_addr |-> IF d.version = 2 THEN target_addr(d, "") ELSE offset(d, ""),
            DW_FORM_block1 |-> Block(uint8(d, "")), DW_FORM_block2 |-> Block(uint16(d, "")),
            DW_FORM_block4 |-> Block(uint32(d, "")), DW_FORM_block |-> Block(ULEB128("")),
            DW_FORM_exprloc |-> Block(ULEB128("")),
            DW_FORM_data16 |-> Array(Fixed(4 * WordBytes), uint8(d, "")),
            DW_FORM_string |-> CString("", <<0>>, ""),
            DW_FORM_implicit_const |-> NoConstruct,
            DW_FORM_sdata |-> SLEB128(""), DW_FORM_flag_present |-> StaticField("", 0)]

\* Attributes end at a null name with a null form; implicit_const has its value
\* in the declaration.
abbrev_declaration(d) ==
    LET attr_spec == StructOf("attr_spec",
            <<Enum(ULEB128("name"), <<<<"DW_AT_null", 0>>, <<"DW_AT_sibling", 1>>>>, AnyCode),
              Enum(ULEB128("form"), ENUM_DW_FORM, AnyCode),
              If(<<"eq", "form", NameV("DW_FORM_implicit_const")>>, SLEB128("value"), NoneV)>>, TRUE)
    IN  StructOf("Dwarf_abbrev_entry",
            <<Enum(ULEB128("tag"), <<<<"DW_TAG_compile_unit", 17>>>>, AnyCode),
              Enum(uint8(d, "children_flag"), <<<<"DW_CHILDREN_no", 0>>, <<"DW_CHILDREN_yes", 1>>>>,
                   <<"raise">>),
              RepeatUntilExcluding(
                  <<"fields", [name |-> NameV("DW_AT_null"), form |-> NameV("DW_FORM_null")]>>,
                  attr_spec)>>, TRUE)

debugsup(d) ==
    StructOf("Elf_debugsup", <<FormatField("version", HalfBytes, TRUE, d.little),
                               uint8(d, "is_supplementary"), CString("sup_filename", <<0>>, "")>>, TRUE)
\* The name is padded to a multiple of four.
debuglink ==
    LET Pad(n) == String("sup_padding", Fixed(n), "", -1, "right", "right")
    IN  StructOf("Elf_debuglink",
            <<CString("sup_filename", <<0>>, ""),
              SwitchOn("", <<"mod", "sup_filename", 4>>,
                       [v \in {IntV(n) : n \in 0..3} |-> Pad(3 - v[2])], NoDefault, FALSE),
              String("sup_checksum", Fixed(WordBytes), "", -1, "right", "right")>>, TRUE)

aranges_header(d) ==
    Unit(d, "Dwarf_aranges_header", <<offset(d, "debug_info_offset"), uint8(d, "address_size"),
                                      uint8(d, "segment_size")>>)
nameLUT_header(d) ==
    Unit(d, "Dwarf_nameLUT_header", <<offset(d, "debug_info_offset"), offset(d, "debug_info_length")>>)
string_offsets_table_header(d) ==
    Unit(d, "Dwarf_string_offsets_table_header", <<uint16(d, "padding")>>)
address_table_header(d) ==
    Unit(d, "Dwarf_address_table_header", <<uint8(d, "address_size"), uint8(d, "segment_selector_size")>>)

------------------------------------------------------------------------------
(* the header of a line program *)

ENUM_DW_LNCT == Codes(<<"DW_LNCT_path", "DW_LNCT_directory_index", "DW_LNCT_timestamp",
                        "DW_LNCT_size", "DW_LNCT_MD5">>, 1)
lineprog_file_entry ==
    StructOf("file_entry",
        <<CString("name", <<0>>, ""),
          If(<<"nonempty", "name">>,
             Embedded(StructOf("", <<ULEB128("dir_index"), ULEB128("mtime"), ULEB128("length")>>, TRUE)),
             NoneV)>>, TRUE)
lineprog_header(d) ==
    LET v5 == AtLeast("version", 5)
        legacy == Below("version", 5)
        Formats(name) == If(v5, PrefixedArray(
            StructOf(name, <<Enum(ULEB128("content_type"), ENUM_DW_LNCT, <<"raise">>),
                             Enum(ULEB128("form"), ENUM_DW_FORM, AnyCode)>>, TRUE),
            uint8(d, "format_count")), NoneV)
        Entries(name, formats) == If(v5, PrefixedArray(
            FormattedEntry(name, dw_form(d), formats), ULEB128("count")), NoneV)
    IN  Unit(d, "Dwarf_lineprog_header",
            <<If(v5, uint8(d, "address_size"), NoneV), If(v5, uint8(d, "segment_selector_size"), NoneV),
              offset(d, "header_length"), uint8(d, "minimum_instruction_length"),
              If(AtLeast("version", 4), uint8(d, "maximum_operations_per_instruction"), IntV(1)),
              uint8(d, "default_is_stmt"), int8(d, "line_base"), uint8(d, "line_range"),
              uint8(d, "opcode_base"),
              Array(<<"plus", "opcode_base", -1>>, uint8(d, "standard_opcode_lengths")),
              Formats("directory_entry_format"), Entries("directories", "directory_entry_format"),
              Formats("file_name_entry_format"), Entries("file_names", "file_name_entry_format"),
              If(legacy, RepeatUntilExcluding(<<"in", {BytesV(<<>>)}>>,
                                              CString("include_directory", <<0>>, "")), NoneV),
              If(legacy, RepeatUntilExcluding(<<"empty", "name">>, lineprog_file_entry), NoneV)>>)

------------------------------------------------------------------------------
(* call frames, location and range lists *)

CIE_header(d) ==
    LET v4 == AtLeast("version", 4)
    IN  StructOf("Dwarf_CIE_header",
            <<initial_length(d, "length"), offset(d, "CIE_id"), uint8(d, "version"),
              CString("augmentation", <<0>>, ""), If(v4, uint8(d, "address_size"), NoneV),
              If(v4, uint8(d, "segment_size"), NoneV), ULEB128("code_alignment_factor"),
              SLEB128("data_alignment_factor"),
              IfThenElse("return_address_register", AtLeast("version", 2), ULEB128(""), uint8(d, ""))>>,
            TRUE)
FDE_header(d) ==
    StructOf("Dwarf_FDE_header", <<initial_length(d, "length"), offset(d, "CIE_pointer"),
                                   target_addr(d, "initial_location"), target_addr(d, "address_range")>>, TRUE)

lists_CU_header(d, name) ==
    StructOf(name,
        <<StreamOffset("cu_offset"), initial_length(d, "unit_length"), Alias("is64", "is64"),
          StreamOffset("offset_after_length"), uint16(d, "version"), uint8(d, "address_size"),
          uint8(d, "segment_selector_size"), uint32(d, "offset_count"),
          StreamOffset("offset_table_offset")>>, TRUE)

\* The fields of an entry; a location list has an expression after most of them.
ENUM_DW_LLE == <<"end_of_list", "base_addressx", "startx_endx", "startx_length", "offset_pair",
                 "default_location", "base_address", "start_end", "start_length">>
ENUM_DW_RLE == SelectSeq(ENUM_DW_LLE, LAMBDA n : n # "default_location")
EntryFields(d, kind) ==
    CASE kind \in {"end_of_list", "default_location"} -> <<>>
      [] kind = "base_addressx" -> <<ULEB128("index")>>
      [] kind = "startx_endx" -> <<ULEB128("start_index"), ULEB128("end_index")>>
      [] kind = "startx_length" -> <<ULEB128("start_index"), ULEB128("length")>>
      [] kind = "offset_pair" -> <<ULEB128("start_offset"), ULEB128("end_offset")>>
      [] kind = "base_address" -> <<target_addr(d, "address")>>
      [] kind = "start_end" -> <<target_addr(d, "start_address"), target_addr(d, "end_address")>>
      [] kind = "start_length" -> <<target_addr(d, "start_address"), ULEB128("length")>>
ListEntries(d, kinds, Fields(_)) ==
    RepeatUntilExcluding(<<"fields", [entry_type |-> NameV("end_of_list")]>>,
        StructOf("entry",
            <<StreamOffset("entry_offset"),
              Enum(uint8(d, "entry_type"), Codes(kinds, 0), <<"raise">>),
              EmbeddedBy("entry_type", kinds, LAMBDA k : StructOf(k, Fields(k), TRUE)),
              StreamOffset("entry_end_offset"),
              ValueOf("entry_length", <<"diff", "entry_end_offset", "entry_offset">>)>>, TRUE))
counted_location_description(d) == PrefixedArray(uint8(d, "loc_expr"), ULEB128(""))
loclists_entries(d) ==
    ListEntries(d, ENUM_DW_LLE, LAMBDA k : EntryFields(d, k) \o
        (IF k \in {"end_of_list", "base_addressx", "base_address"} THEN <<>>
         ELSE <<counted_location_description(d)>>))
locview_pair == StructOf("locview_pair", <<StreamOffset("entry_offset"), ULEB128("begin"), ULEB128("end")>>, TRUE)
rnglists_entries(d) == ListEntries(d, ENUM_DW_RLE, LAMBDA k : EntryFields(d, k))

\* Every structure by its name.
DwarfStructNames ==
    {"CU_header", "TU_header", "abbrev", "debugsup", "debuglink", "aranges", "nameLUT",
     "str_offsets", "addr_table", "file_entry", "lineprog", "CIE", "FDE", "loclists_CU",
     "rnglists_CU", "loclists", "locview_pair", "rnglists"}
DwarfStruct(d, name) ==
    CASE name = "CU_header" -> CU_header(d) [] name = "TU_header" -> TU_header(d)
      [] name = "abbrev" -> abbrev_declaration(d) [] name = "debugsup" -> debugsup(d)
      [] name = "debuglink" -> debuglink [] name = "aranges" -> aranges_header(d)
      [] name = "nameLUT" -> nameLUT_header(d)
      [] name = "str_offsets" -> string_offsets_table_header(d)
      [] name = "addr_table" -> address_table_header(d)
      [] name = "file_entry" -> lineprog_file_entry [] name = "lineprog" -> lineprog_header(d)
      [] name = "CIE" -> CIE_header(d) [] name = "FDE" -> FDE_header(d)
      [] name = "loclists_CU" -> lists_CU_header(d, "Dwarf_loclists_CU_header")
      [] name = "rnglists_CU" -> lists_CU_header(d, "Dwarf_rnglists_CU_header")
      [] name = "loclists" -> loclists_entries(d) [] name = "locview_pair" -> locview_pair
      [] name = "rnglists" -> rnglists_entries(d)
=============================================================================
