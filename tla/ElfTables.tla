------------------------------ MODULE ElfTables -------------------------------
(***************************************************************************)
(* The tables in the sections and segments of an ELF file: symbols         *)
(* (sections.py), hash tables (hash.py), the dynamic tags (dynamic.py),    *)
(* versions (gnuversions.py), notes (notes.py), stabs and build attributes *)
(* (sections.py).                                                          *)
(*                                                                         *)
(* The caller keeps the object of a section or segment, and with it what   *)
(* the object remembers: cache maps the object and the kind of memory to   *)
(* what is remembered.                                                     *)
(***************************************************************************)
EXTENDS ElfFile, GnuVersions, Bitwise

CONSTANT WordBits   \* the width of hash values, 32 in the program

Remembered(f, obj, what) ==
    IF <<obj.cls, what, obj.offset>> \in DOMAIN f.cache
    THEN <<f.cache[<<obj.cls, what, obj.offset>>]>> ELSE None
Remember(f, obj, what, v) ==
    [f EXCEPT !.cache = (<<obj.cls, what, obj.offset>> :> v) @@ @]

\* The methods of this module and those of ElfFile, by their names.
RECURSIVE CallTable(_, _, _)

------------------------------------------------------------------------------
(* symbols *)

entry_at(f, sec, format, n) ==
    struct_parse(f, format, sec.hdr.sh_offset + n * sec.hdr.sh_entsize)

\* num_symbols of the sections; the first entry of a syminfo table is its version.
section_num_symbols(f, sec) ==
    IF sec.hdr.sh_entsize = 0 THEN Raised(f, "ZeroDivisionError")
    ELSE Returned(f, sec.hdr.sh_size \div sec.hdr.sh_entsize
                     - (IF sec.cls = "SUNWSyminfoTableSection" THEN 1 ELSE 0))

\* SymbolTableIndexSection.get_section_index
get_symbol_section(f, sec, n) == entry_at(f, sec, "word", n)

------------------------------------------------------------------------------
(* dynamic.py; a dynamic table is a section or a segment *)

Dynamic(obj) ==
    IF obj.cls = "PT_DYNAMIC"
    THEN [cls |-> obj.cls, offset |-> obj.hdr.p_offset, link |-> obj.link,
          empty |-> obj.hdr.p_filesz = 0]
    ELSE [cls |-> obj.cls, offset |-> obj.hdr.sh_offset, link |-> obj.link, empty |-> FALSE]

\* _get_tag: the number of tags is a limit once it is known.
get_raw_tag(f, d, n) ==
    LET limit == IF d.empty THEN <<0>> ELSE Remembered(f, d, "num_tags")
    IN  IF limit # None /\ n >= limit[1] THEN Raised(f, "IndexError")
        ELSE struct_parse(f, "Elf_Dyn", d.offset + n * sizeof(f, "Elf_Dyn"))

\* The first tag of a type, or None.
first_tag(f, d, type) == CallTable(f, "tags_from", <<d, 0, {type}, FALSE, 1>>)
\* next(self.iter_tags(type)) without a default, and its value.
next_tag(f, d, type) ==
    LET r == CallTable(f, "tags_from", <<d, 0, {type}, TRUE, 1>>)
    IN  IF Failed(r) THEN r ELSE IF r.val = <<>> THEN Raised(r, "StopIteration")
        ELSE Returned(r, r.val[1].entry.d_val)

\* A pointer of zero is none.
get_table_offset(f, d, type) ==
    LET r == first_tag(f, d, type)
        ptr == r.val[1].d_val
        Pair(p, o) == [ptr |-> p, offset |-> o]
    IN  IF Failed(r) THEN r
        ELSE IF r.val = <<>> THEN Returned(r, Pair(None, None))
        ELSE IF ptr = 0 THEN Returned(r, Pair(<<ptr>>, None))
        ELSE Then(CallTable(r, "first_offset", <<ptr>>),
                  LAMBDA g : Returned(g, Pair(<<ptr>>, g.val)))

\* The linked section, or what the tags say, or the section of that name.
get_stringtable(f, d) ==
    LET known == IF d.link # None THEN d.link ELSE Remembered(f, d, "stringtable")
        Kept(g, table) == Returned(Remember(g, d, "stringtable", table), <<table>>)
        ByName(g) == Then(CallTable(g, "get_section_by_name", <<".dynstr">>),
                          LAMBDA h : IF h.val = None THEN h ELSE Kept(h, h.val[1]))
    IN  IF known # None THEN Returned(f, known)
        ELSE Then(CallTable(f, "get_table_offset", <<d, "DT_STRTAB">>),
                  LAMBDA g : IF g.val.offset = None THEN ByName(g)
                             ELSE Kept(g, [cls |-> "_DynamicStringTable",
                                           offset |-> g.val.offset[1]]))

HandledTags == {"DT_NEEDED", "DT_RPATH", "DT_RUNPATH", "DT_SONAME", "DT_SUNW_FILTER"}
DynamicTag(f, d, entry) ==
    LET Tag(g, text) == Returned(g, [entry |-> entry, text |-> text])
    IN  Then(CallTable(f, "get_stringtable", <<d>>),
             LAMBDA g : IF g.val = None THEN Raised(g, "ELFError")
                        ELSE IF entry.d_tag \notin HandledTags THEN Tag(g, None)
                        ELSE Then(get_string(g, g.val[1], entry.d_val),
                                  LAMBDA h : Tag(h, <<h.val>>)))

\* The tags from n on up to DT_NULL, those of the types only (of any for {}),
\* at most limit many; made into DynamicTags or left raw.  _iter_tags and
\* iter_tags, and what takes only their first element.
tags_from(f, d, n, types, made, limit) ==
    IF d.empty THEN Returned(f, <<>>)
    ELSE Then(CallTable(f, "get_raw_tag", <<d, n>>), LAMBDA raw :
         Then(IF types # {} /\ raw.val.d_tag \notin types THEN Returned(raw, <<>>)
              ELSE Then(IF made THEN DynamicTag(raw, d, raw.val) ELSE raw,
                        LAMBDA g : Returned(g, <<g.val>>)), LAMBDA got :
         IF raw.val.d_tag = "DT_NULL" \/ Len(got.val) = limit THEN got
         ELSE Then(CallTable(got, "tags_from", <<d, n + 1, types, made, limit - Len(got.val)>>),
                   LAMBDA g : Returned(g, got.val \o g.val))))
Unlimited == 1000
iter_tags(f, d, types) == CallTable(f, "tags_from", <<d, 0, types, TRUE, Unlimited>>)
get_tag(f, d, n) ==
    Then(CallTable(f, "get_raw_tag", <<d, n>>), LAMBDA g : DynamicTag(g, d, g.val))
num_tags(f, d) ==
    LET known == Remembered(f, d, "num_tags")
    IN  IF d.empty THEN Returned(f, 0)
        ELSE IF known # None THEN Returned(f, known[1])
        ELSE Then(CallTable(f, "iter_tags", <<d, {}>>),
                  LAMBDA g : Returned(Remember(g, d, "num_tags", Len(g.val)), Len(g.val)))

DT_RELA_CODE == 7   \* ENUM_D_TAG['DT_RELA']

\* A relocation table that the tags describe: place, size, and what is wrong
\* with the size of an entry.
tagged_table(f, d, kind) ==
    LET tags == [REL |-> <<"DT_REL", "DT_RELSZ", "DT_RELENT">>,
                 RELA |-> <<"DT_RELA", "DT_RELASZ", "DT_RELAENT">>,
                 RELR |-> <<"DT_RELR", "DT_RELRSZ", "DT_RELRENT">>,
                 JMPREL |-> <<"DT_JMPREL", "DT_PLTRELSZ", "DT_PLTREL">>][kind]
        Entry(third) ==
            IF kind = "RELR" THEN "Elf_Relr"
            ELSE IF kind = "RELA" \/ (kind = "JMPREL" /\ third = DT_RELA_CODE) THEN "Elf_Rela"
            ELSE "Elf_Rel"
    IN  Then(CallTable(f, "get_table_offset", <<d, tags[1]>>), LAMBDA at :
        Then(next_tag(at, d, tags[2]), LAMBDA size :
        Then(next_tag(size, d, tags[3]), LAMBDA third :
             Check(Returned(third, [offset |-> at.val.offset, size |-> size.val,
                                    entry |-> Entry(third.val)]),
                   kind = "JMPREL" \/ third.val = sizeof(f, Entry(third.val)), "ELFError"))))
get_relocation_tables(f, d) ==
    LET Present(g, kind) == CallTable(g, "iter_tags", <<d, {"DT_" \o kind}>>)
        Step(g, kind) ==
            LET has == Present(g, kind)
                table == CallTable(has, "tagged_table", <<d, kind>>)
            IN  IF Failed(g) THEN g
                ELSE IF Failed(has) THEN has
                ELSE IF has.val = <<>> THEN Returned(has, g.val)
                ELSE Then(table, LAMBDA h : Returned(h, (kind :> h.val) @@ g.val))
    IN  FoldLeft(Step, Returned(f, <<>>), <<"REL", "RELA", "RELR", "JMPREL">>)

------------------------------------------------------------------------------
(* hash.py *)

\* The top four bits of a word go to the fourth byte from above and are cleared;
\* a carry out of the word stays in the number.
elf_hash(name) ==
    LET Shift(h, c) ==
            LET wide == h * 16 + c
                top == (wide \div 2 ^ (WordBits - 4)) % 16
            IN  (wide - top * 2 ^ (WordBits - 4)) ^^ (top * 2 ^ (WordBits \div 8))
    IN  FoldLeft(Shift, 0, name)
gnu_hash(name) == FoldLeft(LAMBDA h, c : (h * 33 + c) % 2 ^ WordBits, 5381 % 2 ^ WordBits, name)

\* A table is its parameters, where it lies, and whose symbols it names.
ElfHashTable(f, at, owner) ==
    Then(struct_parse(f, "Elf_Hash", at),
         LAMBDA g : Returned(g, [params |-> g.val, owner |-> owner]))
GnuHashTable(f, at, owner) ==
    Then(struct_parse(f, "Gnu_Hash", at),
         LAMBDA g : Returned(g, [params |-> g.val, owner |-> owner,
                        chain |-> at + (4 + Len(g.val.buckets)) * sizeof(f, "word")
                                  + Len(g.val.bloom) * sizeof(f, "xword")]))
\* The table of a section was read when the section was made.
section_hash_table(sec) ==
    [params |-> sec.params[1], owner |-> sec.link[1],
     chain |-> IF sec.cls = "GNUHashSection" THEN sec.start ELSE 0]

\* A chain that returns to a symbol never ends.
RECURSIVE walk_chain(_, _, _, _, _)
walk_chain(f, table, key, n, passed) ==
    LET sym == CallTable(f, "get_symbol", <<table.owner, n>>)
    IN  IF n = 0 THEN Returned(f, None)
        ELSE IF n \in passed THEN Raised(f, "Hangs")
        ELSE IF Failed(sym) THEN sym
        ELSE IF sym.val.name = key THEN Returned(sym, <<sym.val>>)
        ELSE IF n >= Len(table.params.chains) THEN Raised(sym, "IndexError")
        ELSE walk_chain(sym, table, key, table.params.chains[n + 1], passed \cup {n})
elf_lookup(f, table, key) ==
    LET buckets == table.params.buckets
    IN  IF buckets = <<>> THEN Returned(f, None)
        ELSE walk_chain(f, table, key, buckets[(elf_hash(f.spelling[key]) % Len(buckets)) + 1], {})

\* A hash of the chain is read where the stream is; get_symbol moves it, so that
\* after a symbol of the same hash and another name the next one is read
\* elsewhere.
read_hash(f) ==
    LET g == struct_parse_here(f, "word") IN IF Failed(g) THEN Raised(g, "struct.error") ELSE g
walk_hashes(f, table, key, n) ==
    Then(read_hash(f), LAMBDA cur :
    LET same == cur.val \div 2 = gnu_hash(f.spelling[key]) \div 2
    IN  Then(IF same THEN CallTable(cur, "get_symbol", <<table.owner, n>>) ELSE cur, LAMBDA sym :
        IF same /\ sym.val.name = key THEN Returned(sym, <<sym.val>>)
        ELSE IF cur.val % 2 = 1 THEN Returned(sym, None)
        ELSE CallTable(sym, "walk_hashes", <<table, key, n + 1>>)))

\* A word of the Bloom filter is the set of its bits that are set.
matches_bloom(f, params, hash) ==
    LET bits == f.class
        word == params.bloom[((hash \div bits) % Len(params.bloom)) + 1]
    IN  {hash % bits, (hash \div 2 ^ params.bloom_shift) % bits} \subseteq word
chain_start(f, table, n) == table.chain + (n - table.params.symoffset) * sizeof(f, "word")
gnu_lookup(f, table, key) ==
    LET hash == gnu_hash(f.spelling[key])
        n == table.params.buckets[(hash % Len(table.params.buckets)) + 1]
    IN  IF table.params.bloom = <<>> THEN Raised(f, "ZeroDivisionError")
        ELSE IF ~matches_bloom(f, table.params, hash) THEN Returned(f, None)
        ELSE IF table.params.buckets = <<>> THEN Raised(f, "ZeroDivisionError")
        ELSE IF n < table.params.symoffset THEN Returned(f, None)
        ELSE CallTable([f EXCEPT !.pos = chain_start(f, table, n)], "walk_hashes", <<table, key, n>>)

BugLastIndex(f, table) ==
    IF table.params.buckets = <<>> THEN Raised(f, "ValueError")
    ELSE Returned(f, Max(Range(table.params.buckets)) + 1)
\* The end of the chain of the highest bucket.
RECURSIVE end_of_chain(_, _)
end_of_chain(f, n) ==
    Then(read_hash(f), LAMBDA cur : IF cur.val % 2 = 1 THEN Returned(cur, n + 1)
                                    ELSE end_of_chain(cur, n + 1))
gnu_number_of_symbols(f, table) ==
    LET top == Max(Range(table.params.buckets))
    IN  IF table.params.buckets = <<>> THEN Raised(f, "ValueError")
        ELSE IF top < table.params.symoffset THEN Returned(f, table.params.symoffset)
        ELSE end_of_chain([f EXCEPT !.pos = chain_start(f, table, top)], top)

------------------------------------------------------------------------------
(* dynamic.py: the symbols a segment describes *)

\* Without a hash table the symbols end at the next higher value of any tag, or
\* at the end of the last segment that holds the table.
extent(f, start, tags) ==
    LET above == {t.d_val : t \in {u \in tags : u.d_val > start}}
        Count(g, end) == Returned(g, (end - start) \div sizeof(f, "Elf_Sym"))
        Reaches(s) == s.hdr.p_vaddr <= start /\ start <= s.hdr.p_vaddr + s.hdr.p_filesz
    IN  IF \E t \in tags : t.d_tag = "DT_SYMENT" /\ t.d_val # sizeof(f, "Elf_Sym")
        THEN Raised(f, "ELFError")
        ELSE IF above # {} THEN Count(f, Min(above))
        ELSE Then(Keep(CallTable(f, "segments", <<>>), Reaches), LAMBDA g :
             IF g.val = <<>> THEN Raised(g, "TypeError")
             ELSE Count(g, Last(g.val).hdr.p_vaddr + Last(g.val).hdr.p_filesz))
symbols_by_extent(f, seg) ==
    Then(CallTable(f, "get_table_offset", <<Dynamic(seg), "DT_SYMTAB">>), LAMBDA table :
    IF table.val.ptr = None \/ table.val.offset = None THEN Raised(table, "ELFError")
    ELSE Then(CallTable(table, "iter_tags", <<Dynamic(seg), {}>>), LAMBDA all :
         extent(all, table.val.ptr[1], {all.val[i].entry : i \in DOMAIN all.val})))

\* A GNU hash table is preferred to the other kind.
count_symbols(f, seg) ==
    Then(CallTable(f, "get_table_offset", <<Dynamic(seg), "DT_GNU_HASH">>), LAMBDA gnu :
    IF gnu.val.offset # None
    THEN Then(GnuHashTable(gnu, gnu.val.offset[1], seg),
              LAMBDA g : CallTable(g, "gnu_number_of_symbols", <<g.val>>))
    ELSE Then(CallTable(gnu, "get_table_offset", <<Dynamic(seg), "DT_HASH">>), LAMBDA elf :
         IF elf.val.offset # None
         THEN Then(ElfHashTable(elf, elf.val.offset[1], seg),
                   LAMBDA g : Returned(g, Len(g.val.params.chains)))
         ELSE CallTable(elf, "symbols_by_extent", <<seg>>)))
segment_num_symbols(f, seg) ==
    LET known == Remembered(f, Dynamic(seg), "num_symbols")
    IN  IF known # None THEN Returned(f, known[1])
        ELSE Then(count_symbols(f, seg),
                  LAMBDA g : Remember(g, Dynamic(seg), "num_symbols", g.val))

segment_symbol(f, seg, n) ==
    Then(CallTable(f, "get_table_offset", <<Dynamic(seg), "DT_SYMTAB">>), LAMBDA table :
    IF table.val.ptr = None \/ table.val.offset = None THEN Raised(table, "ELFError")
    ELSE Then(struct_parse(table, "Elf_Sym", table.val.offset[1] + n * sizeof(f, "Elf_Sym")),
              LAMBDA entry :
         Then(CallTable(entry, "get_stringtable", <<Dynamic(seg)>>), LAMBDA strings :
         IF strings.val = None THEN Raised(strings, "AttributeError")
         ELSE Then(get_string(strings, strings.val[1], entry.val.st_name),
                   LAMBDA g : Returned(g, Symbol(entry.val, g.val))))))

\* get_symbol of everything that has symbols.
SymbolFormat == [SymbolTableSection |-> "Elf_Sym", SUNWSyminfoTableSection |-> "Elf_Sunw_Syminfo",
                 GNUVerSymSection |-> "Elf_Versym"]
get_symbol(f, owner, n) ==
    IF owner.cls = "PT_DYNAMIC" THEN CallTable(f, "segment_symbol", <<owner, n>>)
    ELSE IF owner.cls \notin DOMAIN SymbolFormat THEN Raised(f, "AttributeError")
    ELSE Then(entry_at(f, owner, SymbolFormat[owner.cls], n), LAMBDA entry :
         Then(IF owner.cls = "SymbolTableSection"
              THEN get_string(entry, owner.link[1], entry.val.st_name)
              ELSE Then(CallTable(entry, "get_symbol", <<owner.link[1], n>>),
                        LAMBDA g : Returned(g, g.val.name)),
              LAMBDA g : Returned(g, Symbol(entry.val, g.val))))

num_symbols(f, owner) ==
    IF owner.cls = "PT_DYNAMIC" THEN CallTable(f, "segment_num_symbols", <<owner>>) ELSE section_num_symbols(f, owner)
symbol_indices(owner, n) ==
    IF owner.cls = "SUNWSyminfoTableSection" THEN [i \in 1 .. n |-> i] ELSE Upto(n)
iter_symbols(f, owner) ==
    Then(CallTable(f, "num_symbols", <<owner>>),
         LAMBDA g : ForEach(g, symbol_indices(owner, g.val),
                            LAMBDA h, i : CallTable(h, "get_symbol", <<owner, i>>)))

\* The map by name is there before it is filled: an exception on the way leaves
\* what was found so far.
name_map(f, owner) ==
    LET Step(g, i) ==
            LET r == CallTable(g, "get_symbol", <<owner, i>>)
                map == Remembered(g, owner, "names")[1]
                known == IF r.val.name \in DOMAIN map THEN map[r.val.name] ELSE <<>>
            IN  IF Failed(g) THEN g ELSE IF Failed(r) THEN r
                ELSE Remember(r, owner, "names", (r.val.name :> Append(known, i)) @@ map)
    IN  IF Remembered(f, owner, "names") # None THEN f
        ELSE Then(CallTable(Remember(f, owner, "names", <<>>), "num_symbols", <<owner>>),
                  LAMBDA g : FoldLeft(Step, g, symbol_indices(owner, g.val)))
\* Only symbol tables and segments have this method.
get_symbol_by_name(f, owner, name) ==
    LET made == CallTable(f, "name_map", <<owner>>)
        map == Remembered(made, owner, "names")[1]
    IN  IF owner.cls \notin {"SymbolTableSection", "PT_DYNAMIC"} THEN Raised(f, "AttributeError")
        ELSE IF Failed(made) THEN made
        ELSE IF name \notin DOMAIN map THEN Returned(made, None)
        ELSE Then(ForEach(made, map[name], LAMBDA g, i : CallTable(g, "get_symbol", <<owner, i>>)),
                  LAMBDA g : Returned(g, <<g.val>>))

------------------------------------------------------------------------------
(* gnuversions.py: what the two classes of sections answer from their chains *)

\* The first of the names from one place on that has this index, any for None;
\* those after it are not read.
RECURSIVE first_indexed(_, _, _, _, _)
first_indexed(f, sec, at, count, index) ==
    IF count = 0 THEN Returned(f, None)
    ELSE Then(Yielded(AuxPass(sec, Chain(f, at))), LAMBDA g :
         IF g.val[1].entry.other \in (IF index = None THEN Nat \ {0} ELSE {index[1]}) THEN g
         ELSE first_indexed(g, sec, at + g.val[1].entry.next, count - 1, index))

\* From one version on: TRUE is remembered as soon as a name has an index, and the
\* search goes on with the next version.
RECURSIVE search_indexes(_, _, _, _)
search_indexes(f, sec, at, left) ==
    IF left = 0 THEN f
    ELSE Then(version_head(f, sec, at), LAMBDA v :
         Then(first_indexed(v, sec, at + v.val.entry.aux, v.val.entry.cnt, None), LAMBDA g :
         search_indexes(IF g.val = None THEN g ELSE Remember(g, sec, "has_indexes", TRUE),
                        sec, at + v.val.entry.next, left - 1)))
BugNotStored(f, sec) ==
    LET known == Remembered(f, sec, "has_indexes")
        Answer(g) == Returned(Remember(g, sec, "has_indexes", FALSE), Remembered(g, sec, "has_indexes")[1])
    IN  IF known # None THEN Returned(f, known[1])
        ELSE Then(search_indexes(Remember(f, sec, "has_indexes", FALSE), sec, sec.offset, sec.hdr.sh_info),
                  Answer)
\* FALSE is remembered before the search; what an exception leaves stays.
has_indexes(f, sec) ==
    LET known == Remembered(f, sec, "has_indexes")
        Answer(g) == Returned(g, Remembered(g, sec, "has_indexes")[1])
    IN  IF known # None THEN Returned(f, known[1])
        ELSE Then(search_indexes(Remember(f, sec, "has_indexes", FALSE), sec, sec.offset, sec.hdr.sh_info),
                  Answer)

\* The first version of an index, with an iterator over its names; for a needed
\* one, the first of its names of this index.
RECURSIVE version_from(_, _, _, _, _)
version_from(f, sec, at, left, index) ==
    LET Next(v) == version_from(v, sec, at + v.val.entry.next, left - 1, index)
        Names(v) == [at |-> at + v.val.entry.aux, left |-> v.val.entry.cnt]
    IN  IF left = 0 THEN Returned(f, None)
        ELSE Then(version_head(f, sec, at), LAMBDA v :
             IF sec.cls = "GNUVerDefSection"
             THEN IF v.val.entry.ndx = index THEN Returned(v, <<<<v.val, Names(v)>>>>) ELSE Next(v)
             ELSE Then(first_indexed(v, sec, Names(v).at, Names(v).left, <<index>>), LAMBDA g :
                  IF g.val # None THEN Returned(g, <<<<v.val, g.val[1]>>>>)
                  ELSE version_from(g, sec, at + v.val.entry.next, left - 1, index)))
get_version(f, sec, index) == version_from(f, sec, sec.offset, sec.hdr.sh_info, index)

------------------------------------------------------------------------------
(* notes.py *)

\* The data is decoded by the type and, but for core files, the name GNU.
note_format(type, name) ==
    CASE type = "NT_GNU_ABI_TAG" /\ name = "GNU" -> <<"Elf_abi">>
      [] type = "NT_PRPSINFO" -> <<"Elf_Prpsinfo">>
      [] type = "NT_FILE" -> <<"Elf_Nt_File">>
      [] OTHER -> None

RECURSIVE props_from(_, _, _, _)
props_from(f, at, end, got) ==
    LET p == struct_parse(f, "Elf_Prop", at)
        size == roundup(p.val.pr_datasz + 8, IF f.class = 32 THEN 2 ELSE 3)
    IN  IF at >= end THEN Returned(f, got)
        ELSE IF Failed(p) THEN p ELSE props_from(p, at + size, end, Append(got, p.val))

note_desc(f, type, name, at, size) ==
    LET format == note_format(type, name)
    IN  IF format # None THEN struct_parse(f, format[1], at)
        ELSE IF type = "NT_GNU_PROPERTY_TYPE_0" /\ name = "GNU"
             THEN props_from(f, at, at + size, <<>>)
        ELSE Cells(f, at, size)

\* The name is read up to its NUL within the bytes it has on disk.
RECURSIVE notes_from(_, _, _, _)
notes_from(f, at, end, got) ==
    IF at + sizeof(f, "Elf_Nhdr") >= end THEN Returned(f, got)
    ELSE Then(struct_parse(f, "Elf_Nhdr", at), LAMBDA header :
         LET n == header.val
             after == at + sizeof(f, "Elf_Nhdr")
             desc_at == after + roundup(n.n_namesz, 2)
             next == desc_at + roundup(n.n_descsz, 2)
             name == IF n.n_namesz = 0 THEN None ELSE <<f.strs[after]>>
         IN  IF n.n_namesz # 0 /\ after \notin DOMAIN f.strs THEN Raised(header, "ArrayError")
             ELSE Then(note_desc(header, n.n_type, IF name = None THEN "" ELSE name[1],
                                 desc_at, n.n_descsz), LAMBDA desc :
                  notes_from(desc, next, end,
                      Append(got, [n_type |-> n.n_type, n_name |-> name, n_desc |-> desc.val,
                                   n_offset |-> at, n_size |-> next - at]))))
iter_notes(f, at, size) == notes_from(f, at, at + size, <<>>)

------------------------------------------------------------------------------
(* sections.py: stabs and build attributes *)

RECURSIVE stabs_from(_, _, _, _)
stabs_from(f, at, end, got) ==
    LET s == struct_parse(f, "Elf_Stabs", at)
    IN  IF at >= end THEN Returned(f, got)
        ELSE IF Failed(s) THEN s
        ELSE stabs_from(s, at + sizeof(f, "Elf_Stabs"), end, Append(got, <<at, s.val>>))
iter_stabs(f, sec) == stabs_from(f, sec.offset, sec.offset + sec.hdr.sh_size, <<>>)

\* ARMAttribute and RISCVAttribute, from where the stream is: the section or
\* symbol numbers end with 0.
RECURSIVE numbers_here(_, _)
numbers_here(f, got) ==
    LET n == struct_parse_here(f, "uleb128")
    IN  IF Failed(n) THEN n
        ELSE IF n.val = 0 THEN Returned(n, got) ELSE numbers_here(n, Append(got, n.val))
Numbers == {"TAG_FILE", "TAG_SECTION", "TAG_SYMBOL"}
CpuNames == {"TAG_CPU_RAW_NAME", "TAG_CPU_NAME", "TAG_CONFORMANCE"}
attribute_value(f, tag, arm) ==
    LET Attribute(g, value, extra) == Returned(g, [tag |-> tag, value |-> value, extra |-> extra])
        Plain(format) == Then(struct_parse_here(f, format), LAMBDA g : Attribute(g, g.val, <<>>))
        \* a nested attribute with a value that is no string has a NUL after it
        Nested(g) ==
            IF g.val.tag \in CpuNames THEN Attribute(g, g.val, <<>>)
            ELSE Then(struct_parse_here(g, "byte"),
                      LAMBDA nul : elf_assert(Attribute(nul, g.val, <<>>), nul.val = 0))
    IN  IF tag \in Numbers
        THEN Then(struct_parse_here(f, "word"), LAMBDA size :
             Then(IF tag = "TAG_FILE" THEN Returned(size, <<>>) ELSE numbers_here(size, <<>>),
                  LAMBDA g : Attribute(g, size.val, g.val)))
        ELSE IF tag \in (IF arm THEN CpuNames ELSE {"TAG_ARCH"}) THEN Plain("ntbs")
        ELSE IF arm /\ tag = "TAG_COMPATIBILITY"
             THEN Then(struct_parse_here(f, "uleb128"), LAMBDA flag :
                  Then(struct_parse_here(flag, "ntbs"),
                       LAMBDA g : Attribute(g, flag.val, <<g.val>>)))
        ELSE IF arm /\ tag = "TAG_ALSO_COMPATIBLE_WITH"
             THEN Then(CallTable(f, "attribute_here", <<arm>>), Nested)
        ELSE Plain("uleb128")
attribute_here(f, arm) ==
    Then(struct_parse_here(f, IF arm THEN "Elf_Arm_Attribute_Tag" ELSE "Elf_RiscV_Attribute_Tag"),
         LAMBDA t : attribute_value(t, t.val.tag, arm))

\* An iterator over what a section, a subsection or a subsubsection holds:
\* where it starts and ends, whether it has begun.  It goes on where it finds
\* the stream.
Iterator(level, arm, start, end) ==
    [level |-> level, arm |-> arm, start |-> start, end |-> end, begun |-> FALSE]
subsections(sec) ==
    Iterator("subsection", sec.hdr.sh_type = "SHT_ARM_ATTRIBUTES", sec.start, sec.offset + sec.size)
Inside(it, item) ==
    Iterator(IF it.level = "subsection" THEN "subsubsection" ELSE "attribute", it.arm,
             item.start, item.end)

BugNotSought(f, it) ==
    LET at == f.pos
        g == [f EXCEPT !.pos = at]
        Item(h, label, size) ==
            [h EXCEPT !.val = <<[label |-> label, at |-> at, start |-> h.pos, end |-> at + size]>>,
                      !.pos = it.start + size]
    IN  IF at = it.end THEN Returned(g, None)
        ELSE IF it.level = "subsection"
             THEN Then(struct_parse(g, "Elf_Attr_Subsection_Header", at),
                       LAMBDA h : Item(h, h.val.vendor_name, h.val.length))
        ELSE IF it.level = "attribute"
             THEN Then(CallTable(g, "attribute_here", <<it.arm>>), LAMBDA h : Returned(h, <<h.val>>))
        ELSE Then(CallTable(g, "attribute_here", <<it.arm>>), LAMBDA h : Item(h, h.val.tag, h.val.value))
\* The item at the stream; the one after a sub- or subsubsection is looked for
\* its length after the start of the iteration.
next_item(f, it) ==
    LET at == IF it.begun THEN f.pos ELSE it.start
        g == [f EXCEPT !.pos = at]
        Item(h, label, size) ==
            [h EXCEPT !.val = <<[label |-> label, at |-> at, start |-> h.pos, end |-> at + size]>>,
                      !.pos = it.start + size]
    IN  IF at = it.end THEN Returned(g, None)
        ELSE CASE it.level = "subsection" ->
                      Then(struct_parse(g, "Elf_Attr_Subsection_Header", at),
                           LAMBDA h : Item(h, h.val.vendor_name, h.val.length))
               [] it.level = "subsubsection" ->
                      Then(CallTable(g, "attribute_here", <<it.arm>>), LAMBDA h : Item(h, h.val.tag, h.val.value))
               [] it.level = "attribute" ->
                      Then(CallTable(g, "attribute_here", <<it.arm>>), LAMBDA h : Returned(h, <<h.val>>))

\* list(...) of an iteration; it may never end.
items(f, it, got) ==
    LET r == CallTable(f, "next_item", <<it>>)
    IN  IF Failed(r) THEN r
        ELSE IF r.val = None THEN Returned(r, got)
        ELSE IF Len(got) = RecursionLimit THEN Raised(r, "Hangs")
        ELSE CallTable(r, "items", <<[it EXCEPT !.begun = TRUE], Append(got, r.val[1])>>)

------------------------------------------------------------------------------

CallTable(f, method, a) ==
    CASE method = "get_raw_tag" -> get_raw_tag(f, a[1], a[2])
      [] method = "tags_from" -> tags_from(f, a[1], a[2], a[3], a[4], a[5])
      [] method = "iter_tags" -> iter_tags(f, a[1], a[2])
      [] method = "get_tag" -> get_tag(f, a[1], a[2])
      [] method = "num_tags" -> num_tags(f, a[1])
      [] method = "get_table_offset" -> get_table_offset(f, a[1], a[2])
      [] method = "get_stringtable" -> get_stringtable(f, a[1])
      [] method = "tagged_table" -> tagged_table(f, a[1], a[2])
      [] method = "get_relocation_tables" -> get_relocation_tables(f, a[1])
      [] method = "get_symbol" -> get_symbol(f, a[1], a[2])
      [] method = "segment_symbol" -> segment_symbol(f, a[1], a[2])
      [] method = "symbols_by_extent" -> symbols_by_extent(f, a[1])
      [] method = "segment_num_symbols" -> segment_num_symbols(f, a[1])
      [] method = "num_symbols" -> num_symbols(f, a[1])
      [] method = "iter_symbols" -> iter_symbols(f, a[1])
      [] method = "name_map" -> name_map(f, a[1])
      [] method = "get_symbol_by_name" -> get_symbol_by_name(f, a[1], a[2])
      [] method = "get_symbol_section" -> get_symbol_section(f, a[1], a[2])
      [] method = "elf_lookup" -> elf_lookup(f, a[1], a[2])
      [] method = "gnu_lookup" -> gnu_lookup(f, a[1], a[2])
      [] method = "walk_hashes" -> walk_hashes(f, a[1], a[2], a[3])
      [] method = "gnu_number_of_symbols" -> gnu_number_of_symbols(f, a[1])
      [] method = "versions_from" -> versions_from(f, a[1], a[2], a[3])
      [] method = "iter_versions" -> iter_versions(f, a[1])
      [] method = "has_indexes" -> has_indexes(f, a[1])
      [] method = "get_version" -> get_version(f, a[1], a[2])
      [] method = "iter_notes" -> iter_notes(f, a[1], a[2])
      [] method = "iter_stabs" -> iter_stabs(f, a[1])
      [] method = "attribute_here" -> attribute_here(f, a[1])
      [] method = "next_item" -> next_item(f, a[1])
      [] method = "items" -> items(f, a[1], a[2])
      [] OTHER -> CallFile(f, method, a)
=============================================================================
