------------------------------ MODULE ReaderUse -------------------------------
(***************************************************************************)
(* A program that has an ELF file open: it holds the objects of sections   *)
(* and segments, asks them questions in any order and, between two steps   *)
(* of an iterator, asks others.  What an answer could depend on besides    *)
(* the file is what mem carries from call to call: where the one stream    *)
(* stands, the map of section names and what the objects remember.         *)
(***************************************************************************)
EXTENDS ElfRelocation, VerdefReaders

CONSTANTS
    Ids,           \* the files
    Image,         \* what is in each of them
    Questions,     \* what is asked of each: the method as op, the object as of, ...
    Iterations,    \* what is iterated over: records with over and of
    MaxQuestions

VARIABLES
    id,        \* the file that is open
    file,      \* the file as it was just after it had been opened
    mem,       \* what outlives a call
    last,      \* the last question and its answer
    clean,     \* no exception has interrupted the building of a map
    gen,       \* the iterator, if there is one, and what it iterates over
    yielded,   \* what it has yielded
    unmoved,   \* the stream has been where the iterator counts on finding it
    asked      \* how many questions so far
vars == <<id, file, mem, last, clean, gen, yielded, unmoved, asked>>

NoFile == "no file"
Memory(f) == [pos |-> f.pos, names |-> f.names, cache |-> f.cache]
Answered(q, f) == [q |-> q, err |-> f.err, val |-> f.val]
Here == [file EXCEPT !.pos = mem.pos, !.names = mem.names, !.cache = mem.cache]

\* of says which object is asked: a section or a segment by its number.
Object(of) ==
    Call(file, IF of[1] = "section" THEN "get_section" ELSE "get_segment", <<of[2]>>).val

\* A hash table is a section, or where a tag of the dynamic segment says.
HashTag == [gnu_lookup |-> "DT_GNU_HASH", elf_lookup |-> "DT_HASH"]
TableAt(op, at, o) ==
    IF op = "gnu_lookup" THEN GnuHashTable(file, at, o).val ELSE ElfHashTable(file, at, o).val
HashTable(q, o) ==
    IF q.of[1] = "section" THEN section_hash_table(o)
    ELSE TableAt(q.op, Call(file, "get_table_offset",
                            <<Dynamic(o), HashTag[q.op]>>).val.offset[1], o)

Arguments(q, o) ==
    CASE q.op = "get_section_by_name" -> <<q.name>>
      [] q.op \in {"iter_sections", "iter_segments"} -> <<q.types>>
      [] q.op = "address_offsets" -> <<q.at, 1>>
      [] q.op \in {"num_tags", "get_relocation_tables"} -> <<Dynamic(o)>>
      [] q.op = "get_tag" -> <<Dynamic(o), q.n>>
      [] q.op = "iter_tags" -> <<Dynamic(o), {}>>
      [] q.op \in {"get_interp_name", "iter_symbols", "has_indexes", "iter_stabs"} -> <<o>>
      [] q.op = "get_symbol_by_name" -> <<o, q.name>>
      [] q.op \in {"get_symbol_section", "get_version", "get_relr"} -> <<o, q.n>>
      [] q.op \in DOMAIN HashTag -> <<HashTable(q, o), q.name>>
      [] q.op = "iter_notes" -> <<o.hdr.p_offset, o.hdr.p_filesz>>
      [] q.op = "items" -> <<subsections(o), <<>>>>
      [] q.op = "get_dwarf_info" -> <<TRUE, TRUE>>
      [] q.op \in {"has_dwarf_info", "has_ehabi_info", "get_ehabi_infos"} -> <<>>
Ask(f, q) == Call(f, q.op, Arguments(q, Object(q.of)))

\* The Python hook's reader of the version of a library.
get_glibcxx_versions_from_gnu_version_d(f) ==
    Then(Call(f, "get_section_by_name", <<".gnu.version_d">>),
         LAMBDA g : IF g.val = None THEN Raised(g, "ValueError")
                    ELSE IF g.val[1].cls \notin {"GNUVerDefSection", "GNUVerNeedSection"}
                         THEN Raised(g, "AttributeError")
                    ELSE highest_version(g, g.val[1]))

BuildsMap ==
    {"get_section_by_name", "get_symbol_by_name", "has_indexes", "has_dwarf_info", "get_dwarf_info"}

------------------------------------------------------------------------------

TypeOK ==
    /\ id \in Ids \cup {NoFile}
    /\ clean \in BOOLEAN /\ unmoved \in BOOLEAN /\ asked \in 0..MaxQuestions
    /\ mem.pos \in Nat
    /\ mem.names # None =>
           \A n \in Range(mem.names[1]) : n < Call(file, "num_sections", <<>>).val
    /\ last.err \in {"", "ELFError", "ELFParseError", "ELFRelocationError", "ELFCompressionError",
                     "AttributeError", "IndexError", "KeyError", "TypeError", "ValueError",
                     "StopIteration", "OSError", "AssertionError", "UnicodeDecodeError",
                     "ZeroDivisionError", "struct.error", "ArrayError"}

Init ==
    /\ id = NoFile /\ file = None
    /\ mem = [pos |-> 0, names |-> None, cache |-> <<>>]
    /\ last = [q |-> [op |-> "none"], err |-> "", val |-> None]
    /\ clean = TRUE /\ gen = None /\ yielded = <<>> /\ unmoved = TRUE /\ asked = 0

Open(i) ==
    /\ id = NoFile
    /\ id' = i
    /\ file' = OpenFile(Image[i])
    /\ mem' = Memory(file')
    /\ last' = Answered([op |-> "open"], file')
    /\ UNCHANGED <<clean, gen, yielded, unmoved, asked>>

Opened == id # NoFile /\ file.err = ""
\* A half made map is one that an exception leaves behind.
LeavesMapHalfMade(q, f) ==
    Failed(f) /\ q.op \in BuildsMap /\ (f.names # mem.names \/ f.cache # mem.cache)
\* An iterator over attributes that has begun goes on where it finds the stream.
CountsOnStream == gen # None /\ gen[1].nest # <<>> /\ Last(gen[1].nest).begun
Answer(q, f) ==
    /\ mem' = Memory(f)
    /\ last' = Answered(q, f)
    /\ clean' = (clean /\ ~LeavesMapHalfMade(q, f))
    /\ unmoved' = (unmoved /\ (CountsOnStream => f.pos = mem.pos))
AskFor(q) ==
    /\ asked < MaxQuestions
    /\ Answer(q, Ask(Here, q))
    /\ asked' = asked + 1
    /\ UNCHANGED <<id, file, gen, yielded>>

------------------------------------------------------------------------------
(* iterators: a generator keeps its own place, a number or an offset; those  *)
(* over attributes are nested, the innermost last                            *)

Place(it, o) ==
    [it |-> it, at |-> IF it.over = "versions" THEN o.offset ELSE 0,
     left |-> IF it.over = "versions" THEN o.hdr.sh_info ELSE Unlimited,
     nest |-> IF it.over = "attributes" THEN <<subsections(o)>> ELSE <<>>,
     err |-> ""]
Begin(it) ==
    /\ gen = None
    /\ gen' = <<Place(it, Object(it.of))>>
    /\ UNCHANGED <<id, file, mem, last, clean, yielded, unmoved, asked>>

\* A step takes the memory to f and the iterator to g, and may yield one value;
\* an exception ends the iterator.
Yield(f, g, v) ==
    /\ mem' = Memory(f)
    /\ gen' = <<IF Failed(f) THEN [gen[1] EXCEPT !.left = 0, !.nest = <<>>, !.err = f.err] ELSE g>>
    /\ yielded' = IF Failed(f) THEN yielded ELSE yielded \o v
    /\ UNCHANGED <<id, file, last, clean, unmoved, asked>>

YieldTag(f) ==
    Yield(f, [gen[1] EXCEPT !.at = @ + 1,
                            !.left = IF f.val.entry.d_tag = "DT_NULL" THEN 0 ELSE @],
          <<f.val>>)
AdvanceTags ==
    /\ gen # None /\ gen[1].it.over = "tags" /\ gen[1].left > 0
    /\ YieldTag(Call(Here, "get_tag", <<Dynamic(Object(gen[1].it.of)), gen[1].at>>))

YieldVersion(f) ==
    Yield(f, [gen[1] EXCEPT !.at = @ + f.val[1].entry.next, !.left = @ - 1], f.val)
AdvanceVersions ==
    /\ gen # None /\ gen[1].it.over = "versions" /\ gen[1].left > 0
    /\ YieldVersion(Call(Here, "versions_from", <<Object(gen[1].it.of), gen[1].at, 1>>))

\* Depth first: what an item holds comes before the next item.
YieldItem(f, it) ==
    LET outer == Append(Front(gen[1].nest), [it EXCEPT !.begun = TRUE])
    IN  IF f.val = None THEN Yield(f, [gen[1] EXCEPT !.nest = Front(@)], <<>>)
        ELSE Yield(f, [gen[1] EXCEPT !.nest = IF it.level = "attribute" THEN outer
                                              ELSE Append(outer, Inside(it, f.val[1]))], f.val)
AdvanceAttributes ==
    /\ gen # None /\ gen[1].it.over = "attributes" /\ gen[1].nest # <<>>
    /\ YieldItem(Call(Here, "next_item", <<Last(gen[1].nest)>>), Last(gen[1].nest))

Next ==
    \/ \E i \in Ids : Open(i)
    \/ Opened /\ \E q \in Questions[id] : AskFor(q)
    \/ Opened /\ \E it \in Iterations[id] : Begin(it)
    \/ AdvanceTags
    \/ AdvanceVersions
    \/ AdvanceAttributes

Spec == Init /\ [][Next]_vars

------------------------------------------------------------------------------

SameAnswer(fresh) == last.err = fresh.err /\ (last.err = "" => last.val = fresh.val)

\* What the objects and the file remember never changes an answer: every call
\* answers as it would have answered on a file just opened, with the same error
\* or the same value (the caches of hash.py, dynamic.py, gnuversions.py and
\* elffile.py, and the one stream).  A map whose building was interrupted by an
\* exception stays behind half made, and answers are no longer true.
AnswersAsIfFresh ==
    clean /\ last.q.op \notin {"none", "open"} => SameAnswer(Ask(file, last.q))

\* What was put into an attributes section, in the order of depth first, is part
\* of what is known of the file.
ItemsOf(attributes) == [i \in DOMAIN attributes |-> attributes[i].item]
WholeList(over, o) ==
    CASE over = "tags" -> Call(file, "iter_tags", <<Dynamic(o), {}>>).val
      [] over = "versions" -> Call(file, "iter_versions", <<o>>).val
      [] OTHER -> ItemsOf(file.truth.attributes)
Ended(g) == IF g.it.over = "attributes" THEN g.nest = <<>> ELSE g.left = 0
YieldedOf(list) ==
    gen[1].err = "" /\ IsPrefix(yielded, list) /\ (Ended(gen[1]) => yielded = list)

\* The first two items of a level when nothing is read of what they hold.
NextAlone(f, it) == Call(f, "next_item", <<it>>)
FirstTwo(it) ==
    LET one == NextAlone(file, it)
        two == NextAlone(one, [it EXCEPT !.begun = TRUE])
    IN  one.val \o two.val
HeldBy(it) ==
    SelectSeq(file.truth.attributes,
              LAMBDA x : x.level = it.level /\ x.item.at >= it.start /\ x.item.at < it.end)
BeginsRight(it) ==
    LET held == ItemsOf(HeldBy(it)) IN FirstTwo(it) = SubSeq(held, 1, Min({2, Len(held)}))
LevelsBeginRight(all) ==
    /\ BeginsRight(all)
    /\ \A i \in DOMAIN HeldBy(all) : BeginsRight(Inside(all, HeldBy(all)[i].item))

\* An iterator yields all that is there and raises nothing, whatever is asked
\* between its steps (iter_tags, iter_versions).  Over attributes (iter_
\* subsections, iter_subsubsections, iter_attributes) there are two exceptions.
\* What moves the stream between two steps may be asked only when a subsection or
\* subsubsection has just been yielded and what it holds has not been begun.  And
\* only who takes everything that an item holds before the next item gets them
\* all: the iterator of one level alone yields its first two items and looks for
\* the third in the wrong place.
IterationUndisturbed ==
    gen # None => LET it == gen[1].it IN
        /\ it.over # "attributes" \/ unmoved => YieldedOf(WholeList(it.over, Object(it.of)))
        /\ it.over = "attributes" => LevelsBeginRight(subsections(Object(it.of)))

------------------------------------------------------------------------------
(* what different ways to read one file say of each other, once it is open   *)

JustOpened == last.q.op = "open" /\ last.err = ""
Sections == Range(Call(file, "sections", <<>>).val)
Of(cls, secs) == {s \in secs : s.cls = cls}
SegmentsOf(type) == Range(Call(file, "iter_segments", <<{type}>>).val)
Symbols(owner) == Call(file, "iter_symbols", <<owner>>)
Defined(sym) == sym.entry.st_shndx # "SHN_UNDEF"

HashesAgree(gnu, elf, syms) ==
    LET names == DOMAIN file.spelling
        hash == [n \in names |-> gnu_hash(file.spelling[n])]
        exports == {i \in 2 .. Len(syms) : Defined(syms[i])}
        Chained(n) == {i \in exports : (hash[syms[i].name] - hash[n]) % Len(gnu.params.buckets) = 0}
        Misled(n) == \E i \in Chained(n) :
            /\ syms[i].name # n /\ hash[syms[i].name] \div 2 = hash[n] \div 2
            /\ \E j \in Chained(n) : j > i
            /\ \A j \in Chained(n) : syms[j].name = n => j > i
        hits(n, among) == {i \in among : syms[i].name = n}
        first(hit) == IF hit = {} THEN None ELSE <<syms[Min(hit)]>>
        Finds(r, v) == r.err = "" /\ r.val = v
        NoOther(r, n) == r.err = "" /\ r.val # None => r.val[1].name = n
        ElfAgrees(r, n) == /\ NoOther(r, n)
                           /\ Finds(r, first(hits(n, DOMAIN syms))) \/ elf_hash(file.spelling[n]) >= 2 ^ WordBits
        GnuAgrees(r, n) == NoOther(r, n) /\ (Finds(r, first(hits(n, exports))) \/ Misled(n))
    IN  /\ Call(file, "gnu_number_of_symbols", <<gnu>>).val = Len(syms)
        /\ Len(elf.params.chains) = Len(syms)
        /\ \A n \in names : /\ ElfAgrees(Call(file, "elf_lookup", <<elf, n>>), n)
                             /\ GnuAgrees(Call(file, "gnu_lookup", <<gnu, n>>), n)

\* Both hash tables find the symbols that a search through the symbol table
\* finds, the GNU one only those that are defined, never a symbol of another name,
\* and tell how many there are (ELFHashTable and GNUHashTable).  Two kinds of names
\* may go unfound or end in an error.  The GNU lookup loses its place after another
\* symbol of its chain whose hash is the same but for the last bit, unless that is
\* the last of the chain.  And elf_hash keeps a carry out of the word, which a
\* linker drops.
HashLookupsAgree ==
    JustOpened => \A g, e \in Sections :
        g.cls = "GNUHashSection" /\ e.cls = "ELFHashSection" =>
            HashesAgree(section_hash_table(g), section_hash_table(e), Symbols(g.link[1]).val)

TableOfSection(s) == [offset |-> <<s.offset>>, size |-> s.size, entry |-> "Elf_Rela"]
TellsTheSame(seg, secs, syms) ==
    /\ syms.err = ""
    /\ [i \in DOMAIN syms.val |-> syms.val[i].name] = file.truth.symbols
    /\ \A s \in Of("DynamicSection", secs) :
           /\ Call(file, "iter_tags", <<Dynamic(s), {}>>).val
               = Call(file, "iter_tags", <<Dynamic(seg), {}>>).val
           /\ {TableOfSection(r) : r \in Of("RelocationSection", secs)}
               \subseteq Range(Call(file, "get_relocation_tables", <<Dynamic(seg)>>).val)
    /\ \A s \in Of("SymbolTableSection", secs) :
           s.hdr.sh_type = "SHT_DYNSYM" => Symbols(s).val = syms.val
LeadsTo(s, load) ==
    /\ s.cls # "NullSection" /\ s.hdr.sh_type # "SHT_NOBITS" /\ "SHF_ALLOC" \in s.hdr.sh_flags
    /\ section_in_segment(s.hdr, load.hdr) /\ s.size > 0
    => /\ Call(file, "first_offset", <<s.hdr.sh_addr>>).val = <<s.offset>>
       /\ s.offset \in Range(Call(file, "address_offsets", <<s.hdr.sh_addr, s.size>>).val)
SegmentsAgree(segs, secs) ==
    \A seg \in segs : seg.hdr.p_type = "PT_DYNAMIC" =>
        /\ TellsTheSame(seg, secs, Symbols(seg))
        /\ \A s \in secs, load \in segs : load.hdr.p_type = "PT_LOAD" => LeadsTo(s, load)

\* The dynamic segment tells the same tags, symbols and tables as the sections
\* do, and the symbols even without sections, by either hash table or by none
\* (dynamic.py); an address leads to the offset that the section with that
\* address has (address_offsets, section_in_segment).
SectionsAndSegmentsAgree ==
    JustOpened => SegmentsAgree(Range(Call(file, "segments", <<>>).val), Sections)

PcRelative == {"R_X86_64_PC32", "R_386_PC32"}

NamesAll(list) ==
    Range(list) = file.truth.relr /\ \A i \in 2 .. Len(list) : list[i - 1] < list[i]
\* The relocations of a section's old contents to the new, with these symbols.
Lands(rel, old, new, syms) ==
    LET entries == Range(iter_relocations(file, section_relocations(rel)).val)
        recipes == Recipes(get_machine_arch(file), rel.hdr.sh_type = "SHT_RELA")
        Width(e) == recipes[e.r_info_type][1]
        Covered(e) == e.r_offset + 1 .. e.r_offset + Width(e)
        Cut(cells, e) == Stored(SubSeq(cells, e.r_offset + 1, e.r_offset + Width(e)), file.little)
        Addend(e) == IF "r_addend" \in DOMAIN e THEN e.r_addend ELSE Cut(old, e)
        Sum(e) == syms[e.r_info_sym + 1].entry.st_value + Addend(e)
                  - (IF e.r_info_type \in PcRelative THEN e.r_offset ELSE 0)
        Applies(e) == /\ e.r_info_type \in DOMAIN recipes
                      /\ e.r_info_sym < Len(syms)
                      /\ e.r_offset + Width(e) <= Len(old)
    IN  IF \E e \in entries : ~Applies(e)
        THEN new.err \in {"ELFRelocationError", "ELFParseError"}
        ELSE /\ new.err = "" /\ Len(new.val) = Len(old)
             /\ \A e \in entries : Cut(new.val, e) = Sum(e) % ByteBase ^ Width(e)
             /\ \A i \in DOMAIN old \ UNION {Covered(e) : e \in entries} : new.val[i] = old[i]
LandsOn(found, old) ==
    found # None =>
        Lands(found[1], old, Call(file, "apply_section_relocations", <<old, found[1]>>),
              Symbols(Call(file, "get_section", <<found[1].hdr.sh_link>>).val).val)

\* Applying the relocations of a debug section puts the sum of symbol, addend
\* and, for a relative one, the place into every place in the byte order and
\* width of its type, and changes nothing else; only a relocation that cannot
\* be applied is an error (RelocationHandler).  The compact form names the
\* addresses it was made from, in order (RelrRelocationTable).
RelocationsLand ==
    JustOpened => \A s \in Sections :
        /\ s.cls = "RelrRelocationSection" => NamesAll(Call(file, "relr_list", <<s>>).val)
        /\ s.cls = "Section" =>
               LandsOn(Call(file, "find_relocations_for_section", <<s>>).val,
                       Call(file, "section_data", <<s>>).val)

ReadersAgree(c, py, secs) ==
    LET parents == \E s \in Of("GNUVerDefSection", secs) :
                      \E v \in Range(Call(file, "iter_versions", <<s>>).val) : Len(v.aux) > 1
    IN  /\ c.ec = "success" => py.err = "" /\ py.val = c.version
        /\ c.ec = "fatal_error" => py.err # "" \/ py.val = 0
        /\ c.ec = "abort" => parents

\* The two readers of the version of a library tell the same one of a file that
\* a linker wrote (get_libstdcxx_version, get_glibcxx_versions_from_gnu_
\* version_d).  The C one may not end where a version names its parent: for the
\* parent's name it reads at eight times the distance.
CAndPythonAgree ==
    JustOpened /\ file.versions # <<>> =>
        ReadersAgree(get_libstdcxx_version(file),
                     get_glibcxx_versions_from_gnu_version_d(file), Sections)
=============================================================================
