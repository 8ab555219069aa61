---------------------------- MODULE VerdefReaders -----------------------------
(***************************************************************************)
(* The two readers of the version of a libstdc++: get_libstdcxx_version in *)
(* C, which walks the mapped file, and the loop of                         *)
(* get_glibcxx_versions_from_gnu_version_d in Python over what elftools    *)
(* yields.  GlibcxxVersion has the parsing of a version's name; here       *)
(* versions maps the names that begin with GLIBCXX_ to their versions.     *)
(*                                                                         *)
(* The C code reads the version definitions word by word at any address:   *)
(* words maps the offsets of .gnu.version_d to its words, of four bytes.   *)
(* Memory holds the file up to the end of its last page, mapped bytes.     *)
(***************************************************************************)
EXTENDS GnuVersions, FiniteSetsExt

\* ElfW(Shdr) number n, wherever that is.
Shdr(f, n) == f.recs[<<"Elf_Shdr", f.header.e_shoff + n * sizeof(f, "Elf_Shdr")>>].v
Word(f, at) == IF at \in DOMAIN f.words THEN f.words[at] ELSE 0
SizeofVerdef == 20
SizeofVerdaux == 8

\* What lies beyond is not mapped, and reading it faults.
InMemory(f, at, size) == at + size <= f.mapped

\* Walking either chain, the result is a set of versions, or the end of the
\* process: <<>> stands for the abort() of an ASSERT that failed and for a fault.
\* Strings that are no name are no version.
Aborted == <<>>
Found(vs) == <<vs>>
Join(a, b) == IF a = Aborted \/ b = Aborted THEN Aborted ELSE Found(a[1] \cup b[1])
VersionsAt(f, at) ==
    IF at \in DOMAIN f.strs /\ f.strs[at] \in DOMAIN f.versions THEN {f.versions[f.strs[at]]} ELSE {}
NameAt(f, at) == IF at >= f.len THEN Aborted ELSE Found(VersionsAt(f, at))

\* A step of vda_next counts entries of eight bytes, not bytes.
Stride(next) == SizeofVerdaux * next

\* The name in an entry; nothing but the first entry of a definition is compared
\* with the length of the file before it is read.
NameRead(f, strings, at) ==
    IF InMemory(f, at, SizeofVerdaux) THEN NameAt(f, strings + Word(f, at)) ELSE Aborted

\* The loop over vd_cnt names: where verdaux points and what was found.
AuxiliaryPass(f, strings, w) ==
    IF w.found = Aborted THEN w
    ELSE [at |-> w.at + Stride(Word(f, w.at + 4)),
          found |-> Join(w.found, NameRead(f, strings, w.at))]
auxiliaries(f, strings, at, count) ==
    LET after[n \in 0 .. count] ==
            IF n = 0 THEN [at |-> at, found |-> Found({})]
            ELSE AuxiliaryPass(f, strings, after[n - 1])
    IN  after[count].found

\* The definition at an offset; vd_cnt is the upper half of its second word and
\* vd_aux the fourth word.
definition(f, strings, at) ==
    LET aux == at + Word(f, at + 12)
    IN  IF ~InMemory(f, at, SizeofVerdef) \/ aux >= f.len THEN Aborted
        ELSE auxiliaries(f, strings, aux, Word(f, at + 4) \div 65536)

\* The loop over the definitions, each where vd_next of the one before says, in
\* the fifth word.  Every pass that goes on moves forward, so there are no more
\* than the section has bytes.
DefinitionPass(f, shdr, w) ==
    LET next == Word(f, w.at + 16)
    IN  IF w.ended \/ w.found = Aborted \/ w.at - shdr.sh_offset >= shdr.sh_size THEN w
        ELSE [at |-> w.at + next, ended |-> next = 0,
              found |-> Join(w.found, definition(f, Shdr(f, shdr.sh_link).sh_offset, w.at))]
definitions(f, shdr) ==
    LET after[n \in 0 .. shdr.sh_size] ==
            IF n = 0 THEN [at |-> shdr.sh_offset, ended |-> FALSE, found |-> Found({})]
            ELSE DefinitionPass(f, shdr, after[n - 1])
    IN  after[shdr.sh_size].found

\* Every section header is read, unless the process ends before.
HeadersInMemory(f) ==
    InMemory(f, f.header.e_shoff, f.header.e_shnum * sizeof(f, "Elf_Shdr"))

\* The bounds that are asserted before the sections are walked.
InBounds(f) ==
    LET h == f.header
        str == Shdr(f, h.e_shstrndx)
    IN  /\ h.e_shoff < f.len
        /\ h.e_shstrndx < f.len - h.e_shoff
        /\ h.e_shstrndx < h.e_shnum
        /\ str.sh_offset < f.len
        /\ h.e_shnum <= f.len \div sizeof(f, "Elf_Shdr")
        /\ str.sh_size < f.len - str.sh_offset

\* Every section whose name begins with .gnu.version_d is walked.
VersionSections == {".gnu.version_d", ".gnu.version_d.old"}
SectionPass(f, i, found) ==
    LET str == Shdr(f, f.header.e_shstrndx)
        shdr == Shdr(f, i)
    IN  IF found = Aborted \/ shdr.sh_name >= str.sh_size THEN Aborted
        ELSE IF f.strs[str.sh_offset + shdr.sh_name] \notin VersionSections THEN found
        ELSE IF shdr.sh_offset >= f.len THEN Aborted
        ELSE Join(found, definitions(f, shdr))
AllSections(f) ==
    LET after[n \in 0 .. f.header.e_shnum] ==
            IF n = 0 THEN Found({}) ELSE SectionPass(f, n - 1, after[n - 1])
    IN  after[f.header.e_shnum]
get_libstdcxx_version(f) ==
    LET Code(ec, version) == [ec |-> ec, version |-> version]
    IN  IF ~f.ident.magic THEN Code("fatal_error", 0)
        ELSE IF f.ident.class # f.native THEN Code("non_fatal_error", 0)
        ELSE IF ~InBounds(f) \/ ~HeadersInMemory(f) \/ AllSections(f) = Aborted
             THEN Code("abort", 0)
        ELSE IF AllSections(f)[1] = {} THEN Code("fatal_error", 0)
        ELSE Code("success", Max(AllSections(f)[1]))

------------------------------------------------------------------------------

\* Only a name that begins with GLIBCXX_ has a version: in one that contains it
\* further on, what follows the eighth character does not match.
NamesIn(versions) ==
    UNION {{versions[i].aux[j].name : j \in DOMAIN versions[i].aux} : i \in DOMAIN versions}
Highest(f, names) == Max({f.versions[n] : n \in names \cap DOMAIN f.versions} \cup {0})
BugFirstVersion(f, sec) ==
    Then(iter_versions(f, sec), LAMBDA g : Returned(g, Highest(f, NamesIn(SubSeq(g.val, 1, 1)))))
highest_version(f, sec) ==
    Then(iter_versions(f, sec), LAMBDA g : Returned(g, Highest(f, NamesIn(g.val))))
=============================================================================
