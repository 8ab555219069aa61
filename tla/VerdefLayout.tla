----------------------------- MODULE VerdefLayout -----------------------------
(***************************************************************************)
(* A .gnu.version_d section as a linker writes it, and what its two readers *)
(* make of it: the definitions in the order of their chain, each with where *)
(* it is, where the entries of its names are (aux) and where the C code     *)
(* reads them (read), which after the first name are other places.          *)
(***************************************************************************)
EXTENDS VerdefReaders

Definition == [at : Nat, aux : Seq(Nat), read : Seq(Nat)]

Verdef(f, at) == f.recs[<<"Elf_Verdef", at>>].v
Verdaux(f, at) == f.recs[<<"Elf_Verdaux", at>>].v

\* The words the C code reads are those elftools parses.
WordsOfVerdef(f, at) ==
    /\ Word(f, at + 4) \div 65536 = Verdef(f, at).cnt
    /\ Word(f, at + 12) = Verdef(f, at).aux
    /\ Word(f, at + 16) = Verdef(f, at).next
WordsOfVerdaux(f, at) ==
    /\ Word(f, at) = Verdaux(f, at).name
    /\ Word(f, at + 4) = Verdaux(f, at).next

\* Where the string of a name is, for elftools and for the C code.
NamePlace(f, sec, at) == sec.link[1].offset + Verdaux(f, at).name
ReadPlace(f, sec, at) == sec.link[1].offset + Word(f, at)

\* The entry of a name, in the file.
EntryLaidOut(f, sec, at) ==
    /\ at + SizeofVerdaux <= f.len
    /\ <<"Elf_Verdaux", at>> \in DOMAIN f.recs /\ WordsOfVerdaux(f, at)
    /\ NamePlace(f, sec, at) \in DOMAIN f.strs /\ NamePlace(f, sec, at) < f.len

\* A definition in the file with its names, one after the other.
DefinitionLaidOut(f, sec, e) ==
    LET n == Len(e.aux)
    IN  /\ e.at + SizeofVerdef <= f.len /\ <<"Elf_Verdef", e.at>> \in DOMAIN f.recs
        /\ WordsOfVerdef(f, e.at)
        /\ n > 0 /\ Verdef(f, e.at).cnt = n /\ Verdef(f, e.at).next \in Nat
        /\ e.at + Verdef(f, e.at).aux = e.aux[1]
        /\ \A j \in 1 .. n : EntryLaidOut(f, sec, e.aux[j])
        /\ \A j \in 1 .. n - 1 : e.aux[j + 1] = e.aux[j] + Verdaux(f, e.aux[j]).next
        /\ Len(e.read) = n /\ e.read[1] = e.aux[1]
        /\ \A j \in 1 .. n - 1 : e.read[j + 1] = e.read[j] + Stride(Word(f, e.read[j] + 4))

\* The section: its definitions within it, and the last one has no next.
LaidOut(f, sec, d) ==
    LET n == Len(d)
    IN  /\ d \in Seq(Definition) /\ n > 0
        /\ sec.cls = "GNUVerDefSection" /\ sec.link[1].cls = "StringTableSection"
        /\ sec.link[1].offset \in Nat /\ sec.hdr.sh_size \in Nat
        /\ n = sec.hdr.sh_info /\ d[1].at = sec.offset
        /\ \A i \in 1 .. n : DefinitionLaidOut(f, sec, d[i]) /\ d[i].at < sec.offset + sec.hdr.sh_size
        /\ \A i \in 1 .. n - 1 : /\ d[i + 1].at = d[i].at + Verdef(f, d[i].at).next
                                 /\ Verdef(f, d[i].at).next > 0
        /\ Verdef(f, d[n].at).next = 0

\* The file: its section headers are in it, its sections are named, and number i,
\* which elftools reads as sec, is the one with version definitions.
OnlySection(f, i, sec) ==
    LET str == Shdr(f, f.header.e_shstrndx)
        NameOfSection(n) == f.strs[str.sh_offset + Shdr(f, n).sh_name]
    IN  /\ f.header.e_shoff + f.header.e_shnum * sizeof(f, "Elf_Shdr") <= f.len
        /\ f.header.e_shoff \in Nat /\ sizeof(f, "Elf_Shdr") \in Nat
        /\ f.header.e_shnum \in Nat /\ i \in 0 .. f.header.e_shnum - 1 /\ str.sh_size \in Nat
        /\ \A n \in 0 .. f.header.e_shnum - 1 :
              /\ Shdr(f, n).sh_name \in 0 .. str.sh_size - 1
              /\ NameOfSection(n) \in VersionSections <=> n = i
        /\ sec.hdr = Shdr(f, i) /\ sec.hdr.sh_link \in 0 .. f.header.e_shnum - 1
        /\ sec.offset = sec.hdr.sh_offset /\ sec.offset < f.len
        /\ sec.link[1].offset = Shdr(f, sec.hdr.sh_link).sh_offset

MaxVersion == 16777215       \* 255.255.255, packed (GlibcxxVersion)

\* An open file of which nothing has failed, of the loader's own class.
IsOpen(f) ==
    /\ {"val", "pos", "err", "recs", "strs", "len", "mapped", "words", "versions", "header"}
          \subseteq DOMAIN f
    /\ f = [x \in DOMAIN f |-> f[x]] /\ f.err = ""
    /\ f.len \in Nat /\ f.mapped \in Nat /\ f.len <= f.mapped
    /\ \A at \in DOMAIN f.words : f.words[at] \in Nat
    /\ \A n \in DOMAIN f.versions : f.versions[n] \in 0 .. MaxVersion
IsNative(f) == f.ident.magic /\ f.ident.class = f.native /\ InBounds(f)

\* The versions of a definition's names, and of what the C code takes for them.
VersionsOf(f, sec, e) ==
    UNION {VersionsAt(f, NamePlace(f, sec, e.aux[j])) : j \in 1 .. Len(e.aux)}
VersionsReadOf(f, sec, e) ==
    UNION {VersionsAt(f, ReadPlace(f, sec, e.read[j])) : j \in 1 .. Len(e.read)}
VersionsNamed(f, sec, d) == UNION {VersionsOf(f, sec, d[i]) : i \in 1 .. Len(d)}
VersionsRead(f, sec, d) == UNION {VersionsReadOf(f, sec, d[i]) : i \in 1 .. Len(d)}

\* The entries the C code reads are mapped, and the names in them are within the
\* file; otherwise the process ends.
EntryInside(f, sec, at) == InMemory(f, at, SizeofVerdaux) /\ ReadPlace(f, sec, at) < f.len
ReadsInside(f, sec, e) == \A j \in 1 .. Len(e.read) : EntryInside(f, sec, e.read[j])
AllInside(f, sec, d) == \A i \in 1 .. Len(d) : ReadsInside(f, sec, d[i])

\* A linker defines a version before it names it as a parent: it is the first
\* name of a definition.
ParentsDefined(f, sec, d) ==
    \A v \in VersionsNamed(f, sec, d) :
        \E i \in 1 .. Len(d) : v \in VersionsAt(f, NamePlace(f, sec, d[i].aux[1]))

\* What the C code reads for the names of parents is mapped and in the file, and
\* no version that is higher than those of the section.
StraysHarmless(f, sec, d) ==
    /\ AllInside(f, sec, d)
    /\ \A v \in VersionsRead(f, sec, d) : \E u \in VersionsNamed(f, sec, d) \cup {0} : v <= u

\* The C code ended with the version that the Python code has, 0 for none.
SameVersion(c, py) == ~Failed(py) /\ c.ec # "abort" /\ c.version = py.val

\* As linkers write it: a definition has its name and at most one parent, and the
\* entries follow each other without a gap.
WithoutGaps(f, d) ==
    \A i \in 1 .. Len(d) :
        /\ Len(d[i].aux) \in {1, 2} /\ Verdef(f, d[i].at).aux = SizeofVerdef
        /\ Len(d[i].aux) = 2 => Verdaux(f, d[i].aux[1]).next = SizeofVerdaux
        /\ i < Len(d) => Verdef(f, d[i].at).next = SizeofVerdef + SizeofVerdaux * Len(d[i].aux)

\* The last two definitions of a section.
LastTwo(d) == {i \in 1 .. Len(d) : i > Len(d) - 2}
=============================================================================
