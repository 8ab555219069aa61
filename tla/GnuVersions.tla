----------------------------- MODULE GnuVersions ------------------------------
(***************************************************************************)
(* The chains of a section with version definitions or needs               *)
(* (elftools/elf/gnuversions.py).  The fields are without their prefix     *)
(* vd_, vn_, vda_ or vna_.                                                 *)
(***************************************************************************)
EXTENDS ElfStream

Symbol(entry, name) == [entry |-> entry, name |-> name]

VersionFormats(sec) ==
    IF sec.cls = "GNUVerNeedSection" THEN <<"Elf_Verneed", "Elf_Vernaux">>
    ELSE <<"Elf_Verdef", "Elf_Verdaux">>

\* A loop over a chain: the file, where the next entry is and what was yielded.
\* An exception ends it.
Chain(f, at) == [f |-> f, at |-> at, got |-> <<>>]
Yielded(chain) == Then(chain.f, LAMBDA g : Returned(g, chain.got))

\* An exception ends the pass; otherwise what was read is yielded.
Onward(c, f, step, item) ==
    IF Failed(f) THEN [c EXCEPT !.f = f]
    ELSE [f |-> f, at |-> c.at + step, got |-> Append(c.got, item)]

\* The next entry is where the last one says; a step of 0 reads it again.
AuxNamed(c, entry, named) == Onward(c, named, entry.next, Symbol(entry, named.val))
AuxParsed(sec, c, entry) ==
    AuxNamed(c, entry.val, Then(entry, LAMBDA g : get_string(g, sec.link[1], g.val.name)))
AuxPass(sec, c) ==
    IF Failed(c.f) THEN c ELSE AuxParsed(sec, c, struct_parse(c.f, VersionFormats(sec)[2], c.at))
aux_from(f, sec, at, count) ==
    LET after[n \in 0 .. count] ==
            IF n = 0 THEN Chain(f, at) ELSE AuxPass(sec, after[n - 1])
    IN  Yielded(after[count])

\* A version with the list of its names.
VersionWithAux(c, v, named, auxes) ==
    Onward(c, auxes, v.next, [entry |-> v, name |-> named.val, aux |-> auxes.val])
VersionNamed(sec, c, v, named) ==
    VersionWithAux(c, v, named, Then(named, LAMBDA g : aux_from(g, sec, c.at + v.aux, v.cnt)))
VersionParsed(sec, c, entry) ==
    VersionNamed(sec, c, entry.val,
        Then(Check(entry, entry.val.cnt # 0, "ELFError"), LAMBDA g :
        IF sec.cls = "GNUVerNeedSection" THEN get_string(g, sec.link[1], g.val.file)
        ELSE Returned(g, "")))
\* The entry of a version with its name, and nothing of its names yet.
version_head(f, sec, at) ==
    Then(Then(struct_parse(f, VersionFormats(sec)[1], at),
              LAMBDA g : Check(g, g.val.cnt # 0, "ELFError")), LAMBDA g :
    Then(IF sec.cls = "GNUVerNeedSection" THEN get_string(g, sec.link[1], g.val.file)
         ELSE Returned(g, ""),
         LAMBDA named : Returned(named, [entry |-> g.val, name |-> named.val])))

VersionPass(sec, c) ==
    IF Failed(c.f) THEN c ELSE VersionParsed(sec, c, struct_parse(c.f, VersionFormats(sec)[1], c.at))
versions_from(f, sec, at, count) ==
    LET after[n \in 0 .. count] ==
            IF n = 0 THEN Chain(f, at) ELSE VersionPass(sec, after[n - 1])
    IN  Yielded(after[count])
iter_versions(f, sec) == versions_from(f, sec, sec.offset, sec.hdr.sh_info)
=============================================================================
