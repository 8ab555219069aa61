----------------------------- MODULE VerdefProofs -----------------------------
(***************************************************************************)
(* The two readers of .gnu.version_d on every section a linker writes:     *)
(* what elftools yields is what is laid out, and what the C code finds is  *)
(* what stands where it reads.                                             *)
(***************************************************************************)
EXTENDS VerdefLayout, InductionFacts

-----------------------------------------------------------------------------
(* the loops of elftools *)

\* Reading changes the result and the place in the stream and nothing else.
At(f, v, p) == [f EXCEPT !.val = v, !.pos = p]

LEMMA AtFields ==
    ASSUME NEW f, NEW v, NEW p, IsOpen(f)
    PROVE  /\ At(f, v, p).val = v /\ At(f, v, p).pos = p
           /\ At(f, v, p).recs = f.recs /\ At(f, v, p).strs = f.strs
           /\ At(f, v, p).len = f.len
           /\ ~Failed(At(f, v, p))
  BY DEF IsOpen, At, Failed

LEMMA AtItself ==
    ASSUME NEW f, IsOpen(f)
    PROVE  f = At(f, f.val, f.pos)
  BY DEF IsOpen, At

LEMMA AtAgain ==
    ASSUME NEW f, NEW v, NEW p, NEW w, NEW q, IsOpen(f)
    PROVE  /\ At(At(f, v, p), w, q) = At(f, w, q)
           /\ Returned(At(f, v, p), w) = At(f, w, p)
  BY DEF IsOpen, At, Returned

\* struct_parse of what is in the image.
LEMMA StructParsed ==
    ASSUME NEW f, NEW v, NEW p, NEW format, NEW at, IsOpen(f),
           <<format, at>> \in DOMAIN f.recs
    PROVE  struct_parse(At(f, v, p), format, at)
             = At(f, f.recs[<<format, at>>].v, at + f.recs[<<format, at>>].n)
  <1>1. ASSUME NEW g, <<format, at>> \in DOMAIN g.recs
        PROVE  struct_parse(g, format, at)
                 = At(g, g.recs[<<format, at>>].v, at + g.recs[<<format, at>>].n)
    BY <1>1 DEF struct_parse, At
  <1>. QED
    BY <1>1, AtFields, AtAgain

\* get_string of a string in the image.
LEMMA StringRead ==
    ASSUME NEW f, NEW v, NEW p, NEW table, NEW offset, IsOpen(f),
           table.cls = "StringTableSection",
           table.offset + offset \in DOMAIN f.strs, ~(table.offset + offset > f.len)
    PROVE  get_string(At(f, v, p), table, offset)
             = At(f, f.strs[table.offset + offset], f.len)
  <1>. DEFINE at == table.offset + offset
              s == f.strs[at]
              r == At(f, <<s>>, f.len)
  <1>1. ASSUME NEW g, at \in DOMAIN g.strs, ~(at > g.len)
        PROVE  parse_cstring_from_stream(g, at) = At(g, <<g.strs[at]>>, g.len)
    BY <1>1 DEF parse_cstring_from_stream, At
  <1>. HIDE DEF at
  <1>2. parse_cstring_from_stream(At(f, v, p), at) = r
    BY <1>1, AtFields, AtAgain DEF at
  <1>3. <<s>> # None /\ <<s>>[1] = s
    BY DEF None
  <1>4. r.val = <<s>> /\ ~Failed(r) /\ Returned(r, s) = At(f, s, f.len)
    BY AtFields, AtAgain
  <1>. HIDE DEF r, s
  <1>5. get_string(At(f, v, p), table, offset) = Returned(r, s)
    BY <1>2, <1>3, <1>4 DEF get_string, Then, at
  <1>. QED
    BY <1>4, <1>5 DEF s, at

LEMMA WordIsNat ==
    ASSUME NEW f, NEW at, IsOpen(f)
    PROVE  Word(f, at) \in Nat
  BY DEF IsOpen, Word

\* Both readers have the same place for a name, and it is in the file.
LEMMA PlaceInside ==
    ASSUME NEW f, NEW sec, NEW at, IsOpen(f), EntryLaidOut(f, sec, at),
           sec.link[1].offset \in Nat
    PROVE  /\ NamePlace(f, sec, at) = ReadPlace(f, sec, at)
           /\ NamePlace(f, sec, at) \in Nat /\ Verdaux(f, at).next \in Nat
           /\ ~(NamePlace(f, sec, at) > f.len) /\ ~(NamePlace(f, sec, at) >= f.len)
  <1>1. Verdaux(f, at).name = Word(f, at) /\ Verdaux(f, at).next = Word(f, at + 4)
    BY DEF EntryLaidOut, WordsOfVerdaux
  <1>2. Word(f, at) \in Nat /\ Word(f, at + 4) \in Nat
    BY WordIsNat
  <1>3. NamePlace(f, sec, at) \in Nat
    BY <1>1, <1>2 DEF NamePlace
  <1>4. f.len \in Nat
    BY DEF IsOpen
  <1>5. NamePlace(f, sec, at) < f.len
    BY DEF EntryLaidOut
  <1>6. NamePlace(f, sec, at) = ReadPlace(f, sec, at)
    BY <1>1 DEF NamePlace, ReadPlace
  <1>. QED
    BY <1>1, <1>2, <1>3, <1>4, <1>5, <1>6

\* What is in the file is in memory.
LEMMA InsideTheFile ==
    ASSUME NEW f, NEW at \in Nat, NEW size \in Nat, IsOpen(f), at + size <= f.len
    PROVE  InMemory(f, at, size)
  <1>1. f.len \in Nat /\ f.mapped \in Nat /\ f.len <= f.mapped
    BY DEF IsOpen
  <1>. QED
    BY <1>1 DEF InMemory

\* The C code reads an entry that is laid out, and its name, without a fault.
LEMMA EntryIsInside ==
    ASSUME NEW f, NEW sec, NEW at \in Nat, IsOpen(f), EntryLaidOut(f, sec, at),
           sec.link[1].offset \in Nat
    PROVE  EntryInside(f, sec, at)
  <1>1. SizeofVerdaux \in Nat
    BY DEF SizeofVerdaux
  <1>2. at + SizeofVerdaux <= f.len /\ NamePlace(f, sec, at) < f.len
    BY DEF EntryLaidOut
  <1>3. InMemory(f, at, SizeofVerdaux)
    BY <1>1, <1>2, InsideTheFile
  <1>4. NamePlace(f, sec, at) = ReadPlace(f, sec, at)
    BY PlaceInside
  <1>. QED
    BY <1>2, <1>3, <1>4 DEF EntryInside

\* One pass of _iter_version_auxiliaries.
NameYielded(f, sec, at) == Symbol(Verdaux(f, at), f.strs[NamePlace(f, sec, at)])

LEMMA AuxStep ==
    ASSUME NEW f, NEW v, NEW p, NEW sec, NEW at, NEW got, IsOpen(f),
           sec.cls = "GNUVerDefSection", sec.link[1].cls = "StringTableSection",
           EntryLaidOut(f, sec, at), sec.link[1].offset \in Nat
    PROVE  AuxPass(sec, [f |-> At(f, v, p), at |-> at, got |-> got])
             = [f |-> At(f, f.strs[NamePlace(f, sec, at)], f.len),
                at |-> at + Verdaux(f, at).next,
                got |-> Append(got, NameYielded(f, sec, at))]
  <1>. DEFINE c == [f |-> At(f, v, p), at |-> at, got |-> got]
              e == Verdaux(f, at)
              q == at + f.recs[<<"Elf_Verdaux", at>>].n
              name == f.strs[NamePlace(f, sec, at)]
  <1>1. VersionFormats(sec)[2] = "Elf_Verdaux"
    BY DEF VersionFormats
  <1>2. c.f = At(f, v, p) /\ c.at = at /\ c.got = got
    OBVIOUS
  <1>3. struct_parse(c.f, "Elf_Verdaux", at) = At(f, e, q)
    BY <1>2, StructParsed DEF EntryLaidOut, Verdaux
  <1>4. ~(NamePlace(f, sec, at) > f.len)
    BY PlaceInside
  <1>. HIDE DEF c, q
  <1>5. get_string(At(f, e, q), sec.link[1], e.name) = At(f, name, f.len)
    BY <1>4, StringRead DEF EntryLaidOut, NamePlace
  <1>6. ~Failed(At(f, v, p)) /\ At(f, e, q).val = e /\ ~Failed(At(f, e, q))
        /\ At(f, name, f.len).val = name /\ ~Failed(At(f, name, f.len))
    BY AtFields
  <1>. HIDE DEF e, name
  <1>7. AuxPass(sec, c) = [f |-> At(f, name, f.len), at |-> at + e.next,
                           got |-> Append(got, Symbol(e, name))]
    BY <1>1, <1>2, <1>3, <1>5, <1>6 DEF AuxPass, AuxParsed, AuxNamed, Onward, Then
  <1>. QED
    BY <1>7 DEF c, e, name, NameYielded

\* What was yielded after n passes: the first n of all.
Yield(h, n) == [j \in 1 .. n |-> h[j]]

LEMMA YieldNext ==
    ASSUME NEW h, NEW n \in Nat
    PROVE  /\ Yield(h, 0) = <<>>
           /\ Append(Yield(h, n), h[n + 1]) = Yield(h, n + 1)
  <1>. DEFINE S == {h[j] : j \in 1 .. n + 1}
  <1>1. Yield(h, 0) = <<>>
    BY DEF Yield
  <1>2. Yield(h, n) \in Seq(S) /\ Len(Yield(h, n)) = n
    BY DEF Yield
  <1>3. Yield(h, n + 1) \in Seq(S) /\ Len(Yield(h, n + 1)) = n + 1
    BY DEF Yield
  <1>4. h[n + 1] \in S
    OBVIOUS
  <1>5. \A j \in 1 .. n + 1 : Yield(h, n + 1)[j] = h[j]
    BY DEF Yield
  <1>6. \A j \in 1 .. n : Yield(h, n)[j] = h[j]
    BY DEF Yield
  <1>. HIDE DEF S
  <1>7. /\ Append(Yield(h, n), h[n + 1]) \in Seq(S)
        /\ Len(Append(Yield(h, n), h[n + 1])) = n + 1
        /\ \A j \in 1 .. n : Append(Yield(h, n), h[n + 1])[j] = h[j]
        /\ Append(Yield(h, n), h[n + 1])[n + 1] = h[n + 1]
    BY <1>2, <1>4, <1>6, AppendProperties
  <1>8. \A j \in 1 .. n + 1 : Append(Yield(h, n), h[n + 1])[j] = Yield(h, n + 1)[j]
    BY <1>5, <1>7
  <1>. QED
    BY <1>1, <1>3, <1>7, <1>8, SeqEqual

\* The entries of a definition's names, all yielded.
AllYielded(f, sec, e) == [j \in 1 .. Len(e.aux) |-> NameYielded(f, sec, e.aux[j])]

LEMMA AuxiliariesRead ==
    ASSUME NEW f, NEW v, NEW p, NEW sec, NEW e \in Definition, IsOpen(f),
           sec.cls = "GNUVerDefSection", sec.link[1].cls = "StringTableSection",
           sec.link[1].offset \in Nat, DefinitionLaidOut(f, sec, e)
    PROVE  aux_from(At(f, v, p), sec, e.aux[1], Len(e.aux)) = At(f, AllYielded(f, sec, e), f.len)
  <1>. DEFINE N == Len(e.aux)
              h == AllYielded(f, sec, e)
              name(j) == f.strs[NamePlace(f, sec, e.aux[j])]
              W == [n \in 0 .. N |->
                      [f |-> IF n = 0 THEN At(f, v, p) ELSE At(f, name(n), f.len),
                       at |-> IF n = N THEN e.aux[N] + Verdaux(f, e.aux[N]).next ELSE e.aux[n + 1],
                       got |-> Yield(h, n)]]
              start == Chain(At(f, v, p), e.aux[1])
              after == CHOOSE k : k = [n \in 0 .. N |->
                                         IF n = 0 THEN start ELSE AuxPass(sec, k[n - 1])]
  <1>1. N \in Nat /\ N > 0 /\ e.aux \in Seq(Nat)
    BY DEF Definition, DefinitionLaidOut
  <1>2. \A j \in 1 .. N : EntryLaidOut(f, sec, e.aux[j])
    BY DEF DefinitionLaidOut
  <1>3. \A j \in 1 .. N - 1 : e.aux[j + 1] = e.aux[j] + Verdaux(f, e.aux[j]).next
    BY DEF DefinitionLaidOut
  <1>4. W[0] = start
    <2>1. 0 \in 0 .. N /\ 0 # N /\ 0 + 1 = 1
      BY <1>1
    <2>2. W[0] = [f |-> At(f, v, p), at |-> e.aux[1], got |-> Yield(h, 0)]
      BY <2>1
    <2>3. Yield(h, 0) = <<>>
      BY YieldNext, 0 \in Nat
    <2>. QED
      BY <2>2, <2>3 DEF Chain
  <1>5. \A n \in 0 .. N - 1 : AuxPass(sec, W[n]) = W[n + 1]
    <2>. TAKE n \in 0 .. N - 1
    <2>. DEFINE g == IF n = 0 THEN At(f, v, p) ELSE At(f, name(n), f.len)
                at == e.aux[n + 1]
    <2>1. n \in 0 .. N /\ n # N /\ n + 1 \in 1 .. N /\ n + 1 \in 0 .. N /\ n + 1 # 0 /\ n \in Nat
      BY <1>1
    <2>2. W[n] = [f |-> g, at |-> at, got |-> Yield(h, n)]
      BY <2>1
    <2>3. W[n + 1].at = at + Verdaux(f, at).next
      BY <1>3, <2>1
    <2>4. W[n + 1] = [f |-> At(f, name(n + 1), f.len), at |-> at + Verdaux(f, at).next,
                      got |-> Yield(h, n + 1)]
      BY <2>1, <2>3
    <2>5. h[n + 1] = NameYielded(f, sec, at)
      BY <2>1 DEF AllYielded
    <2>6. Append(Yield(h, n), NameYielded(f, sec, at)) = Yield(h, n + 1)
      BY <2>1, <2>5, YieldNext
    <2>7. EntryLaidOut(f, sec, at)
      BY <1>2, <2>1
    <2>8. \E w, q : g = At(f, w, q)
      OBVIOUS
    <2>. HIDE DEF g, at, W, h
    <2>9. AuxPass(sec, [f |-> g, at |-> at, got |-> Yield(h, n)])
            = [f |-> At(f, f.strs[NamePlace(f, sec, at)], f.len), at |-> at + Verdaux(f, at).next,
               got |-> Append(Yield(h, n), NameYielded(f, sec, at))]
      BY <2>7, <2>8, AuxStep
    <2>. QED
      BY <2>2, <2>4, <2>6, <2>9 DEF at
  <1>6. \A n \in 1 .. N : n - 1 \in 0 .. N - 1 /\ (n - 1) + 1 = n
    BY <1>1
  <1>. HIDE DEF start
  <1>7. W = [n \in 0 .. N |-> IF n = 0 THEN start ELSE AuxPass(sec, W[n - 1])]
    <2>1. W = [n \in 0 .. N |-> W[n]]
      OBVIOUS
    <2>. HIDE DEF W
    <2>2. \A n \in 0 .. N : W[n] = IF n = 0 THEN start ELSE AuxPass(sec, W[n - 1])
      BY <1>1, <1>4, <1>5, <1>6
    <2>. QED
      BY <2>1, <2>2
  <1>. HIDE DEF W
  <1>8. after = [n \in 0 .. N |-> IF n = 0 THEN start ELSE AuxPass(sec, after[n - 1])]
    BY <1>7
  <1>. DEFINE T == {n \in 0 .. N : after[n] = W[n]}
  <1>9. N \in T
    <2>. HIDE DEF after
    <2>1. 0 \in T
      BY <1>1, <1>4, <1>8
    <2>2. \A n \in 0 .. N - 1 : n \in T => n + 1 \in T
      <3>. TAKE n \in 0 .. N - 1
      <3>1. n + 1 \in 0 .. N /\ n + 1 # 0 /\ (n + 1) - 1 = n
        BY <1>1
      <3>2. after[n + 1] = AuxPass(sec, after[n])
        BY <1>8, <3>1
      <3>. QED
        BY <1>5, <3>1, <3>2
    <2>. HIDE DEF T
    <2>3. \A n \in 0 .. N : n \in T
      BY <1>1, <2>1, <2>2, ByInductionUpTo
    <2>. QED
      BY <1>1, <2>3
  <1>10. aux_from(At(f, v, p), sec, e.aux[1], N) = Yielded(after[N])
    BY DEF aux_from, start
  <1>11. W[N].f = At(f, name(N), f.len) /\ W[N].got = h
    <2>1. N \in 0 .. N /\ N # 0
      BY <1>1
    <2>2. Yield(h, N) = h
      BY DEF Yield, AllYielded
    <2>. QED
      BY <2>1, <2>2 DEF W
  <1>. HIDE DEF after, h, N, name
  <1>12. \A w, q : ~Failed(At(f, w, q)) /\ Returned(At(f, w, q), h) = At(f, h, q)
    BY AtFields, AtAgain
  <1>13. Yielded(W[N]) = At(f, h, f.len)
    BY <1>11, <1>12 DEF Yielded, Then
  <1>. QED
    BY <1>9, <1>10, <1>13 DEF N, h

\* One pass of iter_versions.
DefinitionYielded(f, sec, e) ==
    [entry |-> Verdef(f, e.at), name |-> "", aux |-> AllYielded(f, sec, e)]

LEMMA VersionStep ==
    ASSUME NEW f, NEW v, NEW p, NEW sec, NEW e \in Definition, NEW got, IsOpen(f),
           sec.cls = "GNUVerDefSection", sec.link[1].cls = "StringTableSection",
           sec.link[1].offset \in Nat, DefinitionLaidOut(f, sec, e)
    PROVE  VersionPass(sec, [f |-> At(f, v, p), at |-> e.at, got |-> got])
             = [f |-> At(f, AllYielded(f, sec, e), f.len),
                at |-> e.at + Verdef(f, e.at).next,
                got |-> Append(got, DefinitionYielded(f, sec, e))]
  <1>. DEFINE c == [f |-> At(f, v, p), at |-> e.at, got |-> got]
              d == Verdef(f, e.at)
              q == e.at + f.recs[<<"Elf_Verdef", e.at>>].n
              h == AllYielded(f, sec, e)
              nameless == ""
  <1>1. VersionFormats(sec)[1] = "Elf_Verdef" /\ sec.cls # "GNUVerNeedSection"
    BY DEF VersionFormats
  <1>2. c.f = At(f, v, p) /\ c.at = e.at /\ c.got = got
    OBVIOUS
  <1>3. struct_parse(c.f, "Elf_Verdef", e.at) = At(f, d, q)
    BY <1>2, StructParsed DEF DefinitionLaidOut, Verdef
  <1>4. e.at + d.aux = e.aux[1] /\ d.cnt = Len(e.aux) /\ d.cnt # 0
    BY DEF DefinitionLaidOut
  <1>. HIDE DEF c, q, h, nameless
  <1>5. Returned(At(f, d, q), nameless) = At(f, nameless, q)
    BY AtAgain
  <1>6. aux_from(At(f, nameless, q), sec, e.aux[1], Len(e.aux)) = At(f, h, f.len)
    BY AuxiliariesRead DEF h
  <1>. HIDE DEF d
  <1>7. /\ ~Failed(At(f, v, p)) /\ At(f, d, q).val = d /\ ~Failed(At(f, d, q))
        /\ At(f, nameless, q).val = nameless /\ ~Failed(At(f, nameless, q))
        /\ At(f, h, f.len).val = h /\ ~Failed(At(f, h, f.len))
    BY AtFields
  <1>8. VersionPass(sec, c) = [f |-> At(f, h, f.len), at |-> e.at + d.next,
                               got |-> Append(got, [entry |-> d, name |-> nameless, aux |-> h])]
    BY <1>1, <1>2, <1>3, <1>4, <1>5, <1>6, <1>7
       DEF VersionPass, VersionParsed, VersionNamed, VersionWithAux, Onward, Check, Then, nameless
  <1>. QED
    BY <1>8 DEF c, d, h, nameless, DefinitionYielded

\* All definitions of a section, yielded.
SectionYielded(f, sec, d) == [i \in 1 .. Len(d) |-> DefinitionYielded(f, sec, d[i])]

\* iter_versions yields what is laid out, in order, and fails nowhere.
THEOREM IterVersions ==
    ASSUME NEW f, NEW sec, NEW d, IsOpen(f), LaidOut(f, sec, d)
    PROVE  iter_versions(f, sec) = At(f, SectionYielded(f, sec, d), f.len)
  <1>. DEFINE N == Len(d)
              h == SectionYielded(f, sec, d)
              W == [n \in 0 .. N |->
                      [f |-> IF n = 0 THEN At(f, f.val, f.pos) ELSE At(f, AllYielded(f, sec, d[n]), f.len),
                       at |-> IF n = N THEN d[N].at + Verdef(f, d[N].at).next ELSE d[n + 1].at,
                       got |-> Yield(h, n)]]
              start == Chain(f, sec.offset)
              after == CHOOSE k : k = [n \in 0 .. N |->
                                         IF n = 0 THEN start ELSE VersionPass(sec, k[n - 1])]
  <1>1. N \in Nat /\ N > 0 /\ \A i \in 1 .. N : d[i] \in Definition
    BY DEF LaidOut
  <1>2. \A i \in 1 .. N : DefinitionLaidOut(f, sec, d[i])
    BY DEF LaidOut
  <1>3. \A i \in 1 .. N - 1 : d[i + 1].at = d[i].at + Verdef(f, d[i].at).next
    BY DEF LaidOut
  <1>4. W[0] = start
    <2>1. 0 \in 0 .. N /\ 0 # N /\ 0 + 1 = 1
      BY <1>1
    <2>2. W[0] = [f |-> At(f, f.val, f.pos), at |-> d[1].at, got |-> Yield(h, 0)]
      BY <2>1
    <2>3. Yield(h, 0) = <<>>
      BY YieldNext, 0 \in Nat
    <2>4. f = At(f, f.val, f.pos) /\ d[1].at = sec.offset
      BY AtItself DEF LaidOut
    <2>. QED
      BY <2>2, <2>3, <2>4 DEF Chain
  <1>5. \A n \in 0 .. N - 1 : VersionPass(sec, W[n]) = W[n + 1]
    <2>. TAKE n \in 0 .. N - 1
    <2>. DEFINE g == IF n = 0 THEN At(f, f.val, f.pos) ELSE At(f, AllYielded(f, sec, d[n]), f.len)
                e == d[n + 1]
    <2>1. n \in 0 .. N /\ n # N /\ n + 1 \in 1 .. N /\ n + 1 \in 0 .. N /\ n + 1 # 0 /\ n \in Nat
      BY <1>1
    <2>2. W[n] = [f |-> g, at |-> e.at, got |-> Yield(h, n)]
      BY <2>1
    <2>3. W[n + 1].at = e.at + Verdef(f, e.at).next
      BY <1>3, <2>1
    <2>4. W[n + 1] = [f |-> At(f, AllYielded(f, sec, e), f.len),
                      at |-> e.at + Verdef(f, e.at).next, got |-> Yield(h, n + 1)]
      BY <2>1, <2>3
    <2>5. h[n + 1] = DefinitionYielded(f, sec, e)
      BY <2>1 DEF SectionYielded
    <2>6. Append(Yield(h, n), DefinitionYielded(f, sec, e)) = Yield(h, n + 1)
      BY <2>1, <2>5, YieldNext
    <2>7. DefinitionLaidOut(f, sec, e) /\ e \in Definition
      BY <1>1, <1>2, <2>1
    <2>8. \E w, q : g = At(f, w, q)
      OBVIOUS
    <2>9. /\ sec.cls = "GNUVerDefSection" /\ sec.link[1].cls = "StringTableSection"
          /\ sec.link[1].offset \in Nat
      BY DEF LaidOut
    <2>. HIDE DEF g, e, W, h
    <2>10. VersionPass(sec, [f |-> g, at |-> e.at, got |-> Yield(h, n)])
             = [f |-> At(f, AllYielded(f, sec, e), f.len),
                at |-> e.at + Verdef(f, e.at).next,
                got |-> Append(Yield(h, n), DefinitionYielded(f, sec, e))]
      BY <2>7, <2>8, <2>9, VersionStep
    <2>. QED
      BY <2>2, <2>4, <2>6, <2>10
  <1>6. \A n \in 1 .. N : n - 1 \in 0 .. N - 1 /\ (n - 1) + 1 = n
    BY <1>1
  <1>. HIDE DEF start
  <1>7. W = [n \in 0 .. N |-> IF n = 0 THEN start ELSE VersionPass(sec, W[n - 1])]
    <2>1. W = [n \in 0 .. N |-> W[n]]
      OBVIOUS
    <2>. HIDE DEF W
    <2>2. \A n \in 0 .. N : W[n] = IF n = 0 THEN start ELSE VersionPass(sec, W[n - 1])
      BY <1>1, <1>4, <1>5, <1>6
    <2>. QED
      BY <2>1, <2>2
  <1>. HIDE DEF W
  <1>8. after = [n \in 0 .. N |-> IF n = 0 THEN start ELSE VersionPass(sec, after[n - 1])]
    BY <1>7
  <1>. DEFINE T == {n \in 0 .. N : after[n] = W[n]}
  <1>9. N \in T
    <2>. HIDE DEF after
    <2>1. 0 \in T
      BY <1>1, <1>4, <1>8
    <2>2. \A n \in 0 .. N - 1 : n \in T => n + 1 \in T
      <3>. TAKE n \in 0 .. N - 1
      <3>1. n + 1 \in 0 .. N /\ n + 1 # 0 /\ (n + 1) - 1 = n
        BY <1>1
      <3>2. after[n + 1] = VersionPass(sec, after[n])
        BY <1>8, <3>1
      <3>. QED
        BY <1>5, <3>1, <3>2
    <2>. HIDE DEF T
    <2>3. \A n \in 0 .. N : n \in T
      BY <1>1, <2>1, <2>2, ByInductionUpTo
    <2>. QED
      BY <1>1, <2>3
  <1>10. iter_versions(f, sec) = Yielded(after[N])
    <2>1. N = sec.hdr.sh_info
      BY DEF LaidOut
    <2>. QED
      BY <2>1 DEF iter_versions, versions_from, start
  <1>11. W[N].f = At(f, AllYielded(f, sec, d[N]), f.len) /\ W[N].got = h
    <2>1. N \in 0 .. N /\ N # 0
      BY <1>1
    <2>2. Yield(h, N) = h
      BY DEF Yield, SectionYielded
    <2>. QED
      BY <2>1, <2>2 DEF W
  <1>. HIDE DEF after, h, N
  <1>12. \A w, q : ~Failed(At(f, w, q)) /\ Returned(At(f, w, q), h) = At(f, h, q)
    BY AtFields, AtAgain
  <1>13. Yielded(W[N]) = At(f, h, f.len)
    BY <1>11, <1>12 DEF Yielded, Then
  <1>. QED
    BY <1>9, <1>10, <1>13 DEF h

\* The versions of the names that are yielded.
LEMMA NamedVersions ==
    ASSUME NEW f, NEW sec, NEW d, IsOpen(f), LaidOut(f, sec, d)
    PROVE  {f.versions[n] : n \in NamesIn(SectionYielded(f, sec, d)) \cap DOMAIN f.versions}
             = VersionsNamed(f, sec, d)
  <1>. DEFINE s == SectionYielded(f, sec, d)
              name(i, j) == f.strs[NamePlace(f, sec, d[i].aux[j])]
  <1>1. DOMAIN s = 1 .. Len(d) /\ \A i \in 1 .. Len(d) : s[i].aux = AllYielded(f, sec, d[i])
    BY DEF SectionYielded, DefinitionYielded
  <1>. HIDE DEF s
  <1>2. \A i \in 1 .. Len(d) :
           /\ DOMAIN s[i].aux = 1 .. Len(d[i].aux)
           /\ \A j \in 1 .. Len(d[i].aux) : s[i].aux[j].name = name(i, j)
    <2>. TAKE i \in 1 .. Len(d)
    <2>1. s[i].aux = [j \in 1 .. Len(d[i].aux) |-> NameYielded(f, sec, d[i].aux[j])]
      BY <1>1 DEF AllYielded
    <2>2. \A j \in 1 .. Len(d[i].aux) : NameYielded(f, sec, d[i].aux[j]).name = name(i, j)
      BY DEF NameYielded, Symbol
    <2>. HIDE DEF name
    <2>. QED
      BY <2>1, <2>2
  <1>3. \A n : n \in NamesIn(s) <=>
           \E i \in 1 .. Len(d) : \E j \in 1 .. Len(d[i].aux) : n = name(i, j)
    <2>. HIDE DEF name
    <2>1. \A n : n \in NamesIn(s) <=>
             \E i \in DOMAIN s : \E j \in DOMAIN s[i].aux : n = s[i].aux[j].name
      BY DEF NamesIn
    <2>. TAKE n
    <2>2. ASSUME n \in NamesIn(s)
          PROVE  \E i \in 1 .. Len(d) : \E j \in 1 .. Len(d[i].aux) : n = name(i, j)
      <3>1. PICK i \in DOMAIN s : \E j \in DOMAIN s[i].aux : n = s[i].aux[j].name
        BY <2>1, <2>2
      <3>. QED
        BY <1>1, <1>2, <3>1
    <2>3. ASSUME NEW i \in 1 .. Len(d), NEW j \in 1 .. Len(d[i].aux), n = name(i, j)
          PROVE  n \in NamesIn(s)
      <3>1. i \in DOMAIN s /\ j \in DOMAIN s[i].aux /\ n = s[i].aux[j].name
        BY <1>1, <1>2, <2>3
      <3>. QED
        BY <2>1, <3>1
    <2>. QED
      BY <2>2, <2>3
  <1>4. \A i \in 1 .. Len(d) : \A j \in 1 .. Len(d[i].aux) :
           NamePlace(f, sec, d[i].aux[j]) \in DOMAIN f.strs
    BY DEF LaidOut, DefinitionLaidOut, EntryLaidOut
  <1>5. \A i \in 1 .. Len(d) : \A j \in 1 .. Len(d[i].aux) :
           VersionsAt(f, NamePlace(f, sec, d[i].aux[j]))
             = IF name(i, j) \in DOMAIN f.versions THEN {f.versions[name(i, j)]} ELSE {}
    BY <1>4 DEF VersionsAt
  <1>6. \A v : v \in VersionsNamed(f, sec, d) <=>
           \E i \in 1 .. Len(d) : \E j \in 1 .. Len(d[i].aux) :
              v \in VersionsAt(f, NamePlace(f, sec, d[i].aux[j]))
    BY DEF VersionsNamed, VersionsOf
  <1>. HIDE DEF name
  <1>7. \A i \in 1 .. Len(d) : \A j \in 1 .. Len(d[i].aux) : \A v :
           v \in VersionsAt(f, NamePlace(f, sec, d[i].aux[j]))
             <=> name(i, j) \in DOMAIN f.versions /\ v = f.versions[name(i, j)]
    BY <1>5
  <1>8. \A v : v \in VersionsNamed(f, sec, d) <=>
           \E i \in 1 .. Len(d) : \E j \in 1 .. Len(d[i].aux) :
              name(i, j) \in DOMAIN f.versions /\ v = f.versions[name(i, j)]
    <2>. TAKE v
    <2>1. ASSUME v \in VersionsNamed(f, sec, d)
          PROVE  \E i \in 1 .. Len(d) : \E j \in 1 .. Len(d[i].aux) :
                    name(i, j) \in DOMAIN f.versions /\ v = f.versions[name(i, j)]
      <3>1. PICK i \in 1 .. Len(d) : \E j \in 1 .. Len(d[i].aux) :
               v \in VersionsAt(f, NamePlace(f, sec, d[i].aux[j]))
        BY <1>6, <2>1
      <3>2. PICK j \in 1 .. Len(d[i].aux) : v \in VersionsAt(f, NamePlace(f, sec, d[i].aux[j]))
        BY <3>1
      <3>3. name(i, j) \in DOMAIN f.versions /\ v = f.versions[name(i, j)]
        BY <1>7, <3>2
      <3>. QED
        BY <3>3
    <2>2. ASSUME NEW i \in 1 .. Len(d), NEW j \in 1 .. Len(d[i].aux),
                 name(i, j) \in DOMAIN f.versions, v = f.versions[name(i, j)]
          PROVE  v \in VersionsNamed(f, sec, d)
      <3>1. v \in VersionsAt(f, NamePlace(f, sec, d[i].aux[j]))
        BY <1>7, <2>2
      <3>. QED
        BY <1>6, <3>1
    <2>. QED
      BY <2>1, <2>2
  <1>. QED
    BY <1>3, <1>8 DEF s

\* get_glibcxx_versions_from_gnu_version_d: whatever a linker wrote, the Python
\* reader ends with the highest version that any name of the section has.
THEOREM PythonReadsHighest ==
    ASSUME NEW f, NEW sec, NEW d, IsOpen(f), LaidOut(f, sec, d)
    PROVE  highest_version(f, sec) = At(f, Max(VersionsNamed(f, sec, d) \cup {0}), f.len)
  <1>. DEFINE s == SectionYielded(f, sec, d)
              top == Max(VersionsNamed(f, sec, d) \cup {0})
              g == At(f, s, f.len)
  <1>1. iter_versions(f, sec) = g
    BY IterVersions
  <1>. HIDE DEF s, top
  <1>2. ~Failed(g) /\ g.val = s /\ Returned(g, top) = At(f, top, f.len)
    BY AtFields, AtAgain
  <1>3. Highest(f, NamesIn(s)) = top
    BY NamedVersions DEF Highest, s, top
  <1>. HIDE DEF g
  <1>. QED
    BY <1>1, <1>2, <1>3 DEF highest_version, Then, top

-----------------------------------------------------------------------------
(* the loops of the C code *)

Results == {Aborted} \cup {Found(S) : S \in SUBSET Nat}

LEMMA Joined ==
    /\ \A S : Found(S) # Aborted /\ Found(S)[1] = S
    /\ \A S, T : Join(Found(S), Found(T)) = Found(S \cup T)
    /\ \A a : Join(a, Aborted) = Aborted
    /\ \A a, b \in Results : Join(a, b) \in Results
  <1>1. \A S : Found(S) # Aborted /\ Found(S)[1] = S
    BY DEF Found, Aborted
  <1>2. \A S, T : Join(Found(S), Found(T)) = Found(S \cup T)
    <2>. TAKE S, T
    <2>1. Join(Found(S), Found(T)) = Found(Found(S)[1] \cup Found(T)[1])
      BY <1>1 DEF Join
    <2>2. Found(S)[1] = S /\ Found(T)[1] = T
      BY <1>1
    <2>. QED
      BY <2>1, <2>2
  <1>3. \A a : Join(a, Aborted) = Aborted
    BY DEF Join
  <1>4. ASSUME NEW a \in Results, NEW b \in Results
        PROVE  Join(a, b) \in Results
    <2>1. CASE a = Aborted \/ b = Aborted
      BY <2>1 DEF Join, Results
    <2>2. CASE a # Aborted /\ b # Aborted
      <3>1. PICK S \in SUBSET Nat : a = Found(S)
        BY <2>2 DEF Results
      <3>2. PICK T \in SUBSET Nat : b = Found(T)
        BY <2>2 DEF Results
      <3>3. Join(a, b) = Found(S \cup T)
        BY <1>2, <3>1, <3>2
      <3>. QED
        BY <3>3 DEF Results
    <2>. QED
      BY <2>1, <2>2
  <1>. QED
    BY <1>1, <1>2, <1>3, <1>4

LEMMA VersionsAreNat ==
    ASSUME NEW f, NEW at, IsOpen(f)
    PROVE  VersionsAt(f, at) \in SUBSET Nat /\ NameAt(f, at) \in Results
  <1>1. \A n \in DOMAIN f.versions : f.versions[n] \in 0 .. MaxVersion
    BY DEF IsOpen
  <1>2. \A n \in DOMAIN f.versions : f.versions[n] \in Nat
    BY <1>1, SMT
  <1>3. VersionsAt(f, at) \in SUBSET Nat
    BY <1>2 DEF VersionsAt
  <1>. QED
    BY <1>3 DEF NameAt, Results

\* The loop over the names of a definition has a run.
AuxStates == [at : Nat, found : Results]

LEMMA AuxiliaryKept ==
    ASSUME NEW f, NEW strings \in Nat, NEW w \in AuxStates, IsOpen(f)
    PROVE  AuxiliaryPass(f, strings, w) \in AuxStates
  <1>1. w.at \in Nat /\ w.found \in Results
    BY DEF AuxStates
  <1>2. Word(f, w.at + 4) \in Nat /\ Word(f, w.at) \in Nat
    BY WordIsNat
  <1>3. w.at + Stride(Word(f, w.at + 4)) \in Nat
    BY <1>1, <1>2 DEF Stride, SizeofVerdaux
  <1>4. NameRead(f, strings, w.at) \in Results
    BY VersionsAreNat DEF NameRead, Results
  <1>5. Join(w.found, NameRead(f, strings, w.at)) \in Results
    BY <1>1, <1>4, Joined
  <1>. QED
    BY <1>3, <1>5 DEF AuxiliaryPass, AuxStates

IsAuxiliaryRun(after, f, strings, at, count) ==
    /\ after \in [0 .. count -> AuxStates]
    /\ after[0] = [at |-> at, found |-> Found({})]
    /\ \A n \in 1 .. count : after[n] = AuxiliaryPass(f, strings, after[n - 1])
    /\ auxiliaries(f, strings, at, count) = after[count].found

LEMMA AuxiliariesRun ==
    ASSUME NEW f, NEW strings \in Nat, NEW at \in Nat, NEW count \in Nat, IsOpen(f)
    PROVE  \E after : IsAuxiliaryRun(after, f, strings, at, count)
  <1>. DEFINE start == [at |-> at, found |-> Found({})]
              pass == [x \in (1 .. count) \X AuxStates |-> AuxiliaryPass(f, strings, x[2])]
              after == CHOOSE k : k = [n \in 0 .. count |->
                                         IF n = 0 THEN start ELSE AuxiliaryPass(f, strings, k[n - 1])]
  <1>1. start \in AuxStates
    BY DEF AuxStates, Results
  <1>2. pass \in Passes(count, AuxStates)
    BY AuxiliaryKept DEF Passes
  <1>3. \A i \in 1 .. count : \A w \in AuxStates : pass[<<i, w>>] = AuxiliaryPass(f, strings, w)
    OBVIOUS
  <1>. HIDE DEF start, pass, after
  <1>4. \E run : IsLoop(run, count, AuxStates, start, pass)
    BY <1>1, <1>2, LoopRuns
  <1>5. PICK run : IsLoop(run, count, AuxStates, start, pass)
    BY <1>4
  <1>6. /\ run \in [0 .. count -> AuxStates] /\ run[0] = start
        /\ \A i \in 1 .. count : run[i] = pass[<<i, run[i - 1]>>]
    BY <1>5 DEF IsLoop
  <1>7. \A i \in 1 .. count : i - 1 \in 0 .. count
    OBVIOUS
  <1>8. \A i \in 1 .. count : run[i] = AuxiliaryPass(f, strings, run[i - 1])
    BY <1>3, <1>6, <1>7
  <1>9. run = [n \in 0 .. count |-> IF n = 0 THEN start ELSE AuxiliaryPass(f, strings, run[n - 1])]
    <2>1. run = [n \in 0 .. count |-> run[n]]
      BY <1>6
    <2>2. \A n \in 0 .. count : n # 0 => n \in 1 .. count
      OBVIOUS
    <2>3. \A n \in 0 .. count :
             run[n] = IF n = 0 THEN start ELSE AuxiliaryPass(f, strings, run[n - 1])
      BY <1>6, <1>8, <2>2
    <2>. QED
      BY <2>1, <2>3
  <1>10. after = [n \in 0 .. count |-> IF n = 0 THEN start ELSE AuxiliaryPass(f, strings, after[n - 1])]
    BY <1>9 DEF after
  <1>11. after \in [0 .. count -> AuxStates] /\ after[0] = start
         /\ \A n \in 1 .. count : after[n] = AuxiliaryPass(f, strings, after[n - 1])
    <2>1. after[0] = start
      BY <1>10
    <2>2. \A n \in 1 .. count : after[n] = AuxiliaryPass(f, strings, after[n - 1])
      BY <1>10
    <2>. DEFINE T == {n \in 0 .. count : after[n] \in AuxStates}
    <2>3. 0 \in T
      BY <1>1, <2>1
    <2>4. \A n \in 0 .. count - 1 : n \in T => n + 1 \in T
      <3>. TAKE n \in 0 .. count - 1
      <3>1. n + 1 \in 1 .. count /\ (n + 1) - 1 = n /\ n + 1 \in 0 .. count
        OBVIOUS
      <3>2. after[n + 1] = AuxiliaryPass(f, strings, after[n])
        BY <2>2, <3>1
      <3>. QED
        BY <3>1, <3>2, AuxiliaryKept
    <2>. HIDE DEF T
    <2>5. \A n \in 0 .. count : n \in T
      BY <2>3, <2>4, ByInductionUpTo
    <2>6. \A n \in 0 .. count : after[n] \in AuxStates
      BY <2>5 DEF T
    <2>7. after = [n \in 0 .. count |-> after[n]]
      BY <1>10
    <2>. QED
      BY <2>1, <2>2, <2>6, <2>7
  <1>12. auxiliaries(f, strings, at, count) = after[count].found
    BY DEF auxiliaries, after, start
  <1>. QED
    BY <1>11, <1>12 DEF start, IsAuxiliaryRun

\* The loop over the names of a definition finds the versions of the strings
\* it reads, or aborts where one of them is not in the file.
FoundIn(f, sec, e) ==
    IF ReadsInside(f, sec, e) THEN Found(VersionsReadOf(f, sec, e)) ELSE Aborted

LEMMA NamesFound ==
    ASSUME NEW f, NEW sec, NEW e \in Definition, IsOpen(f), sec.link[1].offset \in Nat,
           DefinitionLaidOut(f, sec, e)
    PROVE  auxiliaries(f, sec.link[1].offset, e.aux[1], Len(e.aux)) = FoundIn(f, sec, e)
  <1>. DEFINE N == Len(e.read)
              strings == sec.link[1].offset
              V(j) == VersionsAt(f, ReadPlace(f, sec, e.read[j]))
              Inside(j) == EntryInside(f, sec, e.read[j])
              FirstFound(n) == UNION {V(j) : j \in 1 .. n}
  <1>1. N \in Nat /\ N > 0 /\ N = Len(e.aux) /\ e.read[1] = e.aux[1] /\ e.aux[1] \in Nat
        /\ \A j \in 1 .. N : e.read[j] \in Nat
    BY DEF Definition, DefinitionLaidOut
  <1>2. \A j \in 1 .. N - 1 : e.read[j + 1] = e.read[j] + Stride(Word(f, e.read[j] + 4))
    BY DEF DefinitionLaidOut
  <1>. DEFINE first == e.read[1]
  <1>3. first \in Nat /\ strings \in Nat
    BY <1>1
  <1>. HIDE DEF N, strings, first
  <1>4. \E after : IsAuxiliaryRun(after, f, strings, first, N)
    BY <1>1, <1>3, AuxiliariesRun
  <1>5. PICK after : IsAuxiliaryRun(after, f, strings, first, N)
    BY <1>4
  <1>6. /\ after[0] = [at |-> e.read[1], found |-> Found({})]
        /\ \A n \in 1 .. N : after[n] = AuxiliaryPass(f, strings, after[n - 1])
        /\ auxiliaries(f, strings, e.read[1], N) = after[N].found
    BY <1>5 DEF IsAuxiliaryRun, first
  <1>. DEFINE T == {n \in 0 .. N :
                      /\ (\A j \in 1 .. n : Inside(j)) =>
                            /\ after[n].found = Found(FirstFound(n))
                            /\ n < N => after[n].at = e.read[n + 1]
                      /\ (\E j \in 1 .. n : ~Inside(j)) => after[n].found = Aborted}
  <1>7. 0 \in T
    <2>1. FirstFound(0) = {}
      OBVIOUS
    <2>2. after[0].found = Found({}) /\ after[0].at = e.read[0 + 1]
      BY <1>6
    <2>3. 0 \in 0 .. N /\ ~\E j \in 1 .. 0 : TRUE
      BY <1>1
    <2>. HIDE DEF FirstFound, Inside
    <2>. QED
      BY <2>1, <2>2, <2>3
  <1>8. \A n \in 0 .. N - 1 : n \in T => n + 1 \in T
    <2>. SUFFICES ASSUME NEW n \in 0 .. N - 1, n \in T
                  PROVE  n + 1 \in T
      OBVIOUS
    <2>1. n + 1 \in 1 .. N /\ n + 1 \in 0 .. N /\ (n + 1) - 1 = n /\ n < N
      BY <1>1
    <2>2. 1 .. n + 1 = (1 .. n) \cup {n + 1}
      BY <1>1
    <2>3. after[n + 1] = AuxiliaryPass(f, strings, after[n])
      BY <1>6, <2>1
    <2>4. FirstFound(n + 1) = FirstFound(n) \cup V(n + 1)
      BY <2>2
    <2>. DEFINE r == e.read[n + 1]
                place == ReadPlace(f, sec, r)
    <2>. HIDE DEF FirstFound, V
    <2>5. CASE \E j \in 1 .. n : ~Inside(j)
      <3>1. after[n].found = Aborted
        BY <2>5
      <3>2. after[n + 1].found = Aborted
        BY <2>3, <3>1 DEF AuxiliaryPass
      <3>3. \E j \in 1 .. n + 1 : ~Inside(j)
        BY <2>2, <2>5
      <3>. HIDE DEF Inside
      <3>. QED
        BY <2>1, <3>2, <3>3
    <2>6. CASE \A j \in 1 .. n : Inside(j)
      <3>1. after[n].found = Found(FirstFound(n)) /\ after[n].at = r
        BY <2>1, <2>6
      <3>2. after[n].found # Aborted
        BY <3>1, Joined
      <3>3. /\ after[n + 1].at = r + Stride(Word(f, r + 4))
            /\ after[n + 1].found = Join(after[n].found, NameRead(f, strings, r))
        BY <2>3, <3>1, <3>2 DEF AuxiliaryPass
      <3>4. place \in Nat /\ f.len \in Nat
        <4>1. Word(f, r) \in Nat
          BY WordIsNat
        <4>2. place = strings + Word(f, r)
          BY DEF ReadPlace, strings
        <4>3. f.len \in Nat
          BY DEF IsOpen
        <4>. HIDE DEF place
        <4>. QED
          BY <1>3, <4>1, <4>2, <4>3
      <3>5. CASE Inside(n + 1)
        <4>1. NameRead(f, strings, r) = Found(V(n + 1))
          <5>1. InMemory(f, r, SizeofVerdaux) /\ place < f.len
            BY <3>5 DEF EntryInside
          <5>2. NameAt(f, place) = Found(V(n + 1))
            BY <3>4, <5>1 DEF NameAt, V
          <5>. QED
            BY <5>1, <5>2 DEF NameRead, ReadPlace, strings
        <4>2. after[n + 1].found = Found(FirstFound(n + 1))
          BY <2>4, <3>1, <3>3, <4>1, Joined
        <4>3. n + 1 < N => after[n + 1].at = e.read[(n + 1) + 1]
          <5>. HAVE n + 1 < N
          <5>1. n + 1 \in 1 .. N - 1
            BY <1>1, <2>1
          <5>. QED
            BY <1>2, <3>3, <5>1
        <4>4. \A j \in 1 .. n + 1 : Inside(j)
          BY <2>2, <2>6, <3>5
        <4>. HIDE DEF Inside
        <4>. QED
          BY <2>1, <4>2, <4>3, <4>4
      <3>6. CASE ~Inside(n + 1)
        <4>1. NameRead(f, strings, r) = Aborted
          <5>1. ~InMemory(f, r, SizeofVerdaux) \/ ~(place < f.len)
            BY <3>6 DEF EntryInside
          <5>2. ~(place < f.len) => NameAt(f, place) = Aborted
            BY <3>4 DEF NameAt
          <5>. QED
            BY <5>1, <5>2 DEF NameRead, ReadPlace, strings
        <4>2. after[n + 1].found = Aborted
          BY <3>3, <4>1, Joined
        <4>3. \E j \in 1 .. n + 1 : ~Inside(j)
          BY <2>1, <3>6
        <4>. HIDE DEF Inside
        <4>. QED
          BY <2>1, <4>2, <4>3
      <3>. QED
        BY <3>5, <3>6
    <2>. QED
      BY <2>5, <2>6
  <1>. HIDE DEF T
  <1>9. \A n \in 0 .. N : n \in T
    BY <1>1, <1>7, <1>8, ByInductionUpTo
  <1>10. N \in 0 .. N
    BY <1>1
  <1>11. FirstFound(N) = VersionsReadOf(f, sec, e)
    BY DEF VersionsReadOf, N
  <1>. HIDE DEF FirstFound
  <1>12. after[N].found = FoundIn(f, sec, e)
    BY <1>9, <1>10, <1>11 DEF T, FoundIn, ReadsInside, N
  <1>. QED
    BY <1>1, <1>6, <1>12 DEF strings, N

\* The definition at any place: the result is one, and for a definition that is
\* laid out it is what its names' loop finds.
LEMMA DefinitionFound ==
    ASSUME NEW f, NEW sec, NEW e \in Definition, IsOpen(f), sec.link[1].offset \in Nat,
           DefinitionLaidOut(f, sec, e)
    PROVE  definition(f, sec.link[1].offset, e.at) = FoundIn(f, sec, e)
  <1>1. /\ Word(f, e.at + 4) \div 65536 = Len(e.aux)
        /\ e.at + Word(f, e.at + 12) = e.aux[1]
    BY DEF DefinitionLaidOut, WordsOfVerdef
  <1>2. ~(e.aux[1] >= f.len)
    <2>1. Len(e.aux) \in Nat /\ Len(e.aux) > 0 /\ 1 \in 1 .. Len(e.aux)
      BY DEF Definition, DefinitionLaidOut
    <2>2. EntryLaidOut(f, sec, e.aux[1]) /\ e.aux[1] \in Nat
      BY <2>1 DEF Definition, DefinitionLaidOut
    <2>3. e.aux[1] + SizeofVerdaux <= f.len
      BY <2>2 DEF EntryLaidOut
    <2>4. f.len \in Nat
      BY DEF IsOpen
    <2>. QED
      BY <2>2, <2>3, <2>4 DEF SizeofVerdaux
  <1>3. InMemory(f, e.at, SizeofVerdef)
    <2>1. e.at \in Nat /\ e.at + SizeofVerdef <= f.len
      BY DEF Definition, DefinitionLaidOut
    <2>2. SizeofVerdef \in Nat
      BY DEF SizeofVerdef
    <2>. QED
      BY <2>1, <2>2, InsideTheFile
  <1>4. definition(f, sec.link[1].offset, e.at)
          = auxiliaries(f, sec.link[1].offset, e.aux[1], Len(e.aux))
    BY <1>1, <1>2, <1>3 DEF definition
  <1>. QED
    BY <1>4, NamesFound

LEMMA DefinitionIsResult ==
    ASSUME NEW f, NEW strings \in Nat, NEW at \in Nat, IsOpen(f)
    PROVE  definition(f, strings, at) \in Results
  <1>. DEFINE aux == at + Word(f, at + 12)
              count == Word(f, at + 4) \div 65536
  <1>1. Word(f, at + 4) \in Nat /\ Word(f, at + 12) \in Nat
    BY WordIsNat
  <1>2. aux \in Nat /\ count \in Nat
    BY <1>1, SMT
  <1>3. definition(f, strings, at) \in {Aborted, auxiliaries(f, strings, aux, count)}
    BY DEF definition
  <1>. HIDE DEF aux, count
  <1>4. \E after : IsAuxiliaryRun(after, f, strings, aux, count)
    BY <1>2, AuxiliariesRun
  <1>5. PICK after : IsAuxiliaryRun(after, f, strings, aux, count)
    BY <1>4
  <1>6. after[count] \in AuxStates /\ auxiliaries(f, strings, aux, count) = after[count].found
    BY <1>2, <1>5 DEF IsAuxiliaryRun
  <1>7. auxiliaries(f, strings, aux, count) \in Results
    BY <1>6 DEF AuxStates
  <1>. QED
    BY <1>3, <1>7 DEF Results

\* The loop over the definitions has a run.
DefStates == [at : Nat, ended : BOOLEAN, found : Results]

LEMMA DefinitionKept ==
    ASSUME NEW f, NEW shdr, NEW w \in DefStates, IsOpen(f), Shdr(f, shdr.sh_link).sh_offset \in Nat
    PROVE  DefinitionPass(f, shdr, w) \in DefStates
  <1>. DEFINE next == Word(f, w.at + 16)
              found == definition(f, Shdr(f, shdr.sh_link).sh_offset, w.at)
  <1>1. w.at \in Nat /\ w.found \in Results
    BY DEF DefStates
  <1>2. next \in Nat
    BY WordIsNat
  <1>3. found \in Results
    BY <1>1, DefinitionIsResult
  <1>. HIDE DEF next, found
  <1>4. Join(w.found, found) \in Results
    BY <1>1, <1>3, Joined
  <1>5. [at |-> w.at + next, ended |-> next = 0, found |-> Join(w.found, found)] \in DefStates
    BY <1>1, <1>2, <1>4 DEF DefStates
  <1>6. DefinitionPass(f, shdr, w)
          \in {w, [at |-> w.at + next, ended |-> next = 0, found |-> Join(w.found, found)]}
    BY DEF DefinitionPass, next, found
  <1>. QED
    BY <1>5, <1>6

IsDefinitionRun(after, f, shdr) ==
    /\ after \in [0 .. shdr.sh_size -> DefStates]
    /\ after[0] = [at |-> shdr.sh_offset, ended |-> FALSE, found |-> Found({})]
    /\ \A n \in 1 .. shdr.sh_size : after[n] = DefinitionPass(f, shdr, after[n - 1])
    /\ definitions(f, shdr) = after[shdr.sh_size].found

LEMMA DefinitionsRun ==
    ASSUME NEW f, NEW shdr, IsOpen(f), Shdr(f, shdr.sh_link).sh_offset \in Nat,
           shdr.sh_size \in Nat, shdr.sh_offset \in Nat
    PROVE  \E after : IsDefinitionRun(after, f, shdr)
  <1>. DEFINE count == shdr.sh_size
              start == [at |-> shdr.sh_offset, ended |-> FALSE, found |-> Found({})]
              pass == [x \in (1 .. count) \X DefStates |-> DefinitionPass(f, shdr, x[2])]
              after == CHOOSE k : k = [n \in 0 .. count |->
                                         IF n = 0 THEN start ELSE DefinitionPass(f, shdr, k[n - 1])]
  <1>1. start \in DefStates
    BY DEF DefStates, Results
  <1>2. pass \in Passes(count, DefStates)
    BY DefinitionKept DEF Passes
  <1>3. \A i \in 1 .. count : \A w \in DefStates : pass[<<i, w>>] = DefinitionPass(f, shdr, w)
    OBVIOUS
  <1>4. definitions(f, shdr) = after[count].found
    BY DEF definitions
  <1>5. count \in Nat
    OBVIOUS
  <1>. HIDE DEF start, pass, after, count
  <1>6. \E run : IsLoop(run, count, DefStates, start, pass)
    BY <1>1, <1>2, <1>5, LoopRuns
  <1>7. PICK run : IsLoop(run, count, DefStates, start, pass)
    BY <1>6
  <1>8. /\ run \in [0 .. count -> DefStates] /\ run[0] = start
        /\ \A i \in 1 .. count : run[i] = pass[<<i, run[i - 1]>>]
    BY <1>7 DEF IsLoop
  <1>9. \A i \in 1 .. count : i - 1 \in 0 .. count
    BY <1>5
  <1>10. \A i \in 1 .. count : run[i] = DefinitionPass(f, shdr, run[i - 1])
    BY <1>3, <1>8, <1>9
  <1>11. run = [n \in 0 .. count |-> IF n = 0 THEN start ELSE DefinitionPass(f, shdr, run[n - 1])]
    <2>1. run = [n \in 0 .. count |-> run[n]]
      BY <1>8
    <2>2. \A n \in 0 .. count : n # 0 => n \in 1 .. count
      BY <1>5
    <2>3. \A n \in 0 .. count :
             run[n] = IF n = 0 THEN start ELSE DefinitionPass(f, shdr, run[n - 1])
      BY <1>8, <1>10, <2>2
    <2>. QED
      BY <2>1, <2>3
  <1>12. after = [n \in 0 .. count |-> IF n = 0 THEN start ELSE DefinitionPass(f, shdr, after[n - 1])]
    BY <1>11 DEF after
  <1>13. after[0] = start /\ \A n \in 1 .. count : after[n] = DefinitionPass(f, shdr, after[n - 1])
    BY <1>5, <1>12
  <1>14. \A n \in 0 .. count : after[n] \in DefStates
    <2>. DEFINE T == {n \in 0 .. count : after[n] \in DefStates}
    <2>1. 0 \in T
      BY <1>1, <1>5, <1>13
    <2>2. \A n \in 0 .. count - 1 : n \in T => n + 1 \in T
      <3>. TAKE n \in 0 .. count - 1
      <3>1. n + 1 \in 1 .. count /\ (n + 1) - 1 = n /\ n + 1 \in 0 .. count
        BY <1>5
      <3>2. after[n + 1] = DefinitionPass(f, shdr, after[n])
        BY <1>13, <3>1
      <3>. QED
        BY <3>1, <3>2, DefinitionKept
    <2>. HIDE DEF T
    <2>3. \A n \in 0 .. count : n \in T
      BY <1>5, <2>1, <2>2, ByInductionUpTo
    <2>. QED
      BY <2>3 DEF T
  <1>15. after = [n \in 0 .. count |-> after[n]]
    BY <1>12
  <1>16. after \in [0 .. count -> DefStates]
    BY <1>14, <1>15
  <1>17. IsDefinitionRun(after, f, shdr)
    BY <1>4, <1>13, <1>16 DEF IsDefinitionRun, count, start
  <1>. QED
    BY <1>17

\* A section has no more definitions than bytes: each begins after the one before.
LEMMA NoMoreThanBytes ==
    ASSUME NEW f, NEW sec, NEW d, LaidOut(f, sec, d)
    PROVE  Len(d) \in Nat /\ Len(d) > 0 /\ Len(d) <= sec.hdr.sh_size
  <1>. DEFINE N == Len(d)
              T == {n \in 0 .. N - 1 : d[n + 1].at >= sec.offset + n}
  <1>1. N \in Nat /\ N > 0 /\ \A i \in 1 .. N : d[i].at \in Nat
    <2>1. N \in Nat /\ N > 0 /\ \A i \in 1 .. N : d[i] \in Definition
      BY DEF LaidOut
    <2>. QED
      BY <2>1 DEF Definition
  <1>2. sec.offset \in Nat /\ d[1].at = sec.offset /\ sec.hdr.sh_size \in Nat
    BY <1>1 DEF LaidOut
  <1>3. \A i \in 1 .. N - 1 : /\ d[i + 1].at = d[i].at + Verdef(f, d[i].at).next
                              /\ Verdef(f, d[i].at).next > 0
    BY DEF LaidOut
  <1>4. \A i \in 1 .. N : Verdef(f, d[i].at).next \in Nat
    BY DEF LaidOut, DefinitionLaidOut
  <1>5. d[N].at < sec.offset + sec.hdr.sh_size
    BY <1>1 DEF LaidOut
  <1>. HIDE DEF N
  <1>6. 0 \in T
    BY <1>1, <1>2
  <1>7. \A n \in 0 .. (N - 1) - 1 : n \in T => n + 1 \in T
    <2>. SUFFICES ASSUME NEW n \in 0 .. (N - 1) - 1, n \in T
                  PROVE  n + 1 \in T
      OBVIOUS
    <2>. DEFINE next == Verdef(f, d[n + 1].at).next
    <2>1. n + 1 \in 1 .. N - 1 /\ n + 1 \in 1 .. N /\ n + 1 \in 0 .. N - 1 /\ (n + 1) + 1 \in 1 .. N
      BY <1>1
    <2>2. d[(n + 1) + 1].at = d[n + 1].at + next /\ next > 0 /\ next \in Nat
      BY <1>3, <1>4, <2>1
    <2>3. d[n + 1].at \in Nat /\ d[n + 1].at >= sec.offset + n
      BY <1>1, <2>1
    <2>. HIDE DEF next
    <2>4. d[(n + 1) + 1].at >= sec.offset + (n + 1)
      BY <1>2, <2>2, <2>3
    <2>. QED
      BY <2>1, <2>4
  <1>8. N - 1 \in Nat /\ (N - 1) + 1 = N /\ N - 1 \in 0 .. N - 1
    BY <1>1
  <1>. HIDE DEF T
  <1>9. \A n \in 0 .. N - 1 : n \in T
    BY <1>6, <1>7, <1>8, ByInductionUpTo
  <1>10. d[N].at >= sec.offset + (N - 1)
    BY <1>8, <1>9 DEF T
  <1>11. d[N].at \in Nat
    BY <1>1
  <1>12. N <= sec.hdr.sh_size
    BY <1>1, <1>2, <1>5, <1>10, <1>11
  <1>. QED
    BY <1>1, <1>12 DEF N

\* get_libstdcxx_version on one section: the C reader ends with the versions of
\* the strings it reads, whatever they are, or aborts when one is not in the file.
THEOREM CReadsSection ==
    ASSUME NEW f, NEW sec, NEW d, NEW shdr, IsOpen(f), LaidOut(f, sec, d), sec.hdr = shdr,
           sec.offset = shdr.sh_offset, sec.link[1].offset = Shdr(f, shdr.sh_link).sh_offset
    PROVE  definitions(f, shdr)
             = IF AllInside(f, sec, d) THEN Found(VersionsRead(f, sec, d)) ELSE Aborted
  <1>. DEFINE N == Len(d)
              M == shdr.sh_size
              strings == sec.link[1].offset
              Inside(i) == ReadsInside(f, sec, d[i])
              V(i) == VersionsReadOf(f, sec, d[i])
              First(n) == {i \in 1 .. N : i <= n}
              FirstFound(n) == UNION {V(i) : i \in First(n)}
  <1>1. N \in Nat /\ N > 0 /\ N <= M
    BY NoMoreThanBytes
  <1>2. M \in Nat /\ strings \in Nat /\ \A i \in 1 .. N : d[i] \in Definition
    BY DEF LaidOut
  <1>3. sec.offset \in Nat /\ d[1].at = sec.offset /\ \A i \in 1 .. N : d[i].at \in Nat
    <2>1. \A i \in 1 .. N : d[i].at \in Nat
      BY <1>2 DEF Definition
    <2>2. d[1].at = sec.offset
      BY DEF LaidOut
    <2>. QED
      BY <1>1, <2>1, <2>2
  <1>4. \A i \in 1 .. N : DefinitionLaidOut(f, sec, d[i]) /\ d[i].at < sec.offset + M
    BY DEF LaidOut
  <1>5. \A i \in 1 .. N : /\ Word(f, d[i].at + 16) = Verdef(f, d[i].at).next
                          /\ Word(f, d[i].at + 16) \in Nat
    <2>. TAKE i \in 1 .. N
    <2>1. WordsOfVerdef(f, d[i].at)
      BY <1>4 DEF DefinitionLaidOut
    <2>2. Word(f, d[i].at + 16) \in Nat
      BY WordIsNat
    <2>. QED
      BY <2>1, <2>2 DEF WordsOfVerdef
  <1>6. \A i \in 1 .. N - 1 : /\ d[i + 1].at = d[i].at + Word(f, d[i].at + 16)
                              /\ Word(f, d[i].at + 16) # 0
    <2>. TAKE i \in 1 .. N - 1
    <2>1. i \in 1 .. N
      BY <1>1
    <2>2. d[i + 1].at = d[i].at + Verdef(f, d[i].at).next /\ Verdef(f, d[i].at).next > 0
      BY DEF LaidOut
    <2>. QED
      BY <1>5, <2>1, <2>2
  <1>7. Word(f, d[N].at + 16) = 0
    BY <1>1, <1>5 DEF LaidOut
  <1>8. \A i \in 1 .. N : definition(f, strings, d[i].at) = FoundIn(f, sec, d[i])
    BY <1>2, <1>4, DefinitionFound
  <1>9. \E after : IsDefinitionRun(after, f, shdr)
    BY <1>2, <1>3, DefinitionsRun
  <1>10. PICK after : IsDefinitionRun(after, f, shdr)
    BY <1>9
  <1>11. /\ after[0] = [at |-> sec.offset, ended |-> FALSE, found |-> Found({})]
         /\ \A n \in 1 .. M : after[n] = DefinitionPass(f, shdr, after[n - 1])
         /\ definitions(f, shdr) = after[M].found
    BY <1>10 DEF IsDefinitionRun
  <1>. DEFINE Whole(n) == /\ after[n].found = Found(FirstFound(n))
                          /\ n < N => after[n].at = d[n + 1].at /\ ~after[n].ended
                          /\ n >= N => after[n].ended
              T == {n \in 0 .. M :
                      /\ (\A i \in First(n) : Inside(i)) => Whole(n)
                      /\ (\E i \in First(n) : ~Inside(i)) => after[n].found = Aborted}
  <1>12. 0 \in T
    <2>1. First(0) = {}
      BY <1>1
    <2>2. FirstFound(0) = {}
      BY <2>1
    <2>3. 0 < N /\ ~(0 >= N) /\ 0 \in 0 .. M /\ 0 + 1 = 1
      BY <1>1, <1>2
    <2>. HIDE DEF First, FirstFound, Inside
    <2>4. Whole(0)
      <3>1. after[0].found = Found({}) /\ after[0].at = sec.offset /\ ~after[0].ended
        BY <1>11
      <3>. QED
        BY <1>3, <2>2, <2>3, <3>1
    <2>. QED
      BY <2>1, <2>3, <2>4
  <1>13. \A n \in 0 .. M - 1 : n \in T => n + 1 \in T
    <2>. SUFFICES ASSUME NEW n \in 0 .. M - 1, n \in T
                  PROVE  n + 1 \in T
      OBVIOUS
    <2>1. n + 1 \in 1 .. M /\ n + 1 \in 0 .. M /\ (n + 1) - 1 = n /\ n \in Nat
      BY <1>2
    <2>2. after[n + 1] = DefinitionPass(f, shdr, after[n])
      BY <1>11, <2>1
    <2>3. First(n) \subseteq First(n + 1)
      BY <1>1, <2>1
    <2>4. CASE \E i \in First(n) : ~Inside(i)
      <3>1. after[n].found = Aborted
        BY <2>4
      <3>2. after[n + 1].found = Aborted
        BY <2>2, <3>1 DEF DefinitionPass
      <3>3. \E i \in First(n + 1) : ~Inside(i)
        BY <2>3, <2>4
      <3>. HIDE DEF First, Inside, Whole
      <3>. QED
        BY <2>1, <3>2, <3>3
    <2>5. CASE (\A i \in First(n) : Inside(i)) /\ n >= N
      <3>1. First(n + 1) = First(n)
        BY <1>1, <2>1, <2>5
      <3>2. Whole(n)
        BY <2>5
      <3>3. after[n + 1] = after[n]
        BY <2>2, <2>5, <3>2 DEF DefinitionPass
      <3>4. n + 1 >= N /\ ~(n + 1 < N) /\ ~(n < N)
        BY <1>1, <2>1, <2>5
      <3>5. FirstFound(n + 1) = FirstFound(n)
        BY <3>1
      <3>. HIDE DEF First, FirstFound, Inside
      <3>6. Whole(n + 1)
        BY <2>5, <3>2, <3>3, <3>4, <3>5
      <3>. HIDE DEF Whole
      <3>. QED
        BY <2>1, <2>5, <3>1, <3>6
    <2>6. CASE (\A i \in First(n) : Inside(i)) /\ ~(n >= N)
      <3>. DEFINE e == d[n + 1]
                  next == Word(f, e.at + 16)
      <3>1. n < N /\ n + 1 \in 1 .. N
        BY <1>1, <2>1, <2>6
      <3>2. First(n + 1) = First(n) \cup {n + 1}
        BY <1>1, <2>1, <3>1
      <3>3. FirstFound(n + 1) = FirstFound(n) \cup V(n + 1)
        BY <3>2
      <3>4. after[n].found = Found(FirstFound(n)) /\ after[n].at = e.at /\ ~after[n].ended
        BY <2>6, <3>1
      <3>. HIDE DEF First, FirstFound, V, Inside, Whole
      <3>5. after[n].found # Aborted
        BY <3>4, Joined
      <3>6. ~(e.at - sec.offset >= M)
        BY <1>2, <1>3, <1>4, <3>1
      <3>7. /\ after[n + 1].at = e.at + next
            /\ after[n + 1].ended = (next = 0)
            /\ after[n + 1].found = Join(after[n].found, FoundIn(f, sec, e))
        <4>1. definition(f, Shdr(f, shdr.sh_link).sh_offset, e.at) = FoundIn(f, sec, e)
          BY <1>8, <3>1
        <4>2. ~(after[n].ended \/ after[n].found = Aborted \/ after[n].at - shdr.sh_offset >= shdr.sh_size)
          BY <3>4, <3>5, <3>6
        <4>. QED
          BY <2>2, <3>4, <4>1, <4>2 DEF DefinitionPass
      <3>8. CASE Inside(n + 1)
        <4>1. FoundIn(f, sec, e) = Found(V(n + 1))
          BY <3>8 DEF FoundIn, Inside, V
        <4>2. after[n + 1].found = Found(FirstFound(n + 1))
          BY <3>3, <3>4, <3>7, <4>1, Joined
        <4>3. n + 1 < N => after[n + 1].at = d[(n + 1) + 1].at /\ ~after[n + 1].ended
          <5>. HAVE n + 1 < N
          <5>1. n + 1 \in 1 .. N - 1
            BY <1>1, <2>1
          <5>. QED
            BY <1>6, <3>7, <5>1
        <4>4. n + 1 >= N => after[n + 1].ended
          <5>. HAVE n + 1 >= N
          <5>1. n + 1 = N
            BY <1>1, <3>1
          <5>. QED
            BY <1>7, <3>7, <5>1
        <4>5. Whole(n + 1)
          BY <4>2, <4>3, <4>4 DEF Whole
        <4>6. \A i \in First(n + 1) : Inside(i)
          BY <2>6, <3>2, <3>8
        <4>. QED
          BY <2>1, <4>5, <4>6
      <3>9. CASE ~Inside(n + 1)
        <4>1. FoundIn(f, sec, e) = Aborted
          BY <3>9 DEF FoundIn, Inside
        <4>2. after[n + 1].found = Aborted
          BY <3>7, <4>1, Joined
        <4>3. \E i \in First(n + 1) : ~Inside(i)
          BY <3>2, <3>9
        <4>. QED
          BY <2>1, <4>2, <4>3
      <3>. QED
        BY <3>8, <3>9
    <2>. QED
      BY <2>4, <2>5, <2>6
  <1>. HIDE DEF T
  <1>14. \A n \in 0 .. M : n \in T
    BY <1>2, <1>12, <1>13, ByInductionUpTo
  <1>15. M \in T
    BY <1>2, <1>14
  <1>16. First(M) = 1 .. N
    BY <1>1, <1>2
  <1>17. FirstFound(M) = VersionsRead(f, sec, d)
    BY <1>16 DEF VersionsRead
  <1>18. (\A i \in First(M) : Inside(i)) <=> AllInside(f, sec, d)
    BY <1>16 DEF AllInside
  <1>. HIDE DEF First, FirstFound, Inside
  <1>19. CASE AllInside(f, sec, d)
    <2>1. Whole(M)
      BY <1>15, <1>18, <1>19 DEF T
    <2>. QED
      BY <1>11, <1>17, <1>19, <2>1
  <1>20. CASE ~AllInside(f, sec, d)
    <2>1. after[M].found = Aborted
      BY <1>15, <1>18, <1>20 DEF T
    <2>. QED
      BY <1>11, <1>20, <2>1
  <1>. QED
    BY <1>19, <1>20

\* The section with version definitions decides; the others change nothing.
LEMMA OneSectionDecides ==
    ASSUME NEW f, NEW i, NEW sec, IsOpen(f), OnlySection(f, i, sec), sec.offset \in Nat,
           definitions(f, Shdr(f, i)) \in Results
    PROVE  AllSections(f) = definitions(f, Shdr(f, i))
  <1>. DEFINE N == f.header.e_shnum
              str == Shdr(f, f.header.e_shstrndx)
              D == definitions(f, Shdr(f, i))
              named(n) == f.strs[str.sh_offset + Shdr(f, n).sh_name] \in VersionSections
              W == [n \in 0 .. N |-> IF n <= i THEN Found({}) ELSE D]
              after == CHOOSE k : k = [n \in 0 .. N |->
                                         IF n = 0 THEN Found({}) ELSE SectionPass(f, n - 1, k[n - 1])]
  <1>1. N \in Nat /\ i \in 0 .. N - 1 /\ str.sh_size \in Nat
    BY DEF OnlySection
  <1>2. \A n \in 0 .. N - 1 : ~(Shdr(f, n).sh_name >= str.sh_size) /\ (named(n) <=> n = i)
    <2>. TAKE n \in 0 .. N - 1
    <2>1. Shdr(f, n).sh_name \in 0 .. str.sh_size - 1 /\ (named(n) <=> n = i)
      BY DEF OnlySection
    <2>2. ~(Shdr(f, n).sh_name >= str.sh_size)
      BY <1>1, <2>1
    <2>. QED
      BY <2>1, <2>2
  <1>3. ~(Shdr(f, i).sh_offset >= f.len)
    <2>1. Shdr(f, i).sh_offset = sec.offset /\ sec.offset < f.len
      BY DEF OnlySection
    <2>2. f.len \in Nat
      BY DEF IsOpen
    <2>. QED
      BY <2>1, <2>2
  <1>4. Join(Found({}), D) = D
    <2>1. CASE D = Aborted
      BY <2>1, Joined
    <2>2. CASE D # Aborted
      <3>1. PICK S : D = Found(S)
        BY <2>2 DEF Results
      <3>2. {} \cup S = S
        OBVIOUS
      <3>. QED
        BY <3>1, <3>2, Joined
    <2>. QED
      BY <2>1, <2>2
  <1>5. AllSections(f) = after[N]
    BY DEF AllSections
  <1>6. Found({}) # Aborted
    BY Joined
  <1>7. \A n \in 0 .. N - 1 : SectionPass(f, n, W[n]) = W[n + 1]
    <2>. TAKE n \in 0 .. N - 1
    <2>1. n \in 0 .. N /\ n + 1 \in 0 .. N /\ n \in Int /\ i \in Int
      BY <1>1
    <2>2. ~(Shdr(f, n).sh_name >= str.sh_size) /\ (named(n) <=> n = i)
      BY <1>2
    <2>3. CASE n < i
      <3>1. W[n] = Found({}) /\ W[n + 1] = Found({}) /\ ~named(n)
        BY <2>1, <2>2, <2>3
      <3>. HIDE DEF W, D
      <3>. QED
        BY <1>6, <2>2, <3>1 DEF SectionPass
    <2>4. CASE n = i
      <3>1. W[n] = Found({}) /\ W[n + 1] = D /\ named(n)
        BY <2>1, <2>2, <2>4
      <3>. HIDE DEF W
      <3>2. SectionPass(f, n, W[n]) = Join(Found({}), D)
        BY <1>3, <1>6, <2>2, <2>4, <3>1 DEF SectionPass
      <3>. QED
        BY <1>4, <3>1, <3>2
    <2>5. CASE n > i
      <3>1. W[n] = D /\ W[n + 1] = D /\ ~named(n)
        BY <2>1, <2>2, <2>5
      <3>. HIDE DEF W, D
      <3>. QED
        BY <2>2, <3>1 DEF SectionPass
    <2>. QED
      BY <2>1, <2>3, <2>4, <2>5
  <1>8. W[0] = Found({}) /\ W[N] = D
    BY <1>1
  <1>9. \A n \in 1 .. N : n - 1 \in 0 .. N - 1 /\ (n - 1) + 1 = n
    BY <1>1
  <1>10. W = [n \in 0 .. N |-> IF n = 0 THEN Found({}) ELSE SectionPass(f, n - 1, W[n - 1])]
    <2>1. W = [n \in 0 .. N |-> W[n]]
      OBVIOUS
    <2>. HIDE DEF W, D, N
    <2>2. \A n \in 0 .. N : W[n] = IF n = 0 THEN Found({}) ELSE SectionPass(f, n - 1, W[n - 1])
      BY <1>1, <1>7, <1>8, <1>9
    <2>. QED
      BY <2>1, <2>2
  <1>. HIDE DEF W, D, N
  <1>11. after = [n \in 0 .. N |-> IF n = 0 THEN Found({}) ELSE SectionPass(f, n - 1, after[n - 1])]
    BY <1>10
  <1>. HIDE DEF after
  <1>. DEFINE T == {n \in 0 .. N : after[n] = W[n]}
  <1>12. 0 \in T
    BY <1>1, <1>8, <1>11
  <1>13. \A n \in 0 .. N - 1 : n \in T => n + 1 \in T
    <2>. TAKE n \in 0 .. N - 1
    <2>1. n + 1 \in 0 .. N /\ n + 1 # 0 /\ (n + 1) - 1 = n
      BY <1>1
    <2>2. after[n + 1] = SectionPass(f, n, after[n])
      BY <1>11, <2>1
    <2>. QED
      BY <1>7, <2>1, <2>2
  <1>. HIDE DEF T
  <1>14. \A n \in 0 .. N : n \in T
    BY <1>1, <1>12, <1>13, ByInductionUpTo
  <1>15. after[N] = W[N]
    BY <1>1, <1>14 DEF T
  <1>. QED
    BY <1>5, <1>8, <1>15 DEF D

\* The highest of a set of numbers that has a bound.
LEMMA HighestOf ==
    ASSUME NEW S \in SUBSET Nat, S # {}, NEW b \in Nat, \A x \in S : x <= b
    PROVE  Max(S) \in S /\ \A x \in S : x <= Max(S)
  <1>. DEFINE T == {n \in Nat : \E x \in S : n = b - x}
  <1>1. \A x \in S : b - x \in T
    OBVIOUS
  <1>2. T \in SUBSET Nat /\ T # {}
    BY <1>1
  <1>3. PICK n \in T : \A m \in T : n <= m
    BY <1>2, LeastOf
  <1>4. PICK x \in S : n = b - x
    BY <1>3
  <1>5. \A y \in S : x >= y
    BY <1>1, <1>3, <1>4
  <1>6. Max(S) \in S /\ \A y \in S : Max(S) >= y
    BY <1>4, <1>5 DEF Max
  <1>. QED
    BY <1>6

LEMMA HighestOrZero ==
    ASSUME NEW S \in SUBSET Nat, NEW b \in Nat, \A x \in S : x <= b
    PROVE  /\ S # {} => Max(S \cup {0}) = Max(S)
           /\ S = {} => Max(S \cup {0}) = 0
           /\ \A R \in SUBSET S : R # {} => Max(R) <= Max(S)
  <1>. DEFINE Z == S \cup {0}
  <1>1. Max(Z) \in Z /\ \A x \in Z : x <= Max(Z)
    <2>1. Z \in SUBSET Nat /\ Z # {} /\ \A x \in Z : x <= b
      OBVIOUS
    <2>. HIDE DEF Z
    <2>. QED
      BY <2>1, HighestOf
  <1>2. ASSUME S # {} PROVE Max(S \cup {0}) = Max(S)
    <2>. DEFINE m == Max(S)
                z == Max(Z)
    <2>1. m \in S /\ \A x \in S : x <= m
      BY <1>2, HighestOf
    <2>. HIDE DEF m
    <2>2. z \in S \/ z = 0
      BY <1>1
    <2>3. m \in Z
      BY <2>1
    <2>4. m <= z
      BY <1>1, <2>3
    <2>5. m \in Nat /\ (z \in S => z <= m /\ z \in Nat)
      BY <2>1
    <2>. HIDE DEF z, Z
    <2>6. z \in S => m = z
      BY <2>4, <2>5
    <2>7. z = 0 => m = z
      BY <2>4, <2>5
    <2>8. m = z
      BY <2>2, <2>6, <2>7
    <2>. QED
      BY <2>8 DEF m, z, Z
  <1>3. ASSUME NEW R \in SUBSET S, R # {} PROVE Max(R) <= Max(S)
    <2>1. Max(S) \in S /\ \A x \in S : x <= Max(S)
      BY <1>3, HighestOf
    <2>2. Max(R) \in R
      BY <1>3, HighestOf
    <2>. QED
      BY <2>1, <2>2
  <1>. QED
    BY <1>1, <1>2, <1>3

LEMMA VersionsBounded ==
    ASSUME NEW f, NEW at, IsOpen(f)
    PROVE  /\ VersionsAt(f, at) \in SUBSET Nat /\ MaxVersion \in Nat
           /\ \A v \in VersionsAt(f, at) : v <= MaxVersion
  <1>1. \A n \in DOMAIN f.versions : f.versions[n] \in 0 .. MaxVersion
    BY DEF IsOpen
  <1>2. MaxVersion \in Nat
    BY SMT DEF MaxVersion
  <1>3. \A n \in DOMAIN f.versions : f.versions[n] <= MaxVersion
    BY <1>1, <1>2
  <1>. QED
    BY <1>2, <1>3, VersionsAreNat DEF VersionsAt

\* What either reader finds are versions; both read the first name of each
\* definition at the same place.
LEMMA VersionsFound ==
    ASSUME NEW f, NEW sec, NEW d, IsOpen(f), LaidOut(f, sec, d)
    PROVE  /\ VersionsNamed(f, sec, d) \in SUBSET Nat /\ VersionsRead(f, sec, d) \in SUBSET Nat
           /\ MaxVersion \in Nat
           /\ \A v \in VersionsNamed(f, sec, d) : v <= MaxVersion
           /\ \A v \in VersionsRead(f, sec, d) : v <= MaxVersion
           /\ \A i \in 1 .. Len(d) :
                 /\ 1 \in 1 .. Len(d[i].aux) /\ Len(d[i].read) = Len(d[i].aux)
                 /\ NamePlace(f, sec, d[i].aux[1]) = ReadPlace(f, sec, d[i].read[1])
                 /\ EntryInside(f, sec, d[i].read[1])
  <1>1. \A at : /\ VersionsAt(f, at) \in SUBSET Nat
                /\ \A v \in VersionsAt(f, at) : v <= MaxVersion
    BY VersionsBounded
  <1>2. MaxVersion \in Nat
    BY VersionsBounded
  <1>3. \A i \in 1 .. Len(d) : d[i] \in Definition
    BY DEF LaidOut
  <1>4. \A i \in 1 .. Len(d) :
           /\ 1 \in 1 .. Len(d[i].aux) /\ Len(d[i].read) = Len(d[i].aux)
           /\ NamePlace(f, sec, d[i].aux[1]) = ReadPlace(f, sec, d[i].read[1])
           /\ EntryInside(f, sec, d[i].read[1])
    <2>. TAKE i \in 1 .. Len(d)
    <2>1. DefinitionLaidOut(f, sec, d[i]) /\ sec.link[1].offset \in Nat
      BY DEF LaidOut
    <2>2. Len(d[i].aux) \in Nat
      BY <1>3 DEF Definition
    <2>3. 1 \in 1 .. Len(d[i].aux) /\ Len(d[i].read) = Len(d[i].aux) /\ d[i].read[1] = d[i].aux[1]
      BY <2>1, <2>2 DEF DefinitionLaidOut
    <2>4. EntryLaidOut(f, sec, d[i].aux[1])
      BY <2>1, <2>3 DEF DefinitionLaidOut
    <2>5. NamePlace(f, sec, d[i].aux[1]) = ReadPlace(f, sec, d[i].aux[1])
      BY <2>1, <2>4, PlaceInside
    <2>6. d[i].aux[1] \in Nat
      BY <1>3, <2>3 DEF Definition
    <2>7. EntryInside(f, sec, d[i].aux[1])
      BY <2>1, <2>4, <2>6, EntryIsInside
    <2>. QED
      BY <2>3, <2>5, <2>7
  <1>5. /\ VersionsNamed(f, sec, d) \in SUBSET Nat
        /\ \A v \in VersionsNamed(f, sec, d) : v <= MaxVersion
    BY <1>1 DEF VersionsNamed, VersionsOf
  <1>6. /\ VersionsRead(f, sec, d) \in SUBSET Nat
        /\ \A v \in VersionsRead(f, sec, d) : v <= MaxVersion
    BY <1>1 DEF VersionsRead, VersionsReadOf
  <1>. QED
    BY <1>2, <1>4, <1>5, <1>6

\* get_libstdcxx_version on a file of the loader's class: the process ends, with a
\* fault or with an abort, exactly when an entry that is read for a name is not
\* mapped or the name in it is not in the file, and otherwise it returns the
\* highest version it came upon.
THEOREM CReadsFile ==
    ASSUME NEW f, NEW i, NEW sec, NEW d, IsOpen(f), IsNative(f), OnlySection(f, i, sec),
           LaidOut(f, sec, d)
    PROVE  get_libstdcxx_version(f)
             = IF ~AllInside(f, sec, d) THEN [ec |-> "abort", version |-> 0]
               ELSE IF VersionsRead(f, sec, d) = {} THEN [ec |-> "fatal_error", version |-> 0]
               ELSE [ec |-> "success", version |-> Max(VersionsRead(f, sec, d))]
  <1>. DEFINE found == IF AllInside(f, sec, d) THEN Found(VersionsRead(f, sec, d)) ELSE Aborted
  <1>1. definitions(f, Shdr(f, i)) = found
    <2>1. sec.hdr = Shdr(f, i) /\ sec.offset = Shdr(f, i).sh_offset
      BY DEF OnlySection
    <2>2. sec.link[1].offset = Shdr(f, Shdr(f, i).sh_link).sh_offset
      BY DEF OnlySection
    <2>. QED
      BY <2>1, <2>2, CReadsSection
  <1>2. found \in Results
    BY VersionsFound DEF Results
  <1>3. sec.offset \in Nat
    <2>1. d \in Seq(Definition) /\ Len(d) > 0 /\ d[1].at = sec.offset
      BY DEF LaidOut
    <2>2. d[1] \in Definition
      BY <2>1
    <2>. QED
      BY <2>1, <2>2 DEF Definition
  <1>. HIDE DEF found
  <1>4. AllSections(f) = found
    BY <1>1, <1>2, <1>3, OneSectionDecides
  <1>5. f.ident.magic /\ f.ident.class = f.native /\ InBounds(f) /\ HeadersInMemory(f)
    <2>1. f.ident.magic /\ f.ident.class = f.native /\ InBounds(f)
      BY DEF IsNative
    <2>. DEFINE size == f.header.e_shnum * sizeof(f, "Elf_Shdr")
    <2>2. size \in Nat /\ f.header.e_shoff \in Nat /\ f.header.e_shoff + size <= f.len
      BY DEF OnlySection
    <2>. HIDE DEF size
    <2>3. InMemory(f, f.header.e_shoff, size)
      BY <2>2, InsideTheFile
    <2>. QED
      BY <2>1, <2>3 DEF HeadersInMemory, size
  <1>6. CASE AllInside(f, sec, d)
    <2>1. found # Aborted /\ found[1] = VersionsRead(f, sec, d)
      BY <1>6, Joined DEF found
    <2>. QED
      BY <1>4, <1>5, <1>6, <2>1 DEF get_libstdcxx_version
  <1>7. CASE ~AllInside(f, sec, d)
    <2>1. found = Aborted
      BY <1>7 DEF found
    <2>. QED
      BY <1>4, <1>5, <1>7, <2>1 DEF get_libstdcxx_version
  <1>. QED
    BY <1>6, <1>7

\* The C code reads the first name of a definition where it is, so that no version
\* of the section escapes it when the parents are themselves defined.
LEMMA ParentsRead ==
    ASSUME NEW f, NEW sec, NEW d, IsOpen(f), LaidOut(f, sec, d), ParentsDefined(f, sec, d)
    PROVE  VersionsNamed(f, sec, d) \subseteq VersionsRead(f, sec, d)
  <1>. SUFFICES ASSUME NEW v \in VersionsNamed(f, sec, d)
                PROVE  v \in VersionsRead(f, sec, d)
    OBVIOUS
  <1>1. PICK i \in 1 .. Len(d) : v \in VersionsAt(f, NamePlace(f, sec, d[i].aux[1]))
    BY DEF ParentsDefined
  <1>2. /\ 1 \in 1 .. Len(d[i].aux) /\ Len(d[i].read) = Len(d[i].aux)
        /\ NamePlace(f, sec, d[i].aux[1]) = ReadPlace(f, sec, d[i].read[1])
    BY VersionsFound
  <1>3. v \in VersionsReadOf(f, sec, d[i])
    BY <1>1, <1>2 DEF VersionsReadOf
  <1>. QED
    BY <1>3 DEF VersionsRead

\* The two readers of a version, get_libstdcxx_version and the loop of
\* get_glibcxx_versions_from_gnu_version_d: whatever the C one takes for the
\* name of a parent, it is never below the Python one; where it found nothing,
\* neither did the Python one.
THEOREM CNeverBelowPython ==
    ASSUME NEW f, NEW i, NEW sec, NEW d, IsOpen(f), IsNative(f), OnlySection(f, i, sec),
           LaidOut(f, sec, d), ParentsDefined(f, sec, d)
    PROVE  LET c == get_libstdcxx_version(f)
               py == highest_version(f, sec)
           IN  /\ ~Failed(py)
               /\ c.ec = "success" => py.val <= c.version
               /\ c.ec = "fatal_error" => py.val = 0
  <1>. DEFINE c == get_libstdcxx_version(f)
              py == highest_version(f, sec)
              N == VersionsNamed(f, sec, d)
              R == VersionsRead(f, sec, d)
  <1>1. N \subseteq R
    BY ParentsRead
  <1>2. /\ N \in SUBSET Nat /\ R \in SUBSET Nat /\ MaxVersion \in Nat
        /\ \A v \in N : v <= MaxVersion
        /\ \A v \in R : v <= MaxVersion
    BY VersionsFound
  <1>3. py = At(f, Max(N \cup {0}), f.len)
    BY PythonReadsHighest
  <1>4. py.val = Max(N \cup {0}) /\ ~Failed(py)
    BY <1>3, AtFields
  <1>5. c = IF ~AllInside(f, sec, d) THEN [ec |-> "abort", version |-> 0]
            ELSE IF R = {} THEN [ec |-> "fatal_error", version |-> 0]
            ELSE [ec |-> "success", version |-> Max(R)]
    BY CReadsFile
  <1>. HIDE DEF c, py, N, R
  <1>6. /\ N # {} => Max(N \cup {0}) = Max(N)
        /\ N = {} => Max(N \cup {0}) = 0
    BY <1>2, HighestOrZero
  <1>7. R # {} => Max(R) \in Nat
    BY <1>2, HighestOf
  <1>8. N # {} => Max(N) <= Max(R)
    BY <1>1, <1>2, HighestOrZero
  <1>9. ASSUME c.ec = "success" PROVE py.val <= c.version
    <2>1. R # {} /\ c.version = Max(R)
      BY <1>5, <1>9
    <2>2. CASE N = {}
      BY <1>4, <1>6, <1>7, <2>1, <2>2
    <2>3. CASE N # {}
      BY <1>4, <1>6, <1>8, <2>1, <2>3
    <2>. QED
      BY <2>2, <2>3
  <1>10. ASSUME c.ec = "fatal_error" PROVE py.val = 0
    <2>1. R = {}
      BY <1>5, <1>10
    <2>2. N = {}
      BY <1>1, <2>1
    <2>. QED
      BY <1>4, <1>6, <2>2
  <1>. QED
    BY <1>4, <1>9, <1>10 DEF c, py

\* get_libstdcxx_version and get_glibcxx_versions_from_gnu_version_d tell the same
\* version, or both that there is none, exactly when what the C code takes for the
\* names of parents is mapped, in the file and no higher than what the section has.
THEOREM ReadersAgreeUnlessStray ==
    ASSUME NEW f, NEW i, NEW sec, NEW d, IsOpen(f), IsNative(f), OnlySection(f, i, sec),
           LaidOut(f, sec, d), ParentsDefined(f, sec, d)
    PROVE  SameVersion(get_libstdcxx_version(f), highest_version(f, sec))
             <=> StraysHarmless(f, sec, d)
  <1>. DEFINE c == get_libstdcxx_version(f)
              py == highest_version(f, sec)
              N == VersionsNamed(f, sec, d)
              R == VersionsRead(f, sec, d)
              highest == Max(N \cup {0})
  <1>1. N \subseteq R
    BY ParentsRead
  <1>2. /\ N \in SUBSET Nat /\ R \in SUBSET Nat /\ MaxVersion \in Nat
        /\ \A v \in N : v <= MaxVersion
        /\ \A v \in R : v <= MaxVersion
    BY VersionsFound
  <1>3. py = At(f, highest, f.len)
    BY PythonReadsHighest
  <1>4. py.val = highest /\ ~Failed(py)
    BY <1>3, AtFields
  <1>5. c = IF ~AllInside(f, sec, d) THEN [ec |-> "abort", version |-> 0]
            ELSE IF R = {} THEN [ec |-> "fatal_error", version |-> 0]
            ELSE [ec |-> "success", version |-> Max(R)]
    BY CReadsFile
  <1>6. highest \in N \cup {0} /\ \A u \in N \cup {0} : u <= highest
    <2>. DEFINE Z == N \cup {0}
    <2>1. Z \in SUBSET Nat /\ Z # {} /\ \A u \in Z : u <= MaxVersion
      BY <1>2
    <2>. HIDE DEF Z
    <2>2. Max(Z) \in Z /\ \A u \in Z : u <= Max(Z)
      BY <1>2, <2>1, HighestOf
    <2>. QED
      BY <2>2 DEF Z
  <1>7. StraysHarmless(f, sec, d) <=> AllInside(f, sec, d) /\ \A v \in R : v <= highest
    <2>1. ASSUME NEW v \in R, NEW u \in N \cup {0}, v <= u PROVE v <= highest
      BY <1>2, <1>6, <2>1
    <2>. HIDE DEF highest
    <2>. QED
      BY <1>6, <2>1 DEF StraysHarmless
  <1>. HIDE DEF c, py, N, R, highest
  <1>8. highest \in Nat
    BY <1>2, <1>6
  <1>9. CASE ~AllInside(f, sec, d)
    BY <1>5, <1>7, <1>9 DEF SameVersion, c, py
  <1>10. CASE AllInside(f, sec, d) /\ R = {}
    <2>1. highest = 0
      BY <1>1, <1>6, <1>10
    <2>2. SameVersion(c, py)
      BY <1>4, <1>5, <1>10, <2>1 DEF SameVersion
    <2>. QED
      BY <1>7, <1>10, <2>2 DEF c, py
  <1>11. CASE AllInside(f, sec, d) /\ R # {}
    <2>. DEFINE top == Max(R)
    <2>1. top \in R /\ \A v \in R : v <= top
      BY <1>2, <1>11, HighestOf
    <2>2. c.ec # "abort" /\ c.version = top
      BY <1>5, <1>11
    <2>. HIDE DEF top
    <2>3. top \in Nat /\ highest <= top
      BY <1>1, <1>2, <1>6, <2>1
    <2>4. (\A v \in R : v <= highest) <=> top = highest
      <3>1. (\A v \in R : v <= highest) => top <= highest
        BY <2>1
      <3>2. top <= highest => top = highest
        BY <1>8, <2>3
      <3>. QED
        BY <2>1, <3>1, <3>2
    <2>5. SameVersion(c, py) <=> top = highest
      BY <1>4, <2>2 DEF SameVersion
    <2>. QED
      BY <1>7, <1>11, <2>4, <2>5 DEF c, py
  <1>. QED
    BY <1>9, <1>10, <1>11

\* Where no version names a parent there is nothing to stray upon: the two readers
\* tell the same of every such section.
THEOREM ReadersAgreeWithoutParents ==
    ASSUME NEW f, NEW i, NEW sec, NEW d, IsOpen(f), IsNative(f), OnlySection(f, i, sec),
           LaidOut(f, sec, d), \A k \in 1 .. Len(d) : Len(d[k].aux) = 1
    PROVE  SameVersion(get_libstdcxx_version(f), highest_version(f, sec))
  <1>1. \A k \in 1 .. Len(d) :
           /\ Len(d[k].read) = 1 /\ 1 .. Len(d[k].aux) = {1} /\ 1 .. Len(d[k].read) = {1}
           /\ NamePlace(f, sec, d[k].aux[1]) = ReadPlace(f, sec, d[k].read[1])
           /\ EntryInside(f, sec, d[k].read[1])
    <2>1. 1 .. 1 = {1}
      OBVIOUS
    <2>2. \A k \in 1 .. Len(d) :
             /\ Len(d[k].read) = Len(d[k].aux)
             /\ NamePlace(f, sec, d[k].aux[1]) = ReadPlace(f, sec, d[k].read[1])
             /\ EntryInside(f, sec, d[k].read[1])
      BY VersionsFound
    <2>. TAKE k \in 1 .. Len(d)
    <2>3. Len(d[k].aux) = 1 /\ Len(d[k].read) = 1
      BY <2>2
    <2>. QED
      BY <2>1, <2>2, <2>3
  <1>2. ParentsDefined(f, sec, d)
    BY <1>1 DEF ParentsDefined, VersionsNamed, VersionsOf
  <1>3. AllInside(f, sec, d)
    BY <1>1 DEF AllInside, ReadsInside
  <1>4. VersionsRead(f, sec, d) = VersionsNamed(f, sec, d)
    <2>1. \A k \in 1 .. Len(d) : VersionsReadOf(f, sec, d[k]) = VersionsOf(f, sec, d[k])
      BY <1>1 DEF VersionsReadOf, VersionsOf
    <2>. QED
      BY <2>1 DEF VersionsRead, VersionsNamed
  <1>5. \A v \in VersionsNamed(f, sec, d) : v <= v
    BY VersionsFound
  <1>6. StraysHarmless(f, sec, d)
    BY <1>3, <1>4, <1>5 DEF StraysHarmless
  <1>. QED
    BY <1>2, <1>6, ReadersAgreeUnlessStray

\* A step of vda_next that counts entries of eight bytes is one of 64 bytes: in a
\* section without gaps the C code takes for the name of a parent the first name
\* of the definition after the next, or the vd_aux of that definition, which is
\* the size of an Elf_Verdef, for the place of a string; either is in the file.
THEOREM StrayWithinChain ==
    ASSUME NEW f, NEW sec, NEW d, IsOpen(f), LaidOut(f, sec, d), WithoutGaps(f, d),
           NEW i \in 1 .. Len(d) - 2, Len(d[i].aux) = 2
    PROVE  /\ ReadPlace(f, sec, d[i].read[2])
                = IF Len(d[i + 1].aux) = 1 THEN NamePlace(f, sec, d[i + 2].aux[1])
                  ELSE sec.link[1].offset + SizeofVerdef
           /\ InMemory(f, d[i].read[2], SizeofVerdaux)
  <1>1. /\ d \in Seq(Definition) /\ i \in 1 .. Len(d) /\ i + 1 \in 1 .. Len(d) /\ i + 2 \in 1 .. Len(d)
        /\ i \in 1 .. Len(d) - 1 /\ i + 1 \in 1 .. Len(d) - 1 /\ (i + 1) + 1 = i + 2
    BY DEF LaidOut
  <1>2. d[i].at \in Nat
    <2>1. d[i] \in Definition
      BY <1>1
    <2>. QED
      BY <2>1 DEF Definition
  <1>3. DefinitionLaidOut(f, sec, d[i]) /\ DefinitionLaidOut(f, sec, d[i + 2])
    BY <1>1 DEF LaidOut
  <1>4. \A k \in 1 .. Len(d) - 1 :
           Len(d[k].aux) \in {1, 2} /\ Verdef(f, d[k].at).next = 20 + 8 * Len(d[k].aux)
    <2>. TAKE k \in 1 .. Len(d) - 1
    <2>1. k \in 1 .. Len(d) /\ k < Len(d)
      BY <1>1
    <2>. QED
      BY <2>1 DEF WithoutGaps, SizeofVerdef, SizeofVerdaux
  <1>5. d[i + 1].at = d[i].at + 36
    <2>1. Verdef(f, d[i].at).next = 20 + 8 * Len(d[i].aux)
      BY <1>1, <1>4
    <2>. QED
      BY <1>1, <2>1 DEF LaidOut
  <1>6. d[i + 2].at = IF Len(d[i + 1].aux) = 1 THEN d[i].at + 64 ELSE d[i].at + 72
    <2>1. Len(d[i + 1].aux) \in {1, 2} /\ Verdef(f, d[i + 1].at).next = 20 + 8 * Len(d[i + 1].aux)
      BY <1>1, <1>4
    <2>2. d[i + 2].at = d[i + 1].at + Verdef(f, d[i + 1].at).next
      BY <1>1 DEF LaidOut
    <2>3. CASE Len(d[i + 1].aux) = 1
      BY <1>2, <1>5, <2>1, <2>2, <2>3
    <2>4. CASE Len(d[i + 1].aux) = 2
      BY <1>2, <1>5, <2>1, <2>2, <2>4
    <2>. QED
      BY <2>1, <2>3, <2>4
  <1>7. d[i].read[2] = d[i].at + 84
    <2>1. d[i].read[1] = d[i].at + 20 /\ Word(f, d[i].read[1] + 4) = 8
      <3>1. d[i].at + Verdef(f, d[i].at).aux = d[i].aux[1] /\ d[i].read[1] = d[i].aux[1]
        BY <1>3 DEF DefinitionLaidOut
      <3>2. EntryLaidOut(f, sec, d[i].aux[1])
        BY <1>3 DEF DefinitionLaidOut
      <3>3. Verdef(f, d[i].at).aux = 20 /\ Verdaux(f, d[i].aux[1]).next = 8
        BY <1>1 DEF WithoutGaps, SizeofVerdef, SizeofVerdaux
      <3>. QED
        BY <3>1, <3>2, <3>3 DEF EntryLaidOut, WordsOfVerdaux
    <2>2. d[i].read[2] = d[i].read[1] + Stride(Word(f, d[i].read[1] + 4))
      BY <1>3 DEF DefinitionLaidOut
    <2>. QED
      BY <1>2, <2>1, <2>2 DEF Stride, SizeofVerdaux
  <1>8. CASE Len(d[i + 1].aux) = 1
    <2>1. d[i + 2].aux[1] = d[i + 2].at + 20 /\ Len(d[i + 2].aux) > 0
      BY <1>1, <1>3 DEF DefinitionLaidOut, WithoutGaps, SizeofVerdef
    <2>2. d[i + 2].aux[1] = d[i].read[2]
      BY <1>2, <1>6, <1>7, <1>8, <2>1
    <2>3. EntryLaidOut(f, sec, d[i + 2].aux[1])
      <3>1. Len(d[i + 2].aux) \in {1, 2}
        BY <1>1 DEF WithoutGaps
      <3>2. \A m \in {1, 2} : 1 \in 1 .. m
        OBVIOUS
      <3>3. 1 \in 1 .. Len(d[i + 2].aux)
        BY <3>1, <3>2, Zenon
      <3>. QED
        BY <1>3, <3>3 DEF DefinitionLaidOut
    <2>4. sec.link[1].offset \in Nat /\ d[i].read[2] \in Nat
      BY <1>2, <1>7 DEF LaidOut
    <2>5. InMemory(f, d[i].read[2], SizeofVerdaux)
      BY <2>2, <2>3, <2>4, EntryIsInside DEF EntryInside
    <2>. QED
      BY <1>8, <2>2, <2>3, <2>4, <2>5, PlaceInside
  <1>9. CASE Len(d[i + 1].aux) # 1
    <2>1. d[i].read[2] = d[i + 2].at + 12
      BY <1>2, <1>6, <1>7, <1>9
    <2>2. Word(f, d[i + 2].at + 12) = SizeofVerdef
      BY <1>1, <1>3 DEF DefinitionLaidOut, WordsOfVerdef, WithoutGaps
    <2>3. d[i].read[2] \in Nat /\ SizeofVerdaux \in Nat /\ d[i].read[2] + SizeofVerdaux <= f.len
      <3>1. d[i + 2].at + 20 <= f.len
        BY <1>3 DEF DefinitionLaidOut, SizeofVerdef
      <3>2. d[i + 2].at \in Nat
        BY <1>2, <1>6
      <3>3. f.len \in Nat
        BY DEF IsOpen
      <3>. QED
        BY <2>1, <3>1, <3>2, <3>3 DEF SizeofVerdaux
    <2>4. InMemory(f, d[i].read[2], SizeofVerdaux)
      BY <2>3, InsideTheFile
    <2>. QED
      BY <1>9, <2>1, <2>2, <2>4 DEF ReadPlace
  <1>. QED
    BY <1>8, <1>9

\* So the agreement of get_libstdcxx_version with the Python reader is decided, in
\* a section without gaps, by the string that many bytes into .dynstr and by what
\* the C code reads for the parents in the last two definitions.
THEOREM LastTwoDecide ==
    ASSUME NEW f, NEW i, NEW sec, NEW d, IsOpen(f), IsNative(f), OnlySection(f, i, sec),
           LaidOut(f, sec, d), ParentsDefined(f, sec, d), WithoutGaps(f, d),
           sec.link[1].offset + SizeofVerdef < f.len,
           \A k \in LastTwo(d) : ReadsInside(f, sec, d[k]),
           \A v \in VersionsAt(f, sec.link[1].offset + SizeofVerdef)
                    \cup UNION {VersionsReadOf(f, sec, d[k]) : k \in LastTwo(d)} :
               \E u \in VersionsNamed(f, sec, d) \cup {0} : v <= u
    PROVE  SameVersion(get_libstdcxx_version(f), highest_version(f, sec))
  <1>. DEFINE N == VersionsNamed(f, sec, d)
              Harmless(at) == /\ at < f.len
                              /\ \A v \in VersionsAt(f, at) : \E u \in N \cup {0} : v <= u
              HarmlessEntry(at) == /\ InMemory(f, at, SizeofVerdaux)
                                   /\ Harmless(ReadPlace(f, sec, at))
  <1>1. \A k \in LastTwo(d) : \A j \in 1 .. Len(d[k].read) : HarmlessEntry(d[k].read[j])
    <2>. TAKE k \in LastTwo(d)
    <2>. TAKE j \in 1 .. Len(d[k].read)
    <2>1. EntryInside(f, sec, d[k].read[j])
      BY DEF ReadsInside
    <2>2. VersionsAt(f, ReadPlace(f, sec, d[k].read[j])) \subseteq VersionsReadOf(f, sec, d[k])
      BY DEF VersionsReadOf
    <2>. QED
      BY <2>1, <2>2 DEF EntryInside
  <1>2. Harmless(sec.link[1].offset + SizeofVerdef)
    OBVIOUS
  <1>3. \A k \in 1 .. Len(d) : \A j \in 1 .. Len(d[k].aux) : Harmless(NamePlace(f, sec, d[k].aux[j]))
    <2>. TAKE k \in 1 .. Len(d)
    <2>. TAKE j \in 1 .. Len(d[k].aux)
    <2>1. NamePlace(f, sec, d[k].aux[j]) < f.len
      BY DEF LaidOut, DefinitionLaidOut, EntryLaidOut
    <2>2. VersionsAt(f, NamePlace(f, sec, d[k].aux[j])) \subseteq N
      BY DEF VersionsNamed, VersionsOf
    <2>3. \A v \in N : v <= v
      BY VersionsFound
    <2>. QED
      BY <2>1, <2>2, <2>3
  <1>4. \A k \in 1 .. Len(d) \ LastTwo(d) : /\ k \in 1 .. Len(d) - 2
                                           /\ k + 1 \in 1 .. Len(d) /\ k + 2 \in 1 .. Len(d)
    BY DEF LastTwo, LaidOut
  <1>5. \A k \in 1 .. Len(d) :
           /\ Len(d[k].read) = Len(d[k].aux) /\ Len(d[k].aux) \in {1, 2}
           /\ NamePlace(f, sec, d[k].aux[1]) = ReadPlace(f, sec, d[k].read[1])
           /\ InMemory(f, d[k].read[1], SizeofVerdaux)
           /\ 1 \in 1 .. Len(d[k].aux)
    BY VersionsFound DEF WithoutGaps, EntryInside
  <1>. HIDE DEF Harmless
  <1>6. \A k \in 1 .. Len(d) : \A j \in 1 .. Len(d[k].read) : HarmlessEntry(d[k].read[j])
    <2>. TAKE k \in 1 .. Len(d)
    <2>1. CASE k \in LastTwo(d)
      BY <1>1, <2>1
    <2>2. CASE k \notin LastTwo(d)
      <3>. TAKE j \in 1 .. Len(d[k].read)
      <3>1. HarmlessEntry(d[k].read[1])
        BY <1>3, <1>5
      <3>2. j = 1 \/ (j = 2 /\ Len(d[k].aux) = 2)
        <4>1. \A n \in {1, 2} : \A m \in 1 .. n : m = 1 \/ (m = 2 /\ n = 2)
          OBVIOUS
        <4>2. Len(d[k].aux) \in {1, 2} /\ j \in 1 .. Len(d[k].aux)
          BY <1>5
        <4>. QED
          BY <4>1, <4>2, Zenon
      <3>3. ASSUME Len(d[k].aux) = 2 PROVE HarmlessEntry(d[k].read[2])
        <4>1. k \in 1 .. Len(d) - 2 /\ k + 1 \in 1 .. Len(d) /\ k + 2 \in 1 .. Len(d)
          BY <1>4, <2>2
        <4>2. /\ ReadPlace(f, sec, d[k].read[2])
                   = IF Len(d[k + 1].aux) = 1 THEN NamePlace(f, sec, d[k + 2].aux[1])
                     ELSE sec.link[1].offset + SizeofVerdef
              /\ InMemory(f, d[k].read[2], SizeofVerdaux)
          BY <3>3, <4>1, StrayWithinChain
        <4>3. Harmless(NamePlace(f, sec, d[k + 2].aux[1]))
          BY <1>3, <1>5, <4>1
        <4>. QED
          BY <1>2, <4>2, <4>3
      <3>. QED
        BY <3>1, <3>2, <3>3
    <2>. QED
      BY <2>1, <2>2
  <1>7. StraysHarmless(f, sec, d)
    <2>1. AllInside(f, sec, d)
      BY <1>6 DEF Harmless, AllInside, ReadsInside, EntryInside
    <2>2. ASSUME NEW v \in VersionsRead(f, sec, d) PROVE \E u \in N \cup {0} : v <= u
      <3>1. PICK k \in 1 .. Len(d) : v \in VersionsReadOf(f, sec, d[k])
        BY DEF VersionsRead
      <3>2. PICK j \in 1 .. Len(d[k].read) : v \in VersionsAt(f, ReadPlace(f, sec, d[k].read[j]))
        BY <3>1 DEF VersionsReadOf
      <3>. QED
        BY <1>6, <3>2 DEF Harmless
    <2>. QED
      BY <2>1, <2>2 DEF StraysHarmless
  <1>. QED
    BY <1>7, ReadersAgreeUnlessStray
=============================================================================
