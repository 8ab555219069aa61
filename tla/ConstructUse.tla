---------------------------- MODULE ConstructUse -----------------------------
(***************************************************************************)
(* A program that uses the construct library: it parses a value from a     *)
(* stream, demands the lazy parts, builds it and parses what it built, or  *)
(* finds the stream cut short.                                             *)
(***************************************************************************)
EXTENDS DwarfFormats

CONSTANTS
    FormatIds,    \* the formats in use
    FileFormats,  \* those of ELF, DWARF and EHABI
    LazyFormats,  \* those with OnDemand
    What,      \* the construct
    Eager,     \* the same without OnDemand
    Inputs     \* the byte strings it is given

VARIABLES
    fmt,     \* the format in use
    m,       \* the last call
    phase,   \* which call that was
    first    \* the value and the position after the first parse
vars == <<fmt, m, phase, first>>

NothingYet == [val |-> NoneV, pos |-> 0]

TypeOK ==
    /\ fmt \in FormatIds
    /\ phase \in {"new", "parsed", "built", "again", "cut", "demanded"}
    /\ m.pos \in Nat /\ m.bits = FALSE
    /\ m.err \in {""} \cup ConstructErrors \cup
                 {"KeyError", "TypeError", "ValueError", "IndexError", "AttributeError",
                  "AssertionError", "StopIteration", "UnicodeDecodeError", "NotImplementedError"}

Init ==
    /\ fmt \in FormatIds
    /\ m = Call(<<>>, <<>>)
    /\ phase = "new"
    /\ first = NothingYet

ParseStream(data) ==
    /\ phase = "new"
    /\ m' = parse_stream(What[fmt], Call(data, <<>>))
    /\ phase' = "parsed"
    /\ first' = [val |-> m'.val, pos |-> m'.pos]
    /\ UNCHANGED fmt

BuildIt ==
    /\ phase = "parsed" /\ ~Failed(m)
    /\ m' = build(What[fmt], m.val)
    /\ phase' = "built"
    /\ UNCHANGED <<fmt, first>>

ParseAgain ==
    /\ phase = "built" /\ ~Failed(m)
    /\ m' = parse_stream(What[fmt], Call(m.data, <<>>))
    /\ phase' = "again"
    /\ UNCHANGED <<fmt, first>>

\* The same file, but only its first n bytes.
ParseCut(n) ==
    /\ phase = "parsed" /\ ~Failed(m) /\ n < m.pos
    /\ m' = parse_stream(What[fmt], Call(SubSeq(m.data, 1, n), <<>>))
    /\ phase' = "cut"
    /\ UNCHANGED <<fmt, first>>

\* LazyContainer.value, after the program has read elsewhere.
DemandField(name, elsewhere) ==
    /\ phase = "parsed" /\ ~Failed(m)
    /\ m.val[1] = "cont" /\ name \in DOMAIN m.val[2] /\ m.val[2][name][1] = "lazy"
    /\ m' = LET d == Demand(m.val[2][name], [m EXCEPT !.pos = elsewhere])
            IN  Returned(d, ListV(<<NameV(name), d.val>>))
    /\ phase' = "demanded"
    /\ UNCHANGED <<fmt, first>>

Next ==
    \/ \E data \in Inputs[fmt] : ParseStream(data)
    \/ BuildIt
    \/ ParseAgain
    \/ \E n \in 0..Len(m.data) : ParseCut(n)
    \/ /\ phase = "parsed" /\ m.val[1] = "cont"
       /\ \E name \in DOMAIN m.val[2], p \in {0, Len(m.data)} : DemandField(name, p)

Spec == Init /\ [][Next]_vars

------------------------------------------------------------------------------

\* What is peculiar to a class, for the exceptions below.
Is(feature, c) ==
    CASE feature = "one way" ->
            \/ c.kind = "RepeatUntil" /\ "COPY" \notin c.sub.flags
            \/ /\ c.kind = "Adapter"
               /\ \/ c.how = "slicing" /\ (c.start > 0 \/ c.stop # -1)
                  \/ c.how = "indexing" /\ c.index # 0
      [] feature = "stays" -> c.kind = "OnDemand" /\ ~c.advance_stream
      [] feature = "same name" ->
            /\ c.kind = "Struct"
            /\ \E i, j \in DOMAIN c.subs : i # j /\ c.subs[i].name = c.subs[j].name
      [] feature = "text" -> c.kind = "Adapter" /\ c.how \in {"string", "cstring"} /\ c.encoding # ""
      [] feature = "entries" -> c.kind = "FormattedEntry"

\* It is there in a format or in what the format is made of.  A CString is built
\* from a bytes, and its RepeatUntil is the one that can take that.
RECURSIVE Uses(_, _)
Uses(feature, c) ==
    \/ Is(feature, c)
    \/ /\ "sub" \in DOMAIN c /\ ~(feature = "one way" /\ c.kind = "Adapter" /\ c.how = "cstring")
       /\ Uses(feature, c.sub)
    \/ "subs" \in DOMAIN c /\ \E i \in DOMAIN c.subs : Uses(feature, c.subs[i])
    \/ /\ "cases" \in DOMAIN c
       /\ Uses(feature, c.default) \/ \E k \in DOMAIN c.cases : Uses(feature, c.cases[k])

\* What a format parses, it builds, and parses again to the same value: _build
\* agrees with _parse, _encode with _decode.  Three classes do not build what
\* they parsed (a RepeatUntil turns every element into a byte, a slice and an
\* index other than 0 put None for what they left out): those may be refused,
\* but nothing is built that parses to something else.  LEB128 numbers, offsets
\* and entries made from other fields have no _build; a lazy part is built only
\* where its bytes are in reach.
RoundTrip ==
    fmt \notin LazyFormats =>
        /\ phase = "built" => m.err \in {"", "NotImplementedError"} \/ Uses("one way", What[fmt])
        /\ phase = "again" => m.err = "" /\ m.val = first.val

\* Where a format tells its size without a context, every successful parse
\* takes exactly that many bytes (_sizeof of every class against _parse; the
\* readers of symbol, section and version tables step by sizeof).  Only a lazy
\* part that leaves the stream where it is counts with the bytes it will read.
SizeAgrees ==
    phase = "parsed" /\ ~Failed(m) /\ sizeof(What[fmt]).err = "" =>
        m.pos = sizeof(What[fmt]).n \/ Uses("stays", What[fmt])

\* A structure of an ELF or DWARF file that is cut short is an error, never a
\* shorter or a different structure.
TruncationDetected ==
    phase = "cut" /\ fmt \in FileFormats => m.err \in ConstructErrors

\* struct_parse turns a ConstructError into an ELFParseError and nothing else
\* (common/utils.py): the formats of ELF files raise nothing else, but for text
\* that is no UTF-8 and for the entries of a version 5 line program, whose form
\* may be unknown (KeyError) or one without a parser (AttributeError).
ErrorsAreWrapped ==
    phase \in {"parsed", "cut"} /\ fmt \in FileFormats =>
        \/ m.err \in ConstructErrors \cup {""}
        \/ m.err = "UnicodeDecodeError" /\ Uses("text", What[fmt])
        \/ m.err \in {"KeyError", "AttributeError"} /\ Uses("entries", What[fmt])

\* A part that is parsed when it is asked for has the value it would have had
\* if it had been parsed at once, wherever the stream stands by then and with
\* whatever fields that came after it, unless one took the name of an earlier.
LazyIsEager ==
    phase = "demanded" /\ ~Uses("same name", What[fmt]) =>
        LET eager == parse_stream(Eager[fmt], Call(m.data, <<>>))
        IN  IF Failed(m) THEN Failed(eager)
            ELSE Failed(eager) \/ eager.val[2][m.val[2][1][2]] = m.val[2][2]
=============================================================================
