------------------------------ MODULE ElfStream -------------------------------
(***************************************************************************)
(* An open ELF file and its one stream, shared by everyone who reads the   *)
(* file (elftools/common/utils.py and the string tables of sections.py).   *)
(*                                                                         *)
(* What the file holds is the image: recs maps <<format, offset>> to what  *)
(* that format of ElfFormats parses there, as [v |-> value, n |-> bytes];  *)
(* strs maps an offset to the string that starts there; data maps it to a  *)
(* section's cells.  An operation takes the file and returns it, with its  *)
(* result in val or an exception in err.  None is <<>>, and a value that   *)
(* may be None is <<value>>.                                               *)
(***************************************************************************)
EXTENDS Integers, Sequences

None == <<>>
Failed(f) == f.err # ""
Returned(f, v) == [f EXCEPT !.val = v]
Raised(f, e) == [f EXCEPT !.err = e, !.val = None]
Then(f, Op(_)) == IF Failed(f) THEN f ELSE Op(f)
Check(f, cond, e) == IF Failed(f) \/ cond THEN f ELSE Raised(f, e)

\* What is not in the image does not parse; where the stream is then, nobody asks.
struct_parse(f, format, at) ==
    IF <<format, at>> \in DOMAIN f.recs
    THEN [f EXCEPT !.val = f.recs[<<format, at>>].v, !.pos = at + f.recs[<<format, at>>].n]
    ELSE Raised([f EXCEPT !.pos = at], "ELFParseError")
struct_parse_here(f, format) == struct_parse(f, format, f.pos)
sizeof(f, format) == f.sizes[format]

\* None when no NUL follows.  It reads on in chunks: where the stream is then
\* stands for some place that is not the string's, here the end of the file.
parse_cstring_from_stream(f, at) ==
    [f EXCEPT !.val = IF at \in DOMAIN f.strs THEN <<f.strs[at]>> ELSE None,
              !.pos = IF at > f.len THEN at ELSE f.len]

NotUtf8 == "?"       \* a string whose bytes are no UTF-8
get_string(f, table, offset) ==
    IF table.cls \notin {"StringTableSection", "_DynamicStringTable"} THEN Raised(f, "AttributeError")
    ELSE Then(parse_cstring_from_stream(f, table.offset + offset), LAMBDA g :
         LET s == IF g.val = None THEN "" ELSE g.val[1]
         IN  IF table.cls = "_DynamicStringTable" /\ s = NotUtf8 THEN Raised(g, "UnicodeDecodeError")
             ELSE Returned(g, s))
=============================================================================
