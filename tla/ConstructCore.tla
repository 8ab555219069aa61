--------------------------- MODULE ConstructCore ----------------------------
(***************************************************************************)
(* The construct library of pyelftools (elftools/construct/core.py and     *)
(* common/construct_utils.py): a format is a tree of constructs, and every *)
(* construct can parse a value from a stream, build it into a stream, and  *)
(* say how many bytes it takes.                                            *)
(*                                                                         *)
(* A construct is a record with its class (kind), its name (NoName for     *)
(* None) and its flags.  Parse(c, m) and Build(c, obj, m) are the methods _parse *)
(* and _build, from the call m to the finished call; SizeOf(c, ctx) is     *)
(* _sizeof, a record of a number and an exception.                         *)
(***************************************************************************)
EXTENDS ConstructValues

CONSTANT Bindings   \* what the functions of LazyBound return, by their name
CONSTANT Recursive  \* those of the names whose construct contains itself
CONSTANT MaxSize    \* sys.maxsize: the bound of OpenRange
CONSTANT WordBytes  \* bytes of a 32-bit word; a 64-bit one has twice as many
CONSTANT FirstReserved  \* 0xffffff00: words from here on are no lengths (DWARF 7.4)

------------------------------------------------------------------------------
(* constructors: name and flags, inherited from the inner constructs *)

NoName == "None"
Construct(kind, name) == [kind |-> kind, name |-> name, flags |-> {}]
Subconstruct(kind, sub) == [kind |-> kind, name |-> sub.name, flags |-> sub.flags, sub |-> sub]
AdapterOf(how, sub) == Subconstruct("Adapter", sub) @@ [how |-> how]
WithFlags(c, set, clear) == [c EXCEPT !.flags = (@ \cup set) \ clear]
InheritedFlags(subs) == UNION {subs[i].flags : i \in DOMAIN subs}

StaticField(name, n) == Construct("StaticField", name) @@ [length |-> n]
FormatField(name, w, signed, little) ==
    Construct("FormatField", name) @@ [length |-> w, signed |-> signed, little |-> little]
MetaField(name, fun) ==
    WithFlags(Construct("MetaField", name) @@ [fun |-> fun], {"DYNAMIC"}, {})
MetaArray(fun, sub) ==
    WithFlags(Subconstruct("MetaArray", sub) @@ [fun |-> fun], {"DYNAMIC"}, {"COPY"})
RangeOf(min, max, sub) ==
    WithFlags(Subconstruct("Range", sub) @@ [min |-> min, max |-> max], {"DYNAMIC"}, {"COPY"})
RepeatUntil(stop, sub) ==
    WithFlags(Subconstruct("RepeatUntil", sub) @@ [stop |-> stop], {"DYNAMIC"}, {"COPY"})
RepeatUntilExcluding(stop, sub) ==
    WithFlags(Subconstruct("RepeatUntilExcluding", sub) @@ [stop |-> stop], {"DYNAMIC"}, {"COPY"})
StructOf(name, subs, nested) ==
    WithFlags(Construct("Struct", name) @@ [subs |-> subs, nested |-> nested],
              InheritedFlags(subs), {"EMBED"})
SequenceOf(name, subs, nested) == [StructOf(name, subs, nested) EXCEPT !.kind = "Sequence"]
PeekOf(sub, build) == Subconstruct("Peek", sub) @@ [perform_build |-> build]
UnionOf(name, master, subs) ==
    Construct("Union", name)
    @@ [parser |-> StructOf(name, <<PeekOf(master, TRUE)>>
                     \o [i \in DOMAIN subs |-> PeekOf(subs[i], FALSE)]
                     \o <<MetaField(NoName, <<"size", master>>)>>, TRUE),
        builder |-> StructOf(name, <<master>>, TRUE)]
NoDefault == Construct("NoDefault", "No default value specified")
SwitchOn(name, fun, cases, default, include_key) ==
    WithFlags(Construct("Switch", name)
              @@ [fun |-> fun, cases |-> cases, default |-> default, include_key |-> include_key],
              InheritedFlags(cases) \cup {"DYNAMIC"}, {})
SelectFrom(name, subs, include_name) ==
    WithFlags(Construct("Select", name) @@ [subs |-> subs, include_name |-> include_name],
              InheritedFlags(subs) \cup {"DYNAMIC"}, {})
Pointer(fun, sub) == Subconstruct("Pointer", sub) @@ [fun |-> fun]
OnDemand(sub, advance, force) ==
    Subconstruct("OnDemand", sub) @@ [advance_stream |-> advance, force_build |-> force]
Buffered(sub) == Subconstruct("Buffered", sub)
Restream(sub) == Subconstruct("Restream", sub)
Reconfig(name, sub, set, clear) ==
    WithFlags([Subconstruct("Reconfig", sub) EXCEPT !.name = name], set, clear)
AnchorAt(name) == Construct("Anchor", name)
ValueOf(name, fun) == WithFlags(Construct("Value", name) @@ [fun |-> fun], {"DYNAMIC"}, {})
LazyBound(name, bindfunc) == Construct("LazyBound", name) @@ [bindfunc |-> bindfunc]
Pass == Construct("Pass", NoName)
Terminator == Construct("Terminator", NoName)
ULEB128(name) == Construct("ULEB128", name)
SLEB128(name) == Construct("SLEB128", name)
StreamOffset(name) == WithFlags(Construct("StreamOffset", name), {"DYNAMIC"}, {})

\* None in the place of a construct.
NoConstruct == Construct("NoneType", NoName)
FormattedEntry(name, forms, field) ==
    Construct("FormattedEntry", name) @@ [forms |-> forms, format_field |-> field]

\* getattr(c, method)(...): _parse, _build or _sizeof of the construct c, which
\* go through its subconstructs by calling each other.
RECURSIVE Method(_, _, _, _)
Parse(c, m) == Method("_parse", c, NoneV, m)
Build(c, obj, m) == Method("_build", c, obj, m)
SizeOf(c, ctx) == Method("_sizeof", c, NoneV, ctx)

Size(n) == [n |-> n, err |-> ""]
NoSize(e) == [n |-> 0, err |-> e]
SizeSum(sizes) ==
    FoldLeft(LAMBDA a, b : IF a.err # "" THEN a ELSE [n |-> a.n + b.n, err |-> b.err],
             Size(0), sizes)

\* The functions of the context a format contains, as a term to evaluate; a
\* name that is not there raises KeyError.  Result: a value or an exception.
Eval(fun, ctx) ==
    LET Of(v) == [v |-> v, err |-> ""]
        Key == ctx[fun[2]]
    IN  CASE fun[1] = "const" -> Of(fun[2])
          [] fun[1] = "size" -> LET s == SizeOf(fun[2], ctx)
                                IN  [v |-> IntV(s.n), err |-> s.err]
          [] fun[1] = "pad" -> LET s == SizeOf(fun[2], ctx)     \* Aligned: padlength
                               IN  [v |-> IntV((fun[3] - (s.n % fun[3])) % fun[3]), err |-> s.err]
          [] ~Has(ctx, fun[2]) -> [v |-> NoneV, err |-> "KeyError"]
          [] fun[1] = "key" -> Of(Key)
          [] fun[1] = "len" -> Of(IntV(Len(Key[2])))
          [] fun[1] = "plus" -> Of(IntV(Key[2] + fun[3]))
          [] fun[1] = "times" -> Of(IntV(Key[2] * fun[3]))
          [] fun[1] = "div" -> Of(IntV((Key[2] \div fun[3]) % fun[4]))
          [] fun[1] = "between" -> Of(BoolV(fun[3] <= Key[2] /\ Key[2] <= fun[4]))
          [] fun[1] = "mod" -> Of(IntV(Len(Key[2]) % fun[3]))
          [] fun[1] = "align" -> Of(IntV((-Key[2]) % fun[3]))    \* utils.roundup - number
          [] fun[1] = "property" -> Of(IF Key[1] # "name" THEN NoneV
                                       ELSE IF Key[2] \in fun[3] THEN NameV("processor")
                                       ELSE ListV(<<Key, ctx["pr_datasz"]>>))
          [] fun[1] = "eq" -> Of(BoolV(Key = fun[3]))
          [] fun[1] = "nonempty" -> Of(BoolV(Key[2] # <<>>))
          [] fun[1] = "diff" -> IF Has(ctx, fun[3]) THEN Of(IntV(Key[2] - ctx[fun[3]][2]))
                                ELSE [v |-> NoneV, err |-> "KeyError"]

\* The predicates of the repeaters: the element is in a set, or a container
\* whose fields have given values.
Stops(stop, obj) ==
    CASE stop[1] = "in" -> obj \in stop[2]
      [] stop[1] = "fields" -> \A f \in DOMAIN stop[2] : obj[2][f] = stop[2][f]
      [] stop[1] = "empty" -> obj[2][stop[2]] = BytesV(<<>>)

\* A repeater gives a copy of the context to an inner construct that asks for it.
KeepContext(sub, m, r) == IF "COPY" \in sub.flags THEN [r EXCEPT !.ctx = m.ctx] ELSE r

------------------------------------------------------------------------------
(* fields *)

StaticFieldParse(c, m) == ReadStream(m, c.length)
StaticFieldBuild(c, obj, m) == WriteStream(m, c.length, obj)

BugNarrowExcept(c, m) ==
    LET r == ReadStream(m, c.length)
    IN  IF Failed(r) THEN Raised(r, "struct.error")
        ELSE Returned(r, IntV(Unpack(r.val[2], c.signed, c.little)))
\* Whatever goes wrong becomes a FieldError.
FormatFieldParse(c, m) ==
    LET r == ReadStream(m, c.length)
    IN  IF Failed(r) THEN Raised(r, "FieldError")
        ELSE Returned(r, IntV(Unpack(r.val[2], c.signed, c.little)))
FormatFieldBuild(c, obj, m) ==
    IF obj[1] # "int" THEN Raised(m, "FieldError")
    ELSE IF ~InRange(256, obj[2], c.length, c.signed) THEN Raised(m, "FieldError")
    ELSE LET w == WriteStream(m, c.length, BytesV(Pack(obj[2], c.length, c.little)))
         IN  IF Failed(w) THEN Raised(w, "FieldError") ELSE w

BugShortRead(c, m) ==
    LET n == Eval(c.fun, m.ctx)
        got == BytesAt(m, n.v[2])
    IN  IF n.err # "" THEN Raised(m, n.err)
        ELSE Returned([m EXCEPT !.pos = @ + Len(got)], BytesV(got))
MetaFieldParse(c, m) ==
    LET n == Eval(c.fun, m.ctx)
    IN  IF n.err # "" THEN Raised(m, n.err) ELSE ReadStream(m, n.v[2])
MetaFieldBuild(c, obj, m) ==
    LET n == Eval(c.fun, m.ctx)
    IN  IF n.err # "" THEN Raised(m, n.err) ELSE WriteStream(m, n.v[2], obj)
MetaSize(c, ctx) ==
    LET n == Eval(c.fun, ctx) IN IF n.err # "" THEN NoSize(n.err) ELSE Size(n.v[2])

------------------------------------------------------------------------------
(* arrays and repeaters *)

\* The loop of MetaArray and Range: at most n elements, stopped by an exception.
\* acc are the elements so far, mark is the position before the failing one.
RECURSIVE ParseMany(_, _, _, _)
ParseMany(sub, m, n, acc) ==
    LET r == KeepContext(sub, m, Parse(sub, m))
    IN  IF n <= Len(acc) THEN [call |-> Returned(m, ListV(acc)), count |-> Len(acc), mark |-> m.pos]
        ELSE IF Failed(r) THEN [call |-> Returned(r, ListV(acc)), count |-> Len(acc), mark |-> m.pos]
        ELSE ParseMany(sub, r, n, Append(acc, r.val))

\* Elements are built until the first failure; count is how many were.
RECURSIVE BuildMany(_, _, _, _)
BuildMany(sub, objs, m, count) ==
    LET w == KeepContext(sub, m, Build(sub, objs[count + 1], m))
    IN  IF count >= Len(objs) THEN [call |-> m, count |-> count]
        ELSE IF Failed(w) THEN [call |-> w, count |-> count]
        ELSE BuildMany(sub, objs, w, count + 1)

\* Iterating over bytes gives ints; Range turns each back into one byte.
Elements(obj, again) ==
    IF obj[1] = "bytes"
    THEN [i \in DOMAIN obj[2] |-> IF again THEN BytesV(<<obj[2][i]>>) ELSE IntV(obj[2][i])]
    ELSE obj[2]
Iterable(obj) == obj[1] \in {"list", "bytes"}

MetaArrayParse(c, m) ==
    LET n == Eval(c.fun, m.ctx)
        r == ParseMany(c.sub, m, n.v[2], <<>>).call
    IN  IF n.err # "" THEN Raised(m, n.err)
        ELSE IF r.err \in ConstructErrors THEN Raised(r, "ArrayError") ELSE r
MetaArrayBuild(c, obj, m) ==
    LET n == Eval(c.fun, m.ctx)
    IN  IF n.err # "" THEN Raised(m, n.err)
        ELSE IF ~Iterable(obj) THEN Raised(m, "TypeError")
        ELSE IF Len(obj[2]) # n.v[2] THEN Raised(m, "ArrayError")
        ELSE BuildMany(c.sub, Elements(obj, FALSE), m, 0).call
BugOneElement(c, ctx) == SizeOf(c.sub, ctx)
MetaArraySize(c, ctx) ==
    LET one == SizeOf(c.sub, ctx)
        n == Eval(c.fun, ctx)
    IN  IF one.err # "" THEN one
        ELSE IF n.err # "" THEN NoSize(n.err) ELSE Size(one.n * n.v[2])

\* An exception of the library ends the repetition and puts the stream back to
\* the start of the element that failed.
RangeParse(c, m) ==
    LET p == ParseMany(c.sub, m, c.max, <<>>)
    IN  IF p.call.err \notin ConstructErrors THEN p.call
        ELSE IF p.count < c.min THEN Raised(p.call, "RangeError")
        ELSE [p.call EXCEPT !.pos = p.mark, !.err = ""]
RangeBuild(c, obj, m) ==
    LET b == BuildMany(c.sub, Elements(obj, TRUE), m, 0)
    IN  IF ~Iterable(obj) THEN Raised(m, "TypeError")
        ELSE IF Len(obj[2]) \notin c.min..c.max THEN Raised(m, "RangeError")
        ELSE IF b.call.err \notin ConstructErrors THEN b.call
        ELSE Raised(b.call, IF b.count < c.min THEN "RangeError" ELSE "")

\* keep: whether the terminator is part of the result.
RECURSIVE ParseUntil(_, _, _, _)
ParseUntil(c, m, acc, keep) ==
    LET r == KeepContext(c.sub, m, Parse(c.sub, m))
    IN  IF r.err \in ConstructErrors THEN Raised(r, "ArrayError")
        ELSE IF Failed(r) THEN r
        ELSE IF Stops(c.stop, r.val)
             THEN Returned(r, ListV(IF keep THEN Append(acc, r.val) ELSE acc))
        ELSE ParseUntil(c, r, Append(acc, r.val), keep)
RepeatUntilParse(c, m) == ParseUntil(c, m, <<>>, TRUE)
RepeatUntilExcludingParse(c, m) == ParseUntil(c, m, <<>>, FALSE)

\* Elements after the terminator are not built.  Without a copied context every
\* element goes through bchr, which makes a bytes of the one int it is given.
RECURSIVE BuildUntil(_, _, _)
BuildUntil(c, objs, m) ==
    LET obj == IF "COPY" \in c.sub.flags THEN objs[1] ELSE BytesV(<<objs[1][2]>>)
        w == [Build(c.sub, obj, m) EXCEPT !.ctx = m.ctx]
    IN  IF objs = <<>> THEN Raised(m, "ArrayError")
        ELSE IF "COPY" \notin c.sub.flags /\ objs[1][1] # "int" THEN Raised(m, "TypeError")
        ELSE IF "COPY" \notin c.sub.flags /\ objs[1][2] \notin 0..255 THEN Raised(m, "ValueError")
        ELSE IF Failed(w) \/ Stops(c.stop, obj) THEN w
        ELSE BuildUntil(c, Tail(objs), w)
RepeatUntilBuild(c, obj, m) ==
    IF ~Iterable(obj) THEN Raised(m, "TypeError") ELSE BuildUntil(c, Elements(obj, FALSE), m)

------------------------------------------------------------------------------
(* structures and sequences *)

Enter(m) == [m EXCEPT !.ctx = ("_" :> ContV(m.ctx))]

\* Once a context is complete, the lazy values parsed in it can be demanded.
RECURSIVE BindLazy(_, _)
BindLazy(v, ctx) ==
    CASE v[1] = "lazy" -> IF v[2].ctx = "open" THEN <<"lazy", [v[2] EXCEPT !.ctx = ctx]>> ELSE v
      [] v[1] = "list" -> ListV([i \in DOMAIN v[2] |-> BindLazy(v[2][i], ctx)])
      [] v[1] = "cont" -> ContV([f \in DOMAIN v[2] |-> BindLazy(v[2][f], ctx)])
      [] OTHER -> v

\* The loop of Struct and Sequence; Added(obj, name, v) puts a parsed element
\* into the result.  An embedded construct finds the enclosing result under the
\* name "<obj>" of the context and takes the mark away when it is a structure;
\* one that is none leaves mark and result as they are.
ParseFields(c, m, empty, Added(_, _, _)) ==
    LET marked == Has(m.ctx, "<obj>")
        owns == ~marked /\ c.nested
        start == IF marked THEN [m EXCEPT !.ctx = Without(@, "<obj>"), !.val = m.ctx["<obj>"]]
                 ELSE Returned(IF c.nested THEN Enter(m) ELSE m, empty)
        Embedding(r, sc) ==
            LET q == Parse(sc, [r EXCEPT !.ctx = Put(@, "<obj>", r.val)])
            IN  IF Has(q.ctx, "<obj>") THEN Returned(q, r.val) ELSE q
        Adding(r, sc) ==
            LET q == Parse(sc, r)
            IN  IF Failed(q) THEN q
                ELSE IF sc.name = NoName THEN Returned(q, r.val)
                ELSE [q EXCEPT !.val = Added(r.val, sc.name, q.val),
                               !.ctx = Put(@, sc.name, q.val)]
        Field(r, sc) == IF Failed(r) THEN r
                        ELSE IF "EMBED" \in sc.flags THEN Embedding(r, sc) ELSE Adding(r, sc)
        end == FoldLeft(Field, start, c.subs)
    IN  IF owns THEN [end EXCEPT !.val = BindLazy(@, end.ctx), !.ctx = m.ctx] ELSE end

StructParse(c, m) ==
    ParseFields(c, m, ContV(<<>>), LAMBDA obj, name, v : ContV(Put(obj[2], name, v)))
SequenceParse(c, m) ==
    ParseFields(c, m, ListV(<<>>), LAMBDA obj, name, v : ListV(Append(obj[2], v)))

\* The context of a build: "<unnested>" tells an embedded structure to stay in
\* the context of the enclosing one.
BuildContext(c, m) ==
    IF Has(m.ctx, "<unnested>") THEN [m EXCEPT !.ctx = Without(@, "<unnested>")]
    ELSE IF c.nested THEN Enter(m) ELSE m
LeaveBuild(c, m, end) ==
    IF c.nested /\ ~Has(m.ctx, "<unnested>") THEN [end EXCEPT !.ctx = m.ctx] ELSE end
Unnested(m) == [m EXCEPT !.ctx = Put(@, "<unnested>", BoolV(TRUE))]

StructBuild(c, obj, m) ==
    LET Field(r, sc) ==
            IF Failed(r) THEN r
            ELSE IF "EMBED" \in sc.flags THEN Build(sc, obj, Unnested(r))
            ELSE IF sc.name = NoName THEN Build(sc, NoneV, r)
            ELSE IF obj[1] # "cont" THEN Raised(r, "AttributeError")
            ELSE IF ~Has(obj[2], sc.name) THEN Raised(r, "AttributeError")
            ELSE Build(sc, obj[2][sc.name], [r EXCEPT !.ctx = Put(@, sc.name, obj[2][sc.name])])
    IN  LeaveBuild(c, m, FoldLeft(Field, BuildContext(c, m), c.subs))

\* How many elements an embedded construct takes from the shared iterator.
RECURSIVE Taken(_)
Taken(c) ==
    IF c.kind # "Sequence" THEN IF c.kind = "Reconfig" THEN Taken(c.sub) ELSE 0
    ELSE FoldLeft(LAMBDA n, sc : n + (IF "EMBED" \in sc.flags THEN Taken(sc)
                                      ELSE IF sc.name = NoName THEN 0 ELSE 1), 0, c.subs)
SequenceBuild(c, obj, m) ==
    LET Field(r, sc) ==     \* r.val: the elements the iterator still has
            LET rest == r.val[2]
                Then(w, n) == Returned(w, ListV(SubSeq(rest, n + 1, Len(rest))))
            IN  IF Failed(r) THEN r
                ELSE IF "EMBED" \in sc.flags
                     THEN Then(Build(sc, r.val, Unnested(r)), Taken(sc))
                ELSE IF sc.name = NoName THEN Then(Build(sc, NoneV, r), 0)
                ELSE IF rest = <<>> THEN Raised(r, "StopIteration")
                ELSE Then(Build(sc, rest[1], [r EXCEPT !.ctx = Put(@, sc.name, rest[1])]), 1)
    IN  IF ~Iterable(obj) THEN Raised(m, "TypeError")
        ELSE LeaveBuild(c, m, FoldLeft(Field, Returned(BuildContext(c, m), ListV(Elements(obj, FALSE))),
                                       c.subs))

StructSize(c, ctx) ==
    LET inner == IF c.nested THEN ("_" :> ContV(ctx)) ELSE ctx
    IN  SizeSum([i \in DOMAIN c.subs |-> SizeOf(c.subs[i], inner)])

------------------------------------------------------------------------------
(* conditional *)

CaseOf(c, key) == IF key \in DOMAIN c.cases THEN c.cases[key] ELSE c.default

SwitchParse(c, m) ==
    LET key == Eval(c.fun, m.ctx)
        r == Parse(CaseOf(c, key.v), m)
    IN  IF key.err # "" THEN Raised(m, key.err)
        ELSE IF c.include_key THEN Returned(r, ListV(<<key.v, r.val>>)) ELSE r
SwitchBuild(c, obj, m) ==
    LET key == IF c.include_key THEN [v |-> obj[2][1], err |-> ""] ELSE Eval(c.fun, m.ctx)
        inner == IF c.include_key THEN obj[2][2] ELSE obj
    IN  IF c.include_key /\ obj[1] # "list" THEN Raised(m, "TypeError")
        ELSE IF key.err # "" THEN Raised(m, key.err)
        ELSE Build(CaseOf(c, key.v), inner, m)
SwitchSize(c, ctx) ==
    LET key == Eval(c.fun, ctx)
    IN  IF key.err # "" THEN NoSize(key.err) ELSE SizeOf(CaseOf(c, key.v), ctx)

\* The first alternative that parses, each from the same place and context.
RECURSIVE SelectParse(_, _)
SelectParse(c, m) ==
    LET sc == c.subs[1]
        r == Parse(sc, m)
    IN  IF c.subs = <<>> THEN Raised(m, "SelectError")
        ELSE IF r.err \in ConstructErrors THEN SelectParse([c EXCEPT !.subs = Tail(@)], m)
        ELSE IF Failed(r) THEN r
        ELSE [r EXCEPT !.ctx = Updated(m.ctx, @),
                       !.val = IF c.include_name THEN ListV(<<NameV(sc.name), @>>) ELSE @]

\* By name, or the first alternative that builds in a stream of its own; there
\* any exception counts.
RECURSIVE SelectBuild(_, _, _)
SelectBuild(c, obj, m) ==
    LET sc == c.subs[1]
        rest == [c EXCEPT !.subs = Tail(@)]
        w == Build(sc, obj, [Call(<<>>, m.ctx) EXCEPT !.bits = FALSE])
    IN  IF c.subs = <<>> THEN Raised(m, "SelectError")
        ELSE IF c.include_name
             THEN IF obj[2][1] = NameV(sc.name) THEN Build(sc, obj[2][2], m)
                  ELSE SelectBuild(rest, obj, m)
        ELSE IF Failed(w) THEN SelectBuild(rest, obj, m)
        ELSE WriteAt([m EXCEPT !.ctx = Updated(@, w.ctx)], w.data)

------------------------------------------------------------------------------
(* stream manipulation *)

\* The position is put back only when the inner construct succeeded.
AtPointer(c, m, Inner(_)) ==
    LET new == Eval(c.fun, m.ctx)
        r == Inner([m EXCEPT !.pos = new.v[2]])
    IN  IF new.err # "" THEN Raised(m, new.err)
        ELSE IF new.v[2] < 0 THEN Raised(m, "ValueError")
        ELSE IF Failed(r) THEN r ELSE [r EXCEPT !.pos = m.pos]
PointerParse(c, m) == AtPointer(c, m, LAMBDA q : Parse(c.sub, q))
PointerBuild(c, obj, m) == AtPointer(c, m, LAMBDA q : Build(c.sub, obj, q))

\* The position is always put back; only a FieldError is swallowed.
PeekParse(c, m) ==
    LET r == [Parse(c.sub, m) EXCEPT !.pos = m.pos]
    IN  IF r.err = "FieldError" THEN Raised(Returned(r, NoneV), "") ELSE r
PeekBuild(c, obj, m) == IF c.perform_build THEN Build(c.sub, obj, m) ELSE m

Skipped(c, m) ==
    LET s == SizeOf(c.sub, m.ctx)
    IN  IF ~c.advance_stream THEN m
        ELSE IF s.err # "" THEN Raised(m, s.err) ELSE [m EXCEPT !.pos = @ + s.n]
OnDemandParse(c, m) == Returned(Skipped(c, m), LazyV(c.sub, m))

BugDemandHere(v, m) == Parse(v[2].sub, [m EXCEPT !.ctx = v[2].ctx])
\* LazyContainer.read: parse at the remembered place of the stream m reads.
Demand(v, m) == Parse(v[2].sub, [m EXCEPT !.pos = v[2].pos, !.ctx = v[2].ctx])

OnDemandBuild(c, obj, m) ==
    LET d == Demand(obj, Call(obj[2].data, <<>>))
    IN  IF obj[1] # "lazy" THEN Build(c.sub, obj, m)
        ELSE IF ~c.force_build /\ ~obj[2].has_value THEN Skipped(c, m)
        ELSE IF Failed(d) THEN Raised(m, d.err) ELSE Build(c.sub, d.val, m)

\* A format of bits: in memory when its size is known, through a stream of bits
\* otherwise.  MAX_BUFFER is above every size used here.
InMemory(sub) == "DYNAMIC" \notin sub.flags /\ SizeOf(sub, <<>>).err = ""
BitwiseClass(sub) == IF InMemory(sub) THEN Buffered(sub) ELSE Restream(sub)

\* Bitwise's resizer.
EighthOf(s) ==
    IF s.err # "" THEN s ELSE IF s.n % 8 # 0 THEN NoSize("SizeofError") ELSE Size(s.n \div 8)
BitwiseSize(c, ctx) == EighthOf(SizeOf(c.sub, ctx))

BufferedParse(c, m) ==
    LET s == BitwiseSize(c, m.ctx)
        raw == ReadStream(m, s.n)
        r == Parse(c.sub, [raw EXCEPT !.data = encode_bin(raw.val[2]), !.pos = 0])
    IN  IF s.err # "" THEN Raised(m, s.err)
        ELSE IF Failed(raw) THEN raw
        ELSE [r EXCEPT !.data = m.data, !.pos = raw.pos]
BufferedBuild(c, obj, m) ==
    LET s == BitwiseSize(c, m.ctx)
        w == Build(c.sub, obj, Call(<<>>, m.ctx))
    IN  IF s.err # "" THEN Raised(m, s.err)
        ELSE IF Failed(w) THEN [m EXCEPT !.err = w.err, !.ctx = w.ctx]
        ELSE IF Len(w.data) % 8 # 0 THEN Raised(m, "ValueError")
        ELSE IF Len(w.data) \div 8 # s.n THEN Raised(m, "AssertionError")
        ELSE WriteStream([m EXCEPT !.ctx = w.ctx], s.n, BytesV(decode_bin(w.data)))

BugStaysInBits(c, m) == Parse(c.sub, [m EXCEPT !.bits = TRUE])
RestreamParse(c, m) == [Parse(c.sub, [m EXCEPT !.bits = TRUE]) EXCEPT !.bits = m.bits]
RestreamBuild(c, obj, m) == [Build(c.sub, obj, [m EXCEPT !.bits = TRUE]) EXCEPT !.bits = m.bits]

------------------------------------------------------------------------------
(* miscellaneous, and the constructs of common/construct_utils.py *)

AnchorParse(m) == Returned(m, IntV(m.pos))
AnchorBuild(c, m) == [m EXCEPT !.ctx = Put(@, c.name, IntV(m.pos))]

ValueParse(c, m) ==
    LET v == Eval(c.fun, m.ctx) IN IF v.err # "" THEN Raised(m, v.err) ELSE Returned(m, v.v)
ValueBuild(c, m) ==
    LET v == Eval(c.fun, m.ctx)
    IN  IF v.err # "" THEN Raised(m, v.err) ELSE [m EXCEPT !.ctx = Put(@, c.name, v.v)]

\* The construct the name stands for, looked up at each use.
Bound(c) == Bindings[c.bindfunc]

PassBuild(obj, m) == IF obj # NoneV THEN Raised(m, "AssertionError") ELSE m

TerminatorParse(m) ==
    IF BytesAt(m, 1) # <<>> THEN Raised([m EXCEPT !.pos = @ + 1], "TerminatorError")
    ELSE Returned(m, NoneV)

\* Seven bits per byte, the lowest first, up to a byte below 128.
RECURSIVE LebBytes(_, _)
LebBytes(m, acc) ==
    LET got == BytesAt(m, 1)
    IN  IF got = <<>> THEN Raised(m, "FieldError")
        ELSE IF got[1] < 128
             THEN Returned([m EXCEPT !.pos = @ + 1], BytesV(Append(acc, got[1])))
        ELSE LebBytes([m EXCEPT !.pos = @ + 1], Append(acc, got[1] % 128))
ULEB128Parse(m) ==
    LET r == LebBytes(m, <<>>)
    IN  IF Failed(r) THEN r
        ELSE Returned(r, IntV(FoldRight(LAMBDA b, n : 128 * n + b, r.val[2], 0)))
\* The sign is bit 6 of the last byte.
SLEB128Parse(m) ==
    LET r == LebBytes(m, <<>>)
        s == r.val[2]
        u == FoldRight(LAMBDA b, n : 128 * n + b, s, 0)
    IN  IF Failed(r) THEN r
        ELSE Returned(r, IntV(IF Last(s) >= 64 THEN u - 128 ^ Len(s) ELSE u))

\* The initial length of a DWARF unit (dwarf/structs.py): the all-ones word
\* announces a 64-bit length; is64 goes to the context of the unit header.
InitialLengthDecode(m) ==
    LET first == m.val[2]["first"][2]
        escape == 256 ^ WordBytes - 1
    IN  IF first < FirstReserved
        THEN [m EXCEPT !.val = IntV(first), !.ctx = Put(@, "is64", BoolV(FALSE))]
        ELSE IF first = escape
        THEN [m EXCEPT !.val = m.val[2]["second"], !.ctx = Put(@, "is64", BoolV(TRUE))]
        ELSE Raised(m, "ConstructError")

\* A parser made from fields parsed before (dwarf/structs.py, FormattedEntry);
\* the context keeps it for the next entry, which finds the same fields.  A form
\* may have no entry in the table or None, and None has no flags for Rename.
FormattedEntryParse(c, m) ==
    LET formats == m.ctx[c.format_field][2]
        Spec(i) == formats[i][2]
        Lookup(i) == IF Spec(i)["form"][1] # "name" \/ Spec(i)["form"][2] \notin DOMAIN c.forms
                     THEN "KeyError"
                     ELSE IF c.forms[Spec(i)["form"][2]].kind = "NoneType" THEN "AttributeError"
                     ELSE ""
        bad == SelectInSeq([i \in DOMAIN formats |-> Lookup(i)], LAMBDA e : e # "")
        fields == [i \in DOMAIN formats |->
                     [Subconstruct("Reconfig", c.forms[Spec(i)["form"][2]])
                        EXCEPT !.name = Spec(i)["content_type"][2]]]
    IN  IF ~Has(m.ctx, c.format_field) THEN Raised(m, "KeyError")
        ELSE IF bad # 0 THEN Raised(m, Lookup(bad))
        ELSE Parse(StructOf("formatted_entry", fields, TRUE), m)

------------------------------------------------------------------------------
(* adapters around an inner construct *)

Decode(c, m) ==
    LET size == SizeOf(c.sub, m.ctx)
        Sized(r) == IF size.err # "" THEN Raised(m, size.err) ELSE r
    IN  CASE c.how = "bitint" -> BitIntegerDecode(c, m)
          [] c.how = "mapping" -> MappingDecode(c, m)
          [] c.how = "flags" -> FlagsDecode(c, m)
          [] c.how = "string" -> StringDecode(c, m)
          [] c.how = "padded" -> PaddedStringDecode(c, m)
          [] c.how = "lengthvalue" -> LengthValueDecode(m)
          [] c.how = "cstring" -> CStringDecode(c, m)
          [] c.how = "tunnel" -> [Parse(c.inner, [m EXCEPT !.data = m.val[2], !.pos = 0])
                                    EXCEPT !.data = m.data, !.pos = m.pos]
          [] c.how = "expr" -> ExprDecode(c, m)
          [] c.how = "const" -> ConstDecode(c, m)
          [] c.how = "slicing" -> SlicingDecode(c, m)
          [] c.how = "indexing" -> IndexingDecode(c, m)
          [] c.how = "padding" -> IF c.strict THEN Sized(PaddingDecode(c, m, size.n)) ELSE m
          [] c.how = "validator" -> ValidatorDecode(c, m)
          [] c.how = "initial_length" -> InitialLengthDecode(m)

Encode(c, obj, m) ==
    LET size == SizeOf(c.sub, m.ctx)
        Sized(r) == IF size.err # "" THEN Raised(m, size.err) ELSE r
    IN  CASE c.how = "bitint" -> BitIntegerEncode(c, obj, m)
          [] c.how = "mapping" -> MappingEncode(c, obj, m)
          [] c.how = "flags" -> FlagsEncode(c, obj, m)
          [] c.how = "string" -> StringEncode(c, obj, m)
          [] c.how = "padded" -> Sized(PaddedStringEncode(c, obj, m, size.n))
          [] c.how = "lengthvalue" -> LengthValueEncode(obj, m)
          [] c.how = "cstring" -> CStringEncode(c, obj, m)
          [] c.how = "tunnel" -> LET w == Build(c.inner, obj, Call(<<>>, m.ctx))
                                 IN  [m EXCEPT !.val = BytesV(w.data), !.err = w.err, !.ctx = w.ctx]
          [] c.how = "expr" -> ExprEncode(c, obj, m)
          [] c.how = "const" -> ConstEncode(c, obj, m)
          [] c.how = "slicing" -> SlicingEncode(c, obj, m)
          [] c.how = "indexing" -> IndexingEncode(c, obj, m)
          [] c.how = "padding" -> Sized(PaddingEncode(c, m, size.n))
          [] c.how = "validator" -> ValidatorDecode(c, Returned(m, obj))
          [] OTHER -> Raised(m, "NotImplementedError")

AdapterParse(c, m) == LET r == Parse(c.sub, m) IN IF Failed(r) THEN r ELSE Decode(c, r)
AdapterBuild(c, obj, m) ==
    LET e == Encode(c, obj, m) IN IF Failed(e) THEN e ELSE Build(c.sub, e.val, e)

------------------------------------------------------------------------------
(* every class's methods *)

ParseMethod(c, m) ==
    CASE c.kind = "StaticField" -> StaticFieldParse(c, m)
      [] c.kind = "FormatField" -> FormatFieldParse(c, m)
      [] c.kind = "MetaField" -> MetaFieldParse(c, m)
      [] c.kind = "MetaArray" -> MetaArrayParse(c, m)
      [] c.kind = "Range" -> RangeParse(c, m)
      [] c.kind = "RepeatUntil" -> RepeatUntilParse(c, m)
      [] c.kind = "RepeatUntilExcluding" -> RepeatUntilExcludingParse(c, m)
      [] c.kind = "Struct" -> StructParse(c, m)
      [] c.kind = "Sequence" -> SequenceParse(c, m)
      [] c.kind = "Union" -> Parse(c.parser, m)
      [] c.kind = "NoDefault" -> Raised(m, "SwitchError")
      [] c.kind = "Switch" -> SwitchParse(c, m)
      [] c.kind = "Select" -> SelectParse(c, m)
      [] c.kind = "Pointer" -> PointerParse(c, m)
      [] c.kind = "Peek" -> PeekParse(c, m)
      [] c.kind = "OnDemand" -> OnDemandParse(c, m)
      [] c.kind = "Bitwise" -> Parse(BitwiseClass(c.sub), m)
      [] c.kind = "Buffered" -> BufferedParse(c, m)
      [] c.kind = "Restream" -> RestreamParse(c, m)
      [] c.kind = "Reconfig" -> Parse(c.sub, m)
      [] c.kind \in {"Anchor", "StreamOffset"} -> AnchorParse(m)
      [] c.kind = "Value" -> ValueParse(c, m)
      [] c.kind = "LazyBound" -> Parse(Bound(c), m)
      [] c.kind = "Pass" -> Returned(m, NoneV)
      [] c.kind = "Terminator" -> TerminatorParse(m)
      [] c.kind = "ULEB128" -> ULEB128Parse(m)
      [] c.kind = "SLEB128" -> SLEB128Parse(m)
      [] c.kind = "FormattedEntry" -> FormattedEntryParse(c, m)
      [] c.kind = "Adapter" -> AdapterParse(c, m)

BuildMethod(c, obj, m) ==
    CASE c.kind = "StaticField" -> StaticFieldBuild(c, obj, m)
      [] c.kind = "FormatField" -> FormatFieldBuild(c, obj, m)
      [] c.kind = "MetaField" -> MetaFieldBuild(c, obj, m)
      [] c.kind = "MetaArray" -> MetaArrayBuild(c, obj, m)
      [] c.kind = "Range" -> RangeBuild(c, obj, m)
      [] c.kind = "RepeatUntil" -> RepeatUntilBuild(c, obj, m)
      [] c.kind = "Struct" -> StructBuild(c, obj, m)
      [] c.kind = "Sequence" -> SequenceBuild(c, obj, m)
      [] c.kind = "Union" -> Build(c.builder, obj, m)
      [] c.kind = "NoDefault" -> Raised(m, "SwitchError")
      [] c.kind = "Switch" -> SwitchBuild(c, obj, m)
      [] c.kind = "Select" -> SelectBuild(c, obj, m)
      [] c.kind = "Pointer" -> PointerBuild(c, obj, m)
      [] c.kind = "Peek" -> PeekBuild(c, obj, m)
      [] c.kind = "OnDemand" -> OnDemandBuild(c, obj, m)
      [] c.kind = "Bitwise" -> Build(BitwiseClass(c.sub), obj, m)
      [] c.kind = "Buffered" -> BufferedBuild(c, obj, m)
      [] c.kind = "Restream" -> RestreamBuild(c, obj, m)
      [] c.kind = "Reconfig" -> Build(c.sub, obj, m)
      [] c.kind \in {"Anchor", "StreamOffset"} -> AnchorBuild(c, m)
      [] c.kind = "Value" -> ValueBuild(c, m)
      [] c.kind = "LazyBound" -> Build(Bound(c), obj, m)
      [] c.kind \in {"Pass", "Terminator"} -> PassBuild(obj, m)
      [] c.kind = "Adapter" -> AdapterBuild(c, obj, m)
      [] OTHER -> Raised(m, "NotImplementedError")

SizeMethod(c, ctx) ==
    CASE c.kind \in {"StaticField", "FormatField"} -> Size(c.length)
      [] c.kind = "MetaField" -> MetaSize(c, ctx)
      [] c.kind = "MetaArray" -> MetaArraySize(c, ctx)
      [] c.kind \in {"Struct", "Sequence"} -> StructSize(c, ctx)
      [] c.kind = "Union" -> SizeOf(c.builder, ctx)
      [] c.kind = "NoDefault" -> NoSize("SwitchError")
      [] c.kind = "Switch" -> SwitchSize(c, ctx)
      [] c.kind \in {"Bitwise", "Buffered", "Restream"} -> BitwiseSize(c, ctx)
      [] c.kind = "LazyBound" -> IF c.bindfunc \in Recursive THEN NoSize("RecursionError")
                                 ELSE SizeOf(Bound(c), ctx)
      [] c.kind \in {"Adapter", "Reconfig", "OnDemand"} -> SizeOf(c.sub, ctx)
      [] c.kind \in {"Pointer", "Peek", "Anchor", "StreamOffset", "Value", "Pass", "Terminator"} -> Size(0)
      [] OTHER -> NoSize("SizeofError")

Method(method, c, obj, m) ==
    CASE method = "_parse" -> ParseMethod(c, m)
      [] method = "_build" -> BuildMethod(c, obj, m)
      [] method = "_sizeof" -> SizeMethod(c, m)

\* The external methods: parse_stream on the stream of m, build, and sizeof,
\* which turns every exception into SizeofError.
parse_stream(c, m) == Parse(c, [m EXCEPT !.ctx = <<>>, !.val = NoneV, !.err = ""])
build(c, obj) == Build(c, obj, Call(<<>>, <<>>))
SizeOrError(s) == IF s.err # "" THEN NoSize("SizeofError") ELSE s
sizeof(c) == SizeOrError(SizeOf(c, <<>>))
=============================================================================
