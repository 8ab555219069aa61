# Verification of audit_libstdcxx

`audit_libstdcxx` lets an application ship a `libstdc++.so.6` and still run with the system's when that
one is newer. A C library named in `DT_AUDIT` does it for executables, a Python audit hook does it for
extension modules, and CMake scripts find the library to ship. This directory holds TLA+ models of that
code, the instances TLC checks, and theorems that TLAPS proves for every value of their constants. Paths
below are relative to the repository.

## The system

| part | source | state it keeps | operations |
|---|---|---|---|
| audit library | `load_libstdcxx/audit.c` 261-464 | `shipped_glibcxx_version` (the version to beat), `shipped_libstdcxx_path` and its mmapped buffer | `la_version`, `la_objsearch`, `la_activity`, called by ld.so |
| path search | `audit.c` 140-259 | a buffer that grows with the sections | `find_libstdcxx_from_dt_path`, once for RUNPATH, once for RPATH |
| dynamic section reader | `audit.c` 59-107 | none | `get_parent_executable_runpath_rpath` |
| version reader | `get_libstdcxx_version.h` | the maximum so far | `version_string_to_int`, the walk over `.gnu.version_d` |
| version command | `get_libstdcxx_version.c` | none | prints the version for CMake |
| Python hook | `pyaudit/audit_libstdcxx.py` | `global_disable_audit_hook`, `global_libstdcxx_path`, the hooks registered | `audit_hook`, `check_shared_lib_dependencies`, `check_and_load_compatible_libstdcxx_version` |
| sitecustomize | `pyaudit/sitecustomize.py.in` | `sys.path`, `sys.modules` | sets the hook, runs the next `sitecustomize.py` |
| CMake search | `cmake/find_highest_libstdcxx.cmake` and its helpers | the highest version so far | finds the library to ship |
| construct | `pyaudit/elftools/construct/`, `common/construct_utils.py` | the context of a call, the stream's position | `_parse`, `_build`, `_sizeof` of its classes and adapters |
| ELF, DWARF, EHABI formats | `elf/structs.py`, `dwarf/structs.py`, `ehabi/structs.py`, `elf/enums.py` | none | one construct per structure |
| ELF reader | `elf/*.py`, `common/utils.py` | one stream, the map of section names, caches of symbols, tags and versions | opening, sections, segments, tables, relocation |
| other readers | `elf/descriptions.py`, `dwarf/`, `ehabi/` readers | parser caches | not used by the hook; not modelled |

How they meet: ld.so calls the audit library before it maps anything (`la_version`), for each path it
wants to try (`la_objsearch`) and when the link map changes (`la_activity`). `la_version` uses the path
search to find the shipped library and the version reader for its version; `la_objsearch` uses the
version reader on each candidate. They share the statics and the path buffer, and ld.so keeps a pointer
into that buffer between two calls. The Python hook runs inside the event that precedes an import, waits
for `ldd` and for a child interpreter, reads versions through pyelftools, and loads the shipped library
with `CDLL`. The CMake search runs the version command, whose reader is the one the audit library has.
The ELF reader of pyelftools parses through the formats, the formats are constructs; all of them read
one stream, whose position one call leaves to the next.

What is hard here: ld.so's call order and what it does with each answer, which no unit test of the
repository exercises; failure at each of several points where the library must fall back to doing
nothing; the lifetime of the buffer ld.so was given; `size_t` and `uint32_t` arithmetic at the boundary;
Python threads that run while the hook waits, with the hook already disabled; exceptions that leave the
hook; in pyelftools one shared stream, caches that are filled on the way, iterators between whose steps
the caller reads elsewhere, and files that are cut short. The full list, with lines and with the
property for each, is `hazards` in `PROJECT.json`.

What makes each part correct:

* *audit library*: during startup no libstdc++ older than the shipped one is mapped; the version to beat
  never falls; the path buffer is freed once and never used afterwards; where the library found nothing
  to protect, ld.so's search is as it would be without it; programs start.
* *path search*: the first section that opens wins; the buffer never overflows, leaks or cuts a path.
* *version reader*: fields are clamped after they have wrapped at 2^32, the result never equals the "unknown" marker, C and Python
  agree.
* *Python hook*: after the check the process is protected or the user was told; one copy of libstdc++;
  the shipped one only if it is higher; imports and the startup chain end.
* *CMake search*: the library linked is the highest of the places the caller asked for.
* *formats*: what a format parses it builds again; its size is what it consumes; a file cut short is an
  error the readers expect.
* *ELF reader*: an answer does not depend on what was asked before; the ways to read the same fact (hash
  tables and symbol table, segments and sections, C and Python) agree; relocation is exact.

## Modules

| module | what it is |
|---|---|
| `AuditLib` | the statics of `audit.c` and its three entry points, each one action that leaves its answer in `returned` |
| `LdSo` | extends it with the process and ld.so, which is external: search order, flags, what it does with each answer |
| `LdSoChoice` | extends it with the properties of whole searches and the mapping to the abstract choice |
| `LibstdcxxChoice` | the abstract promise: the higher of the shipped and the first system version |
| `DtPathSearch` | `find_libstdcxx_from_dt_path` step by step, strings as lengths |
| `ShippedSearch` | extends it with the beginning of `la_version`: the reader of the dynamic section and the two searches |
| `FindHighest` | the CMake search, the version command it runs and the build RPATH |
| `GlibcxxVersion` | the C parser character by character beside the Python parser, on the same names |
| `PyAudit` | the sitecustomize chain, the hook and its threads |
| `Lists` | removing an element of a list, as CMake and Python do it |
| `FixedWidth` | integers in fields of bytes and of bits, for the construct library and for relocation |
| `ConstructValues`, `ConstructCore`, `ConstructMacros` | the construct library: values and streams, classes and adapters, the formats one writes with them |
| `ElfFormats`, `DwarfFormats` | the structures of ELF and EHABI, and of DWARF, as constructs |
| `ConstructUse` | a program that parses, builds, parses again, cuts and demands |
| `ElfStream`, `GnuVersions` | the ELF reader's access to the file, and the chains of version definitions and needs |
| `ElfFile`, `ElfTables`, `ElfRelocation` | the ELF reader: file, sections and segments; tables; relocation and debug sections |
| `VerdefReaders` | the C and the Python reader of `.gnu.version_d` on one file |
| `VerdefLayout` | what such a section is, with any number of definitions and names, and where each reader looks for a name |
| `ReaderUse` | a program that asks an open file questions, also between two steps of an iterator |
| `MC...` | the instances for TLC |
| `InductionFacts` | induction and recursion over the natural numbers, and facts about lists, for the proofs |
| `...Proofs` | the inductive invariants and theorems |

### AuditLib and LdSo

`shipped_glibcxx_version` and `shipped_libstdcxx_path` are the statics of lines 261-263. `mapped` is the
memory the library holds ("path" the buffer, "origin" the copy of the executable's path that some
returns leave behind). `recorded` is a history variable: the version `la_version` recorded. A file is
one of seven kinds (see the module), which are the ones `open`, `get_libstdcxx_version` and ld.so
distinguish, and a version. `la_version` is the disjunction of its returns. `la_objsearch` is its early
exit, the answer to `LA_SER_RUNPATH`, the failed `open`, and `Examine`. A fatal read compares with
version 0, as `version` is initialised in the code. A failed `ASSERT` ends the process.

ld.so is written as the code expects it and as glibc behaves: `la_version`; `LA_ACT_ADD`; preloads and
the dependency by name; per candidate `la_objsearch` and then open; `LA_ACT_CONSISTENT`; later
`dlopen`s. A path that was asked for is vetted twice (`LA_SER_ORIG`, then with flag 0 when it is
opened). After a NULL answer ld.so reads an `errno` nobody set and may skip what follows in the same
list: `DropCandidate` chooses how many. `loaded` remembers of each library in which phase it came and
whether a name or a path was asked for.

`LdSoChoice` maps this to `LibstdcxxChoice`: shipped is `recorded`, offered the version of the first
system candidate that opens, chosen that of what a search by name mapped during startup. The abstract
choice may fall back to the shipped version when an mmap can fail (`MayMisread`), since a file whose
version was not read counts as version 0. Nothing is chosen on machines with files of another machine
or class: there ld.so leaves out candidates that the library has looked at, and `ReplacesNoNewer` fails.
A program that ships a library and has one on its system starts (`StartsWithBoth`), with two exceptions
that `InReach` states, since the README of the repository promises it without any: a file whose section
headers an `ASSERT` rejects ends the process when it comes first, although a usable one follows; and
after a file of the other class, answered with NULL, ld.so may leave out what follows in the same list.

### DtPathSearch

`k` is the section under `dt_path_cursor`. `needed_len`, the growth test, the unmap and the mmap are
`Grow`, `Reuse` and `GrowFails`; `Copy` is the three `strncat` calls with their limits, where a limit
below zero stands for a wrapped `size_t`; `TrySucceeds` hands the buffer over. The two branches of the
code (with and without `$ORIGIN`) differ only in the prefix, whose length is 0 in the second.

### ShippedSearch

`get_parent_executable_runpath_rpath` maps an executable (the types of its program headers and the tags
of its first dynamic section) to its return value; `entries` is what it delivered. `FindIn` is a call of
`find_libstdcxx_from_dt_path`: it resets the locals, and `Walk` is a step of `DtPathSearch`. The text of
an entry is chosen when its search begins. `searched`, `missed` and `oom` are history. The base address
is taken to be right: `ld.so` computes it from the same `PT_PHDR`.

### FindHighest

A library is its directory, since `find_library` answers with a path in the directory it was given.
`EditPaths` is lines 36-60, with the list commands of CMake; `TryPath` one round of the loop; `Link` the
lines of `libstdcxx.cmake` after the call. A machine says what its directories hold, where the default
search finds a library and what the compiler prints. The default directories are searched for an empty
element, and a CMake list whose only element is empty is the empty list (`AsList`): so they are lost
where nothing else is left beside that element, for an empty list and for `NO_COMPILER_PATH` with nothing
but the compiler's directory. `KeepsHighest` states this as its exception (`DefaultLost`).

### GlibcxxVersion

A `uint32_t` is two halves of 16 bits, so that it wraps exactly and TLC's own integers do not overflow.
Names are parts between dots and a flag for a trailing character. `seen` records the names read.

### PyAudit

The interpreter switches threads wherever the hook waits, so the hook is one action per stretch between
two waits: test and `ldd`; disable; probe; child process; reading and comparing; `CDLL`. `pc[t]` says
where thread `t` stands and `nr[t]` which of the registered hooks runs. Both files are read and compared
in one step, since nothing they use changes meanwhile except what is mapped, which was read before.
`mapped` is the order in which copies of libstdc++ came in: the first serves all later libraries. Only
Linux is modelled, as the code does nothing elsewhere.

### The construct library and the formats

A construct is a record with its class and its fields. Python looks a method up when it is called, and a
class calls the methods of constructs it knows nothing of; so `ConstructCore` has one recursive
operator, `Method`, that takes the name of a method and dispatches by class, and each `..Parse`,
`..Build` and `..Size` operator stands for one Python method. A call is a record: stream, position,
context, value and exception, and every operator that would let an exception pass returns the failed
call. A Python value is a pair of tag and payload. Sizes are those of the source with a word of
`WordBytes` and a half word of `HalfBytes`; an enumeration keeps the entries that lead to different
formats and some of the rest. Some behaviour that is easy to overlook is in the model because it is in
the code: `Restream` fails under Python 3; `_InitialLengthAdapter` raises a bare `ConstructError`;
`dwarf/structs.py` lacks a form (`DW_FORM_strx`); the conditional `Embed` of a file entry leaves its
mark when the name is empty; an x86 property is read as one word whatever its `pr_datasz`. The formats
were compared with what the library itself parses on some 24,000 samples: they agree but for the width
of a word and the entries the enumerations leave out.

### The ELF reader

A file is its image: what each format parses at each offset, the strings, and the cells of a section. So
this model rests on the formats and does not repeat them. `CallFile`, `CallTable` and `Call` call a
method by its name, each falling back to the module below, as a subclass does. What outlives a call is
in the file's record: where the stream stands (every seek and read moves it), the map of section names,
and for each object what it remembers. Iterators are records of what a Python generator keeps between
two steps; the attributes of the image have two items on each of the upper levels. `VerdefReaders` reads
the file once with the C pointer arithmetic, `vda_next` times the size of an entry included, and once
through the Python reader. What the C code reads beyond the last page of the file (`mapped`) is taken to
fault, and words within that page of which nothing is known to be 0. Images are laid out as a linker
does, plus a few damaged ones. `ElfStream`, `GnuVersions` and `VerdefReaders` have no `RECURSIVE` operators: their
loops are functions over the number of passes, so that theorems can speak of them. `VerdefLayout`
describes a section by its definitions: where each begins, where the entries of its names are (`aux`)
and where the C code reads them (`read`), which are the same only for the first name.

## Runs

| run | what it checks | bounds |
|---|---|---|
| `ldso_safety` | types, buffer ownership, no dangling answer, never below shipped, ratchet | 4 paths of 4 kinds and 2 libraries of each version, one of them not named `libstdc++.so.6`; 2 requests; mmap may fail |
| `ldso_choice` | the search implements `LibstdcxxChoice`; the version to beat is that of something mapped, or the recorded one; with a usable shipped library and a system library in reach a program starts; an unarmed library changes nothing | versions 1-3, so that shipped can be below, between and above two system libraries; 2 requests, by name or of a path; all seven kinds of file; three system candidates in two lists, one file in both, so that a file can be dropped with its list; mmap may fail |
| `ldso_shipped_alone` | finding: no system library, no start | |
| `ldso_foreign` | finding: a file for another machine raises the version to beat, and a newer system library is replaced by the older shipped one | |
| `ldso_later` | finding: `dlopen` after startup is unprotected | |
| `dtpath_search` | first section that opens, DT_RUNPATH before DT_RPATH, no overflow, cut or leak, right length | executables with up to 3 dynamic entries, up to 3 sections in each text, rest of 0, 1, 20 or 40 characters, two origins, mmap may fail at every growth |
| `glibcxx_parse` | index in bounds, below 2^24, wrapped and then clamped, C and Python read the same maximum; the CMake search links the highest | up to two names; parts empty, 0-9, 30, 255, 256, 2^32 - 1 and 2^32 + 3; one to four parts; trailing characters. Lists of up to two elements, and of three with a flag; three directories with versions 0 to 2, unreadable or absent; other compilers |
| `pyaudit_single` | protected or told, one copy, shipped only if higher, chain and imports end | 1 thread, 2 chained packages, 6 kinds of file in each place, 3 imports or CDLLs |
| `pyaudit_race` | finding: the second of two imports passes a hook disabled too early | |
| `pyaudit_cdll` | finding: CDLL is never seen | |
| `pyelf_formats` | round trip, sizes, truncation, exceptions, lazy values | every structure of ELF, DWARF and EHABI; forty examples of the classes and adapters of construct and five of lazy parts; samples with each byte changed to 0, 1, 2, 128 and 255, cut at every length; words and half words of one byte |
| `pyelf_reading` | answers as on a fresh file, iterators undisturbed, hash tables, segments and sections, relocation, C and Python agree | two questions in every order, and between two steps of an iterator; attributes with two subsections, the first of two subsubsections; every small symbol table, looked up by names it has, names it lacks, names of the same hash and one whose hash carries out of the word; every set of compact relocations, pair of relocations and list of version definitions, followed by words that lead the C reader on or out of the file; 16-bit hashes, cells of four values |

Why the bounds are enough. The library keeps one version and one pointer, so its behaviour over a
sequence of candidates is decided by the order relation between the version to beat and the next
candidate; three versions and a request with two candidates, or two requests, give every such order. The
search for paths depends on whether a path is longer than the buffer left over from the one before;
three sections of four lengths give growth, reuse and both after each other. The parsers take their
decisions at the values listed. The search in CMake compares versions only with each other; equal,
lower, higher and none, with each flag before, between and after the directories, give every decision. A
construct takes its decisions byte by byte, and a width of one byte has the same carries, signs and ends
as four; the values at which codes change their meaning are scaled with it (`FirstReserved`). What a
question leaves behind for the next is a position and a cache, so two questions show it. In the hook
everything happens once per process, after which it is disabled; three loads cover before, during and
after. For the properties proved, the bounds do not matter.

`CHECK_DEADLOCK FALSE` is set because every model ends: requests, names, sections and imports are
bounded, and a process may die.

### Fairness

`LdSo!FairSpec` has weak fairness on `la_version` and on the steps of a search that has begun: ld.so is
one sequential program and finishes what it started. Nothing forces a request to be made.
`PyAudit!FairSpec` has weak fairness on the startup chain and on each thread that has begun an import:
child processes end and the interpreter schedules runnable threads; beginning an import is not fair.

### Findings

The five violation runs each refute one sentence of a comment or of the README; the sentence and the
line of the code are in `findings`. In short: the shipped library cannot stand in for a missing system
one; a candidate raises the version to beat before it is accepted; `LA_ACT_CONSISTENT` comes again; the
hook is disabled before, not after, the load; `sys.dlload` is not an event. (The Python hook does not
load the shipped library without a system one either, `ProbeOfNone`, but it says so.) Two weaknesses the
models show stand in the properties as the exceptions they are: a component of 2^32 or more wraps before
it is clamped (`ClampedAt255`), and the C walk of `.gnu.version_d` may end the process on
a version with a parent (`CAndPythonAgree`). So do the GNU hash lookup that loses its place after a
symbol of nearly the same hash, be the name in the table or not, and the Python `elf_hash` that keeps a
carry which linkers drop (`HashLookupsAgree`); the attribute iterators, which a read in between disturbs
and of which one that is run without those it holds looks for its third item in the wrong place
(`IterationUndisturbed`); and the CMake search that loses the default directories with a list
left as one empty element (`KeepsHighest`). In the construct library `RepeatUntil` (unless a
`Reconfig` sets its flag), slices and indices do not build what they parsed (`RoundTrip`), a lazy part
that does not advance the stream has a size that nothing consumes (`SizeAgrees`), a field that repeats a
name changes what an earlier lazy part reads (`LazyIsEager`), and the line program's
`DW_FORM_implicit_const` raises an `AttributeError` that `struct_parse` does not wrap
(`ErrorsAreWrapped`). No format of the files uses the first three.

## Proofs

Every theorem holds for every value of the constants that the named assumptions allow: any number of
files, paths, requests, names, sections, list elements and threads.

* `LdSoProofs`, the actions. `IInv` strengthens the properties with six facts: the statics are fresh before
  `la_version`; an aborted call means a dead process; the path buffer names the file whose version was
  recorded; the library stays armed through startup, with a version to beat no lower than the recorded
  one; and an answer handed out during startup, if ld.so can load it, is not older than the recorded
  version. The last is what makes `NeverBelowShipped` inductive: the property speaks of what is mapped,
  the guarantee is given one call earlier. One lemma per action. Assumptions: `KindAssumption`,
  `LibAssumption`, `LdSoAssumption` (the unknown marker is above every version; paths and kinds are of
  their types). That the marker is above every version is itself the theorem `PackedBelowInvalid` of
  `GlibcxxVersionProofs`.
* `LdSoProofs`, the searches. `Refinement`: `LdSo` implements `LibstdcxxChoice`. The step that maps a library
  for a name is `Choose` or `ChooseUnaided`, the one that records the shipped version is `Ship`, all
  others stutter. What the step needs to know was decided calls earlier, so the invariant `ChoiceInv`
  follows a search from candidate to candidate: how far it has come and what it passed over, that no
  candidate before the one at hand opens (`Underway`), what was answered to it (`Verdict`), and that a
  library which has raised the version to beat is mapped or about to be, also between the two looks at a
  path (`RatchetMapped`, `Raising`). The same invariant gives `RaisedByMapped` (`VersionToBeatIsMapped`)
  and `UnarmedIsPlain` (`PlainWhenUnarmed`).
* `GlibcxxVersionProofs`. `ShiftedIsModular`: the two halves are `(x * 10 + d) % 2^32`. `PackedOrder`:
  integer order of packed versions is lexicographic order of the fields, so the C comparison and
  Python's tuple comparison are the same. `TypeCorrect` and `PackedBelowInvalid` for every set of names.
  `ReadsModulo2Pow32` says what the C loop computes: each field is the exact number its digits spell,
  modulo 2^32, for names of any length. The invariant ties the cursor to the text: the fields left of it
  are read, the one at hand is the number of the digits passed, those right of it are zero. From it
  `FieldsClamped` (`ClampedAt255`) for parts of any size: the property compares the field with the
  number the digits spell, wrapped once at the end (`SpelledIsExact`, `HalvesModulo`), where the code
  wraps at every digit. And `ReadersAgreeOnVersion` (`ReadersAgree`),
  without a hypothesis: the maximum of the packed versions is the packed maximum of the tuples, after
  any number of names.
* `DtPathSearchProofs`. For every list of sections and any origin: no overflow, no cut, no leak, first
  match, right length. The invariant says the buffer is as long as the longest path built so far
  (`Longest`); then every `strncat` has room for all of its string (`RoomForAll`). The same over the two
  searches of `la_version` (`BothSearchesSafe`): the invariant of a search holds again when the next
  begins with fresh locals, because a search that failed has unmapped what it mapped. `FirstShipped`
  (`ShippedIsFirst`): the invariant adds that a path that opens was missed only where an mmap failed
  (`MissedForCause`), and that `la_version` gives up only for that reason or behind the last of its
  entries (`GivenUp`).
* `FindHighestProofs`. `KeepsFirstOfEquals`, for every list and machine: the loop keeps the first
  element among those of the highest version, and none exactly when none is above 0. The invariant adds
  that nothing is kept before the loop begins. `LinksHighest` (`KeepsHighest`): what is linked is the
  highest of the places asked for. It needs what the edits leave of the list: `RemovedAt` and
  `RemovedFirst` (one element goes, another equal to it stays), `WithoutElement` (all of them go),
  `LeftAlone` (when the empty element is left alone and the default directories are lost with it),
  `EditedElements`, then `PlacesAreFound`, that the elements of the edited list find exactly the places
  the caller asked for. Assumption: the flags, the empty element and `NotFound` are not directories.
* `PyAuditProofs`. `LoadsOnlyHigher`, for any number of threads: a thread about to load has compared the
  shipped version with the system's, and neither changes once threads run. `TypeCorrect`: among the
  types is the number of hooks, bounded because each package takes its directory off `sys.path`
  (`HooksCounted`). `TwoCopiesAtMost`, for any number of threads: the system's copy and one shipped one.
  `OneCopyInOneThread` and `ProtectedInOneThread` (`OneCopy`, `ProtectedOrTold`) for one thread, a
  hypothesis of the theorems: between the probe and what it decides nothing is mapped
  (`NothingMapped`), and a library that is examined because it is loaded is the one that serves
  (`ExaminesServing`). With two threads both facts fail, as `pyaudit_race` shows of its property.
  Assumptions: `PyAssumption` (types; finitely many packages; something to import).
* `VerdefProofs`. The two readers of `.gnu.version_d`, for sections with any number of definitions and
  of names in each. Both are loops over a chain in the file. For the Python loops the argument names the
  whole run: the chain after `n` passes is where definition `n + 1` is with the first `n` yielded
  (`AuxiliariesRead`, `IterVersions`), so `PythonReadsHighest`. The C loop has no such form, as it may
  end the process in any pass; there a run exists because each pass keeps the types (`AuxiliariesRun`,
  `DefinitionsRun`), and induction over it says that it has ended if an entry read so far was not
  mapped or its name outside the file, and has found the versions at those places if not
  (`DefinitionFound`, `CReadsSection`). It also needs that a section has no more definitions than bytes (`NoMoreThanBytes`). With the walk of the
  section headers this is `CReadsFile`, a formula for what `get_libstdcxx_version` returns, its wrong
  stride included. Nothing but the first entry of a definition is compared with the length of the file,
  so the formula has the fault as well as the abort. From the two formulas: `CNeverBelowPython`; `ReadersAgreeUnlessStray`, with a
  condition that is necessary and sufficient; `ReadersAgreeWithoutParents`. `StrayWithinChain` computes
  where the stride leads in a section without gaps, always into the file, and `LastTwoDecide` concludes that one string of
  `.dynstr` and the last two definitions decide. The hypotheses say that the file is open and of the
  loader's class (`IsOpen`, `IsNative`), that one section has version definitions (`OnlySection`) and is
  laid out as its header says (`LaidOut`), and for some theorems that each parent is defined too
  (`ParentsDefined`) and that there are no gaps (`WithoutGaps`). TLC evaluates all of them on every such
  image of `pyelf_reading` (`ImagesAreLaidOut`), and that the C reader goes astray harmlessly in some
  and not in others (`StraysBothWays`).
* `FixedWidthProofs`. Integers in fields of every width, where `pyelf_formats` has fields of a byte or
  two. `NumberCut` and `CellsAgain` are the core, for every base: the loop that takes the cells off a
  number leaves quotients (`IsRests`), the loop that adds the cells up passes through sums
  (`IsNumbers`), and after `k` cells the quotient left is the last one times the `k`-th power plus the
  sum. So a number becomes itself modulo the width, a negative one too, and cells become themselves.
  `SwappedBack` carries that over to both byte orders (`FieldHolds`, `FieldAgain`), `ComplementFits` and
  `ComplementOf` to signed fields: `PackUnpack` and `UnpackPack` for `struct`. `bin_to_int` decides by
  the first bit where `struct.unpack` compares with half the range; `FirstBit` says that it is the same,
  hence `BitsOfInteger` and `IntegerOfBits`. Without the hypothesis that the integer is in range
  `struct.pack` raises, and `int_to_bin` trims (`TooWideIsTrimmed`).
* `InductionFacts`. The induction theorems of the library take an operator, which the provers cannot
  instantiate. From its well-foundedness of `<` they do prove that a set of numbers has a least
  element, and from that induction over sets (`ByInduction`, `ByInductionUpTo`) and the existence of
  the functions that model loops (`LoopRuns`). The modules whose data is read by recursive functions
  rest on it: `GlibcxxVersionProofs`, `FindHighestProofs`, `PyAuditProofs`, `VerdefProofs`
  and `FixedWidthProofs`.

Only model-checked: every property of the construct library, the formats and the readers of
`ReaderUse`, whose methods call each other through `RECURSIVE` operators, which the prover does not
accept. Of `RoundTrip` and `RelocationsLand` the part below those operators is proved, what one integer
field writes and reads again (`FixedWidthProofs`). In `CAndPythonAgree` the Python side is asked through
the whole reader, by way of its sections; its core, the two walks of one section, is what `VerdefProofs`
is about, and there is more of it: the property lets the C reader end the process wherever there is a parent, the
theorems say when it does. Also only model-checked: `StartsWithBoth`, `ChainEnds` and `EveryLoadEnds`, since liveness under
fairness is beyond the prover; and the properties the violation runs refute, which are false.

## Not modelled

* In `AuditLib` a file is seen through the answers of the version reader; that reader itself is in
  `VerdefReaders` and the two are not composed.
* A file replaced between `la_objsearch` and ld.so's own open.
* The other `la_` hooks, which only trace.
* CMake targets and generator expressions: declarations without behaviour.
* The copy of the executable's path when it fills a page exactly: what is read behind it is up to the
  kernel's mappings.
* `elf/descriptions.py` and `dwarf/descriptions.py`: text for a display.
* The readers of DWARF and EHABI data (`dwarfinfo.py`, `callframe.py`, `die.py`, `lineprogram.py`, ...
  and `ehabi/`). The hook never reaches them; their formats are modelled, and which sections
  `get_dwarf_info` hands over.
* The type numbers inside the relocation information of MIPS64 files.
* In the construct library: floating-point fields, `HexDumpAdapter`, the debug classes, `repr` and
  pickling; zlib is external. Embedding is modelled for structures and for switches between them, the
  only uses.
* The unit tests.

## Plan

1. `AuditLib`, `LdSo`, `LibstdcxxChoice`: the core. Done, with proofs.
2. `GlibcxxVersion`, `DtPathSearch`: the pure parts it rests on. Done, with proofs.
3. `PyAudit`: threads and failures of the hook. Done; its safety proved, what holds of one thread only
   under that hypothesis.
4. `ShippedSearch`: the dynamic section and the two searches. `FindHighest`: the CMake search and the
   command. `LdSoChoice`: the implementation of `LibstdcxxChoice` by `LdSo`. Done, with proofs.
5. `ConstructCore` and the formats. Done, model-checked.
6. `ElfFile`, `ElfTables`, `ElfRelocation`: the ELF reader. Done, model-checked.
7. `GnuVersions`, `VerdefReaders`, `VerdefLayout`: the two version readers. Done, with proofs.
8. `FixedWidth`: integer fields of every width. Done, with proofs.
9. Left: the adapters over strings and mappings as lemmas of the same kind; the DWARF readers
   (abbreviation cache, line program machine, call frames).
