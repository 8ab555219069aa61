-------------------------- MODULE MCGlibcxxVersion --------------------------
(***************************************************************************)
(* Names for GlibcxxVersion: one to four parts, at and around the values   *)
(* where clamping, packing and the 32-bit accumulator change what is read. *)
(* Machines and lists of directories for FindHighest, which compares the   *)
(* versions so read.  The readers and the search share no state: a         *)
(* behaviour runs either.                                                  *)
(***************************************************************************)
EXTENDS GlibcxxVersion, FindHighest

\* 2^32 - 1, and 2^32 + 3, of which a uint32_t keeps 3.
Below2Pow32 == <<4, 2, 9, 4, 9, 6, 7, 2, 9, 5>>
Past2Pow32  == <<4, 2, 9, 4, 9, 6, 7, 2, 9, 9>>

PartsOf(S, n) == UNION {[1 .. k -> S] : k \in 1 .. n}

\* What either grammar accepts or rejects: fields at the limits, empty parts,
\* trailing characters, a fourth part.
OddParts == {<<>>, <<2, 5, 5>>, <<2, 5, 6>>, Below2Pow32, Past2Pow32}
OddNames ==
    {[parts |-> ps, junk |-> j] : ps \in PartsOf(OddParts, 2), j \in BOOLEAN}
      \cup {[parts |-> <<<<3>>, <<4>>, <<3, 0>>, p>>, junk |-> FALSE] : p \in OddParts}

\* The names of a real file: GLIBCXX_3.4, GLIBCXX_3.4.9, GLIBCXX_LDBL_3.4 ...
FileParts == {<<3>>, <<4>>, <<9>>, <<3, 0>>, <<2, 5, 5>>}
FileNames ==
    {[parts |-> ps, junk |-> FALSE] : ps \in PartsOf(FileParts, 3)}
      \cup {[parts |-> <<<<>>>>, junk |-> TRUE]}

AllNames == OddNames \cup FileNames

-----------------------------------------------------------------------------
\* Two directories a user gives and the compiler's.
UserA == "a"
UserB == "b"
Gcc   == "gcc"
Three == {UserA, UserB, Gcc}

Success(n) == [error |-> "ec_success", version |-> n]
Unread == [error |-> "ec_non_fatal_error", version |-> 0]

\* Equal, lower and higher versions; version 0; a file of another class; a
\* directory without the library.
FilesFound ==
    {[d \in Three |-> IF d = UserA THEN x ELSE IF d = UserB THEN y ELSE z] :
        x \in {Success(1), Success(2)}, y \in {Success(2), Unread},
        z \in {Success(n) : n \in 0 .. 2}}
      \cup {[d \in {UserA, Gcc} |-> Success(IF d = Gcc THEN n ELSE 1)] : n \in 1 .. 2}

\* The compiler is GNU and prints its path, or nothing, or it is another.
Installations ==
    {[files |-> files, default |-> d, gnu |-> c # "other",
      prints |-> IF c = "silent" THEN NotFound ELSE Gcc] :
        files \in FilesFound, d \in {UserA, Gcc, NotFound},
        c \in {"gnu", "silent", "other"}}

\* Every list of up to two elements, and of three with a flag among two others.
Lists ==
    (UNION {[1 .. n -> Element] : n \in 0 .. 2} \ {<<Empty>>})
      \cup {l \in [1 .. 3 -> Element] :
               /\ {l[k] : k \in 1 .. 3} \cap {NoDefaultPath, NoCompilerPath} # {}
               /\ {UserA, Gcc} \cap {l[k] : k \in 1 .. 3} # {}}

BothInit == Init /\ SearchInit

NextVersion == stage = "idle" /\ Next /\ UNCHANGED searchVars
NextSearch  == seen = <<>> /\ SearchNext /\ UNCHANGED vars

VersionsAndSearch ==
    BothInit /\ [][NextVersion \/ NextSearch]_<<vars, searchVars>>
=============================================================================
