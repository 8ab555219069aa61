-------------------------------- MODULE MCLdSo --------------------------------
(***************************************************************************)
(* Instances of LdSoChoice for TLC.                                        *)
(***************************************************************************)
EXTENDS LdSoChoice

\* The candidate of the application's directory, one of LD_LIBRARY_PATH, one of
\* the cache or a system directory, and a file of another name.
CONSTANTS ship, user, sys, other

NamedLoc    == {ship, user, sys}
AllLoc      == {ship, user, sys, other}
AnyDtPath   == {<<>>, <<ship>>, <<sys, ship>>}
OwnDtPath   == {<<>>, <<ship>>}
UserPath    == <<user>>
SystemPath  == <<sys>>
MixedPath   == <<user, sys>>
NoPath      == <<>>
=============================================================================
