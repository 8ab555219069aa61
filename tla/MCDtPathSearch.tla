--------------------------- MODULE MCDtPathSearch ---------------------------
(***************************************************************************)
(* Lists of up to three sections for ShippedSearch and the DtPathSearch it *)
(* calls: empty, with and without "$ORIGIN", shorter and longer than       *)
(* "/libstdc++.so.6" and than the executable's directory.                  *)
(***************************************************************************)
EXTENDS ShippedSearch

SomeSections ==
    [origin : BOOLEAN, rest : {0, 1, 20, 40}, opens : BOOLEAN]

\* Programs without and with a dynamic section, its entries in every order.
SomeExecutables ==
    {[phdr |-> p, dynamic |-> d] :
        p \in {<<"PT_LOAD">>, <<"PT_PHDR", "PT_LOAD", "PT_DYNAMIC">>},
        d \in UNION {[1 .. n -> DynamicTag] : n \in 0 .. 3}}
=============================================================================
