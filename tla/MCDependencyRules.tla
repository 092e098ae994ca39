-------------------------- MODULE MCDependencyRules --------------------------
(***************************************************************************)
(* Two or three features on the modules of two crates, one of which has    *)
(* an API; patterns that overlap, and those that are malformed.            *)
(***************************************************************************)
EXTENDS DependencyRules, TLC

CONSTANT Names     \* names that are not empty

A == <<"a", "*">>
B == <<"b", "*">>

MCPattern == {A, B, <<"*">>, <<"*", "*">>, <<"">>}
MCName    == Names \cup {NoName}
Symmetry  == Permutations(Names)
MCModule  == {<<"a", "x">>, <<"b">>}
MCPath    == {<<"b">>, <<"b", "x">>, <<"b", "api", "x">>, <<"a", "x">>}
MCApis    == {<<>>, <<B>>}

From(module, paths) == {[module |-> module, path |-> path] : path \in paths}

MCCodes == {
    From(<<"a", "x">>, {<<"b">>, <<"b", "x">>, <<"b", "api", "x">>}) \cup From(<<"b">>, {<<"a", "x">>}),
    From(<<"b">>, {<<"a", "x">>, <<"b", "x">>})}
=============================================================================
