-------------------------- MODULE DependencySection --------------------------
(***************************************************************************)
(* The DG section of the lockfile, the commands that declare in it, the    *)
(* rules DG001, DG003 and DG004 that read it, and the suggestion that      *)
(* `locus init` makes of many DG003 findings.                              *)
(*                                                                         *)
(* The reason of a forbidden edge is text for the reader and left out.     *)
(***************************************************************************)
EXTENDS ModulePatterns, FiniteSets

CONSTANTS
    Segment,    \* texts between `::`
    Pattern,    \* patterns given to commands
    Name,       \* names of features
    Module,     \* module paths of the files
    Path        \* paths that imports may name

NoName == ""

Edge    == [from : Pattern, to : Pattern]
Feature == [name : Name, module : Seq(Segment), public_api : Seq(Seq(Segment))]
Import  == [module : Module, path : Path]

DgSection == [forbidden_edges : Seq(Edge), features : Seq(Feature), shared_paths : Seq(Pattern)]

EmptySection == [forbidden_edges |-> <<>>, features |-> <<>>, shared_paths |-> <<>>]

-----------------------------------------------------------------------------
(* The commands: what they refuse, and the section they make *)

HasEdge(s, from, to) ==
    \E i \in DOMAIN s.forbidden_edges : s.forbidden_edges[i] = [from |-> from, to |-> to]

CanForbidEdge(s, from, to, force) ==
    /\ from # Empty
    /\ to # Empty
    /\ HasEdge(s, from, to) => force

\* Forcing an edge that is there changes its reason only.
ForbidEdge(s, from, to) ==
    IF HasEdge(s, from, to) THEN s
    ELSE [s EXCEPT !.forbidden_edges = Append(@, [from |-> from, to |-> to])]

Named(s, name) == {i \in DOMAIN s.features : s.features[i].name = name}

CanDefineFeature(s, name, module, force) ==
    /\ name # NoName
    /\ module # Empty
    /\ Named(s, name) # {} => force

\* Slips of DefineFeature: a new feature is put first, ...
MutPutsFirst(s, name, module, api) ==
    IF Named(s, name) = {}
    THEN [s EXCEPT !.features =
            <<[name |-> name, module |-> module, public_api |-> api]>> \o @]
    ELSE s

\* ... or --force removes the old feature and appends the new one.
MutMovesLast(s, name, module, api) ==
    LET feature == [name |-> name, module |-> module, public_api |-> api]
        IsOther(f) == f.name # name
    IN  [s EXCEPT !.features = Append(SelectSeq(@, IsOther), feature)]

DefineFeature(s, name, module, api) ==
    LET feature == [name |-> name, module |-> module, public_api |-> api]
        IsFirstNamed(i) == i \in Named(s, name) /\ \A j \in Named(s, name) : i <= j
    IN  IF Named(s, name) = {}
        THEN [s EXCEPT !.features = Append(@, feature)]
        ELSE [s EXCEPT !.features =
                [i \in DOMAIN s.features |-> IF IsFirstNamed(i) THEN feature ELSE s.features[i]]]

CanAddSharedPath(pattern) == pattern # Empty

\* A slip of AddSharedPath: the pattern is stored without its wildcards.
MutStores(s, pattern) == [s EXCEPT !.shared_paths = Append(@, Stripped(pattern))]

AddSharedPath(s, pattern) ==
    IF \E i \in DOMAIN s.shared_paths : s.shared_paths[i] = pattern THEN s
    ELSE [s EXCEPT !.shared_paths = Append(@, pattern)]

-----------------------------------------------------------------------------
(* The rules *)

FeatureModules(s) == [i \in DOMAIN s.features |-> s.features[i].module]

\* The feature that a path belongs to.
Owns(s, i, path) == IsFirst(FeatureModules(s), path, i)

Forbids(edge, import) == Matches(edge.from, import.module) /\ Matches(edge.to, import.path)

\* One finding for an import, however many edges forbid it.
DG001(s, imports) ==
    {m \in imports : \E i \in DOMAIN s.forbidden_edges : Forbids(s.forbidden_edges[i], m)}

\* The import goes from one feature to another and is none of its public API.
ReachesInto(s, import, target) ==
    /\ Len(s.features) >= 2
    /\ \E i \in DOMAIN s.features : i # target /\ Owns(s, i, import.module)
    /\ Owns(s, target, import.path)
    /\ ~AnyMatches(s.features[target].public_api, import.path)

DG003(s, imports) ==
    {m \in imports : \E target \in DOMAIN s.features : ReachesInto(s, m, target)}

DG004(s, imports) ==
    {m \in imports :
        /\ AnyMatches(s.shared_paths, m.module)
        /\ \E target \in DOMAIN s.features : Owns(s, target, m.path)}

Findings(s, imports) ==
    [DG001 |-> DG001(s, imports), DG003 |-> DG003(s, imports), DG004 |-> DG004(s, imports)]

-----------------------------------------------------------------------------
(* Where a rule panics: the patterns are tried in order, as far as needed *)

EdgesPanic(s, imports) ==
    \E m \in imports, i \in DOMAIN s.forbidden_edges :
        LET edge == s.forbidden_edges[i]
        IN  /\ \A j \in DOMAIN s.forbidden_edges : j < i => ~Forbids(s.forbidden_edges[j], m)
            /\ \/ Unsliceable(edge.from)
               \/ Matches(edge.from, m.module) /\ Unsliceable(edge.to)

OwnerPanics(s, path) == SearchPanics(FeatureModules(s), path)

FeaturesPanic(s, imports) ==
    /\ Len(s.features) >= 2
    /\ \/ \E module \in Module : OwnerPanics(s, module)
       \/ \E m \in imports, i \in DOMAIN s.features :
            /\ Owns(s, i, m.module)
            /\ \/ OwnerPanics(s, m.path)
               \/ \E target \in DOMAIN s.features :
                    /\ i # target
                    /\ Owns(s, target, m.path)
                    /\ SearchPanics(s.features[target].public_api, m.path)

SharedPanics(s, imports) ==
    /\ s.features # <<>>
    /\ \/ \E module \in Module : SearchPanics(s.shared_paths, module)
       \/ \E m \in imports : AnyMatches(s.shared_paths, m.module) /\ OwnerPanics(s, m.path)

Panics(s, imports) ==
    EdgesPanic(s, imports) \/ FeaturesPanic(s, imports) \/ SharedPanics(s, imports)

-----------------------------------------------------------------------------
(* The suggestion of `locus init` *)

COLLAPSE_THRESHOLD == 3

\* A slip of ReachesByName: imports within the feature count as well.
MutCountsOwn(s, imports, name) ==
    {m \in imports :
        \E i, target \in DOMAIN s.features :
            /\ Owns(s, i, m.module)
            /\ Owns(s, target, m.path)
            /\ s.features[target].public_api = <<>>
            /\ s.features[target].name = name}

\* Imports that reach into a feature of that name without a public API.
ReachesByName(s, imports, name) ==
    {m \in imports :
        \E i, target \in DOMAIN s.features :
            /\ Owns(s, i, m.module)
            /\ Owns(s, target, m.path)
            /\ i # target
            /\ s.features[target].public_api = <<>>
            /\ s.features[target].name = name}

Suggested(s, imports) ==
    {name \in Name :
        /\ Len(s.features) >= 2
        /\ Cardinality(ReachesByName(s, imports, name)) >= COLLAPSE_THRESHOLD}

\* The API a suggestion starts with: "a::*" gives "a::api::*".
ApiSeed(module) ==
    IF TrailingWild(module)
    THEN SubSeq(module, 1, Len(module) - 1) \o <<"api", Wild>>
    ELSE module
=============================================================================
