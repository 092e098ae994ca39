--------------------------- MODULE DependencyRules ---------------------------
(***************************************************************************)
(* A workspace whose dependency rules are declared one by one, while its   *)
(* imports change.                                                         *)
(***************************************************************************)
EXTENDS DependencySection

CONSTANTS
    Codes,          \* sets of imports that the workspace may have
    Apis,           \* lists of public API patterns given to define-feature
    MaxEntries      \* bound on the entries of the section

ASSUME DependencyAssumption ==
    /\ {Wild, "api"} \subseteq Segment
    /\ Pattern \subseteq Seq(Segment) \ {<<>>}
    /\ Module \subseteq Seq(Segment) \ {<<>>}
    /\ Path \subseteq Seq(Segment) \ {<<>>}
    /\ Codes \subseteq SUBSET Import
    /\ Apis \subseteq Seq(Pattern)

VARIABLES
    section,    \* DG section of the lockfile
    imports     \* imports of the workspace

vars == <<section, imports>>

TypeOK == section \in DgSection /\ imports \subseteq Import

Init ==
    /\ section = EmptySection
    /\ imports \in Codes

Entries == Len(section.forbidden_edges) + Len(section.features) + Len(section.shared_paths)

\* locus dg forbid-edge
ForbidEdgeCmd(from, to, force) ==
    /\ CanForbidEdge(section, from, to, force)
    /\ section' = ForbidEdge(section, from, to)
    /\ Entries' <= MaxEntries
    /\ UNCHANGED imports

\* locus dg define-feature
DefineFeatureCmd(name, module, api, force) ==
    /\ CanDefineFeature(section, name, module, force)
    /\ section' = DefineFeature(section, name, module, api)
    /\ Entries' <= MaxEntries
    /\ UNCHANGED imports

\* locus dg add-shared-path
AddSharedPathCmd(pattern) ==
    /\ CanAddSharedPath(pattern)
    /\ section' = AddSharedPath(section, pattern)
    /\ Entries' <= MaxEntries
    /\ UNCHANGED imports

\* Any of these commands without --force.
Declare ==
    \/ \E from, to \in Pattern : ForbidEdgeCmd(from, to, FALSE)
    \/ \E name \in Name, module \in Pattern, api \in Apis : DefineFeatureCmd(name, module, api, FALSE)
    \/ \E pattern \in Pattern : AddSharedPathCmd(pattern)

\* The developer pastes a command that `locus init` suggests for a feature.
FollowWith(name, i, api) ==
    /\ i \in Named(section, name) /\ \A j \in Named(section, name) : i <= j
    /\ DefineFeatureCmd(name, section.features[i].module, api, TRUE)
    /\ name \in Suggested(section, imports)
    /\ ~Panics(section, imports)

Narrow(name) ==
    \E i \in DOMAIN section.features :
        FollowWith(name, i, <<ApiSeed(section.features[i].module)>>)

Widen(name) ==
    \E i \in DOMAIN section.features : FollowWith(name, i, <<section.features[i].module>>)

ChangeCode ==
    /\ imports' \in Codes
    /\ UNCHANGED section

Next ==
    \/ Declare
    \/ \E from, to \in Pattern : ForbidEdgeCmd(from, to, TRUE)
    \/ \E name \in Name, module \in Pattern, api \in Apis : DefineFeatureCmd(name, module, api, TRUE)
    \/ \E name \in Name : Narrow(name) \/ Widen(name)
    \/ ChangeCode

Spec == Init /\ [][Next]_vars

-----------------------------------------------------------------------------
(* Properties *)

\* No command, forced or not, leaves two features of one name, or an edge or a
\* shared path twice: what is looked up by name is the only one.
EntriesUnique ==
    /\ \A i, j \in DOMAIN section.forbidden_edges :
           section.forbidden_edges[i] = section.forbidden_edges[j] => i = j
    /\ \A i, j \in DOMAIN section.features :
           section.features[i].name = section.features[j].name => i = j
    /\ \A i, j \in DOMAIN section.shared_paths :
           section.shared_paths[i] = section.shared_paths[j] => i = j

\* A declaration without --force takes no finding away, although features and
\* shared paths go by first match.
DeclaringNeverHides ==
    [][\/ \A rule \in {"DG001", "DG003", "DG004"} :
            Findings(section, imports)[rule] \subseteq Findings(section', imports)[rule]
       \/ Declare => Panics(section', imports)]_vars

\* DG003 findings that reach into the feature of that name.
Into(name) ==
    {m \in imports : \E target \in Named(section, name) : ReachesInto(section, m, target)}

\* The suggestion, which walks the imports on its own, speaks of the findings
\* that DG003 makes: three or more into a feature without an API.
SuggestionSpeaksOfFindings ==
    \A name \in Name :
        name \in Suggested(section, imports) <=>
            /\ \A i \in Named(section, name) : section.features[i].public_api = <<>>
            /\ Cardinality(Into(name)) >= COLLAPSE_THRESHOLD

\* To follow a suggestion settles it: it is not made again, the wide option takes
\* away the findings into that feature and no others, the narrow one some of them.
FollowingSettles ==
    [][\A name \in Name :
        LET before == Findings(section, imports)
            after  == Findings(section', imports)
        IN  /\ Narrow(name) \/ Widen(name) =>
                /\ name \notin Suggested(section', imports)
                /\ after.DG001 = before.DG001 /\ after.DG004 = before.DG004
                /\ after.DG003 \subseteq before.DG003
                /\ before.DG003 \ Into(name) \subseteq after.DG003
            /\ Widen(name) => after.DG003 = before.DG003 \ Into(name)]_vars

\* "All operations validate the inputs": what the commands accepted does not abort
\* the check.
AcceptedNeverPanics == ~Panics(section, imports)
=============================================================================
