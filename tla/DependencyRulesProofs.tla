------------------------ MODULE DependencyRulesProofs ------------------------
(***************************************************************************)
(* Features and shared paths go by first match, and commands append or     *)
(* replace in place.  So an earlier entry keeps its place: what belongs to *)
(* a feature goes on belonging to it, and a declaration without --force    *)
(* can only add findings.  A suggestion replaces the API of the one        *)
(* feature of its name, and changes nothing else.                          *)
(***************************************************************************)
EXTENDS DependencyRules, FiniteSetTheorems, TLAPS

Inv == TypeOK /\ EntriesUnique

\* Every list of s is the beginning of that of t.
Grows(s, t) ==
    /\ \A i \in DOMAIN s.forbidden_edges :
           i \in DOMAIN t.forbidden_edges /\ t.forbidden_edges[i] = s.forbidden_edges[i]
    /\ \A i \in DOMAIN s.features :
           i \in DOMAIN t.features /\ t.features[i] = s.features[i]
    /\ \A i \in DOMAIN s.shared_paths :
           i \in DOMAIN t.shared_paths /\ t.shared_paths[i] = s.shared_paths[i]

-----------------------------------------------------------------------------
(* The commands *)

\* forbid-edge adds an edge that was not there, or nothing.
LEMMA ForbidEdgeFacts ==
    ASSUME NEW s \in DgSection, NEW from \in Pattern, NEW to \in Pattern
    PROVE  LET t == ForbidEdge(s, from, to)
           IN  /\ t \in DgSection
               /\ Grows(s, t)
               /\ t.features = s.features /\ t.shared_paths = s.shared_paths
               /\ \/ t.forbidden_edges = s.forbidden_edges
                  \/ /\ t.forbidden_edges = Append(s.forbidden_edges, [from |-> from, to |-> to])
                     /\ ~HasEdge(s, from, to)
<1> DEFINE t == ForbidEdge(s, from, to)
           edge == [from |-> from, to |-> to]
<1> edge \in Edge
    BY DEF Edge
<1>1. CASE HasEdge(s, from, to)
    BY <1>1 DEF ForbidEdge, Grows
<1>2. CASE ~HasEdge(s, from, to)
    <2>1. t = [s EXCEPT !.forbidden_edges = Append(@, edge)]
        BY <1>2 DEF ForbidEdge
    <2> Append(s.forbidden_edges, edge) \in Seq(Edge)
        BY DEF DgSection
    <2>2. t \in DgSection
        BY <2>1 DEF DgSection
    <2>3. /\ t.forbidden_edges = Append(s.forbidden_edges, edge)
          /\ t.features = s.features
          /\ t.shared_paths = s.shared_paths
        BY <2>1 DEF DgSection
    <2>4. \A i \in DOMAIN s.forbidden_edges :
              i \in DOMAIN t.forbidden_edges /\ t.forbidden_edges[i] = s.forbidden_edges[i]
        BY <2>3 DEF DgSection
    <2> QED BY <1>2, <2>2, <2>3, <2>4 DEF Grows
<1> QED BY <1>1, <1>2

\* add-shared-path adds a pattern that was not there, or nothing.
LEMMA AddSharedPathFacts ==
    ASSUME NEW s \in DgSection, NEW pattern \in Pattern
    PROVE  LET t == AddSharedPath(s, pattern)
           IN  /\ t \in DgSection
               /\ Grows(s, t)
               /\ t.features = s.features /\ t.forbidden_edges = s.forbidden_edges
               /\ \/ t.shared_paths = s.shared_paths
                  \/ /\ t.shared_paths = Append(s.shared_paths, pattern)
                     /\ \A i \in DOMAIN s.shared_paths : s.shared_paths[i] # pattern
<1> DEFINE t == AddSharedPath(s, pattern)
           known == \E i \in DOMAIN s.shared_paths : s.shared_paths[i] = pattern
<1>1. CASE known
    BY <1>1 DEF AddSharedPath, Grows
<1>2. CASE ~known
    <2>1. t = [s EXCEPT !.shared_paths = Append(@, pattern)]
        BY <1>2 DEF AddSharedPath
    <2> Append(s.shared_paths, pattern) \in Seq(Pattern)
        BY DEF DgSection
    <2>2. t \in DgSection
        BY <2>1 DEF DgSection
    <2>3. /\ t.shared_paths = Append(s.shared_paths, pattern)
          /\ t.features = s.features
          /\ t.forbidden_edges = s.forbidden_edges
        BY <2>1 DEF DgSection
    <2>4. \A i \in DOMAIN s.shared_paths :
              i \in DOMAIN t.shared_paths /\ t.shared_paths[i] = s.shared_paths[i]
        BY <2>3 DEF DgSection
    <2> QED BY <1>2, <2>2, <2>3, <2>4 DEF Grows
<1> QED BY <1>1, <1>2

\* define-feature appends a feature of a new name.
LEMMA NewFeatureFacts ==
    ASSUME NEW s \in DgSection, NEW name \in Name,
           NEW module \in Seq(Segment), NEW api \in Seq(Seq(Segment)),
           Named(s, name) = {}
    PROVE  LET t == DefineFeature(s, name, module, api)
           IN  /\ t \in DgSection
               /\ Grows(s, t)
               /\ t.forbidden_edges = s.forbidden_edges /\ t.shared_paths = s.shared_paths
               /\ t.features =
                    Append(s.features, [name |-> name, module |-> module, public_api |-> api])
<1> DEFINE t == DefineFeature(s, name, module, api)
           feature == [name |-> name, module |-> module, public_api |-> api]
<1> feature \in Feature
    BY DEF Feature
<1>1. t = [s EXCEPT !.features = Append(@, feature)]
    BY DEF DefineFeature
<1> Append(s.features, feature) \in Seq(Feature)
    BY DEF DgSection
<1>2. t \in DgSection
    BY <1>1 DEF DgSection
<1>3. /\ t.features = Append(s.features, feature)
      /\ t.shared_paths = s.shared_paths
      /\ t.forbidden_edges = s.forbidden_edges
    BY <1>1 DEF DgSection
<1>4. \A i \in DOMAIN s.features :
          i \in DOMAIN t.features /\ t.features[i] = s.features[i]
    BY <1>3 DEF DgSection
<1> QED BY <1>2, <1>3, <1>4 DEF Grows

\* define-feature replaces in its place the one feature of a name that is there.
LEMMA ForcedFeatureFacts ==
    ASSUME NEW s \in DgSection, NEW name \in Name,
           NEW module \in Seq(Segment), NEW api \in Seq(Seq(Segment)),
           NEW i \in DOMAIN s.features, Named(s, name) = {i}
    PROVE  LET t == DefineFeature(s, name, module, api)
           IN  /\ t \in DgSection
               /\ t.forbidden_edges = s.forbidden_edges /\ t.shared_paths = s.shared_paths
               /\ t.features = [s.features EXCEPT ![i] =
                                   [name |-> name, module |-> module, public_api |-> api]]
<1> DEFINE t == DefineFeature(s, name, module, api)
           feature == [name |-> name, module |-> module, public_api |-> api]
           replaced == [s.features EXCEPT ![i] = feature]
<1> feature \in Feature
    BY DEF Feature
<1>1. s.features \in Seq(Feature) /\ i \in DOMAIN s.features
    BY DEF DgSection
<1>2. replaced \in Seq(Feature)
    BY <1>1
<1>3. i \in Named(s, name) /\ i <= i
    BY <1>1
<1>4. t = [s EXCEPT !.features = replaced]
    <2>1. t = [s EXCEPT !.features =
                 [k \in DOMAIN s.features |->
                     IF k \in Named(s, name) /\ \A j \in Named(s, name) : k <= j
                     THEN feature ELSE s.features[k]]]
        BY <1>3 DEF DefineFeature
    <2>2. \A k \in DOMAIN s.features :
              (k \in Named(s, name) /\ \A j \in Named(s, name) : k <= j) <=> k = i
        BY <1>3
    <2>3. [k \in DOMAIN s.features |->
              IF k \in Named(s, name) /\ \A j \in Named(s, name) : k <= j
              THEN feature ELSE s.features[k]]
          = [k \in DOMAIN s.features |-> IF k = i THEN feature ELSE s.features[k]]
        BY <2>2
    <2>4. replaced = [k \in DOMAIN s.features |-> IF k = i THEN feature ELSE s.features[k]]
        BY <1>1
    <2> QED BY <2>1, <2>3, <2>4
<1>5. t \in DgSection
    BY <1>2, <1>4 DEF DgSection
<1> QED BY <1>4, <1>5 DEF DgSection

-----------------------------------------------------------------------------
(* The invariant *)

\* The empty section has its type and no two entries.
LEMMA InvInit == Init => Inv
<1> SUFFICES ASSUME Init PROVE Inv
    OBVIOUS
<1>1. section = EmptySection /\ imports \in SUBSET Import
    BY DependencyAssumption DEF Init
<1>2. EmptySection \in DgSection
    BY DEF EmptySection, DgSection
<1> QED BY <1>1, <1>2 DEF Inv, TypeOK, EntriesUnique, EmptySection

\* Each command keeps the section in its type, and its entries apart.
LEMMA ForbidEdgeStep ==
    ASSUME Inv, NEW from \in Pattern, NEW to \in Pattern, NEW force \in BOOLEAN,
           ForbidEdgeCmd(from, to, force)
    PROVE  Inv'
<1> section \in DgSection /\ imports \subseteq Import
    BY DEF Inv, TypeOK
<1>1. section' = ForbidEdge(section, from, to) /\ imports' = imports
    BY DEF ForbidEdgeCmd
<1>2. /\ section' \in DgSection
      /\ section'.features = section.features
      /\ section'.shared_paths = section.shared_paths
      /\ \/ section'.forbidden_edges = section.forbidden_edges
         \/ /\ section'.forbidden_edges = Append(section.forbidden_edges, [from |-> from, to |-> to])
            /\ ~HasEdge(section, from, to)
    BY <1>1, ForbidEdgeFacts
<1>3. \A i, j \in DOMAIN section'.forbidden_edges :
          section'.forbidden_edges[i] = section'.forbidden_edges[j] => i = j
    <2> section.forbidden_edges \in Seq(Edge)
        BY DEF DgSection
    <2> \A i, j \in DOMAIN section.forbidden_edges :
            section.forbidden_edges[i] = section.forbidden_edges[j] => i = j
        BY DEF Inv, EntriesUnique
    <2>1. CASE section'.forbidden_edges = section.forbidden_edges
        BY <2>1
    <2>2. CASE /\ section'.forbidden_edges
                    = Append(section.forbidden_edges, [from |-> from, to |-> to])
               /\ ~HasEdge(section, from, to)
        <3> DEFINE edge == [from |-> from, to |-> to]
        <3>1. \A i \in DOMAIN section.forbidden_edges : section.forbidden_edges[i] # edge
            BY <2>2 DEF HasEdge
        <3> HIDE DEF edge
        <3> QED BY <2>2, <3>1 DEF edge
    <2> QED BY <1>2, <2>1, <2>2
<1> QED BY <1>1, <1>2, <1>3 DEF Inv, TypeOK, EntriesUnique

\* The same for shared paths.
LEMMA AddSharedPathStep ==
    ASSUME Inv, NEW pattern \in Pattern, AddSharedPathCmd(pattern)
    PROVE  Inv'
<1> section \in DgSection /\ imports \subseteq Import
    BY DEF Inv, TypeOK
<1>1. section' = AddSharedPath(section, pattern) /\ imports' = imports
    BY DEF AddSharedPathCmd
<1>2. /\ section' \in DgSection
      /\ section'.features = section.features
      /\ section'.forbidden_edges = section.forbidden_edges
      /\ \/ section'.shared_paths = section.shared_paths
         \/ /\ section'.shared_paths = Append(section.shared_paths, pattern)
            /\ \A i \in DOMAIN section.shared_paths : section.shared_paths[i] # pattern
    BY <1>1, AddSharedPathFacts
<1>3. \A i, j \in DOMAIN section'.shared_paths :
          section'.shared_paths[i] = section'.shared_paths[j] => i = j
    <2> section.shared_paths \in Seq(Pattern)
        BY DEF DgSection
    <2> \A i, j \in DOMAIN section.shared_paths :
            section.shared_paths[i] = section.shared_paths[j] => i = j
        BY DEF Inv, EntriesUnique
    <2> QED BY <1>2
<1> QED BY <1>1, <1>2, <1>3 DEF Inv, TypeOK, EntriesUnique

\* The same for features, whose names stay apart.
LEMMA DefineFeatureStep ==
    ASSUME Inv, NEW name \in Name, NEW module \in Seq(Segment), NEW api \in Seq(Seq(Segment)),
           NEW force \in BOOLEAN, DefineFeatureCmd(name, module, api, force)
    PROVE  Inv'
<1> section \in DgSection /\ imports \subseteq Import
    BY DEF Inv, TypeOK
<1> DEFINE feature == [name |-> name, module |-> module, public_api |-> api]
<1> feature \in Feature /\ feature.name = name
    BY DEF Feature
<1> section.features \in Seq(Feature)
    BY DEF DgSection
<1>u. \A i, j \in DOMAIN section.features :
          section.features[i].name = section.features[j].name => i = j
    BY DEF Inv, EntriesUnique
<1>1. section' = DefineFeature(section, name, module, api) /\ imports' = imports
    BY DEF DefineFeatureCmd
<1>2. CASE Named(section, name) = {}
    <2>1. /\ section' \in DgSection
          /\ section'.forbidden_edges = section.forbidden_edges
          /\ section'.shared_paths = section.shared_paths
          /\ section'.features = Append(section.features, feature)
        BY <1>1, <1>2, NewFeatureFacts
    <2>2. \A i \in DOMAIN section.features : section.features[i].name # name
        BY <1>2 DEF Named
    <2>3. \A i, j \in DOMAIN section'.features :
              section'.features[i].name = section'.features[j].name => i = j
        BY <1>u, <2>1, <2>2
    <2> QED BY <1>1, <2>1, <2>3 DEF Inv, TypeOK, EntriesUnique
<1>3. CASE Named(section, name) # {}
    <2>1. PICK i : i \in Named(section, name)
        BY <1>3
    <2>2. i \in DOMAIN section.features /\ section.features[i].name = name
        BY <2>1 DEF Named
    <2>3. Named(section, name) = {i}
        BY <1>u, <2>2 DEF Named
    <2>4. /\ section' \in DgSection
          /\ section'.forbidden_edges = section.forbidden_edges
          /\ section'.shared_paths = section.shared_paths
          /\ section'.features = [section.features EXCEPT ![i] = feature]
        <3> DEFINE t == DefineFeature(section, name, module, api)
        <3>1. /\ t \in DgSection
              /\ t.forbidden_edges = section.forbidden_edges
              /\ t.shared_paths = section.shared_paths
              /\ t.features = [section.features EXCEPT ![i] =
                                  [name |-> name, module |-> module, public_api |-> api]]
            BY <2>2, <2>3, ForcedFeatureFacts
        <3> QED BY <1>1, <3>1
    <2>5. \A j \in DOMAIN section'.features :
              j \in DOMAIN section.features /\ section'.features[j].name = section.features[j].name
        BY <2>2, <2>4
    <2>6. \A j, k \in DOMAIN section'.features :
              section'.features[j].name = section'.features[k].name => j = k
        BY <1>u, <2>5
    <2> QED BY <1>1, <2>4, <2>6 DEF Inv, TypeOK, EntriesUnique
<1> QED BY <1>2, <1>3

\* The patterns and API lists that commands take are sequences of segments.
LEMMA Arguments ==
    /\ Pattern \subseteq Seq(Segment)
    /\ Apis \subseteq Seq(Seq(Segment))
<1>1. Pattern \subseteq Seq(Segment) /\ Apis \subseteq Seq(Pattern)
    BY DependencyAssumption
<1> QED BY <1>1

\* A suggested command is define-feature for the one feature of that name.
LEMMA FollowFacts ==
    ASSUME Inv, NEW name \in Name, NEW i \in DOMAIN section.features, NEW api,
           FollowWith(name, i, api)
    PROVE  /\ i \in Named(section, name)
           /\ Named(section, name) = {i}
           /\ section.features[i].module \in Seq(Segment)
           /\ DefineFeatureCmd(name, section.features[i].module, api, TRUE)
           /\ name \in Suggested(section, imports)
<1>1. section.features \in Seq(Feature)
    BY DEF Inv, TypeOK, DgSection
<1>2. section.features[i] \in Feature
    BY <1>1
<1> QED BY <1>2 DEF FollowWith, Inv, EntriesUnique, Named, Feature

\* The API that a suggestion starts with is made of segments.
LEMMA SeedType ==
    ASSUME NEW module \in Seq(Segment)
    PROVE  ApiSeed(module) \in Seq(Segment)
<1>1. CASE TrailingWild(module)
    <2>1. PICK n \in Nat : n = Len(module)
        OBVIOUS
    <2>2. SubSeq(module, 1, n - 1) \in Seq(Segment)
        BY <2>1
    <2>3. <<"api", Wild>> \in Seq(Segment)
        BY DependencyAssumption DEF Wild
    <2> QED BY <1>1, <2>1, <2>2, <2>3 DEF ApiSeed
<1>2. CASE ~TrailingWild(module)
    BY <1>2 DEF ApiSeed
<1> QED BY <1>1, <1>2

\* The invariant is inductive.
LEMMA InvStep == Inv /\ [Next]_vars => Inv'
<1> SUFFICES ASSUME Inv, [Next]_vars PROVE Inv'
    OBVIOUS
<1> USE Arguments
<1>1. ASSUME NEW from \in Pattern, NEW to \in Pattern, NEW force \in BOOLEAN,
             ForbidEdgeCmd(from, to, force)
      PROVE  Inv'
    BY <1>1, ForbidEdgeStep
<1>2. ASSUME NEW name \in Name, NEW module \in Pattern, NEW api \in Apis, NEW force \in BOOLEAN,
             DefineFeatureCmd(name, module, api, force)
      PROVE  Inv'
    BY <1>2, DefineFeatureStep
<1>3. ASSUME NEW pattern \in Pattern, AddSharedPathCmd(pattern)
      PROVE  Inv'
    BY <1>3, AddSharedPathStep
<1>4. ASSUME NEW name \in Name, Narrow(name)
      PROVE  Inv'
    <2>1. PICK i \in DOMAIN section.features :
              FollowWith(name, i, <<ApiSeed(section.features[i].module)>>)
        BY <1>4 DEF Narrow
    <2>2. /\ section.features[i].module \in Seq(Segment)
          /\ DefineFeatureCmd(name, section.features[i].module,
                              <<ApiSeed(section.features[i].module)>>, TRUE)
        BY <2>1, FollowFacts
    <2>3. <<ApiSeed(section.features[i].module)>> \in Seq(Seq(Segment))
        BY <2>2, SeedType
    <2> QED BY <2>2, <2>3, DefineFeatureStep
<1>5. ASSUME NEW name \in Name, Widen(name)
      PROVE  Inv'
    <2>1. PICK i \in DOMAIN section.features :
              FollowWith(name, i, <<section.features[i].module>>)
        BY <1>5 DEF Widen
    <2>2. /\ section.features[i].module \in Seq(Segment)
          /\ DefineFeatureCmd(name, section.features[i].module,
                              <<section.features[i].module>>, TRUE)
        BY <2>1, FollowFacts
    <2>3. <<section.features[i].module>> \in Seq(Seq(Segment))
        BY <2>2
    <2> QED BY <2>2, <2>3, DefineFeatureStep
<1>6. CASE ChangeCode
    BY <1>6, DependencyAssumption DEF ChangeCode, Inv, TypeOK, EntriesUnique
<1>7. CASE UNCHANGED vars
    BY <1>7 DEF vars, Inv, TypeOK, EntriesUnique
<1> QED BY <1>1, <1>2, <1>3, <1>4, <1>5, <1>6, <1>7 DEF Next, Declare

\* Inv holds whatever is declared and forced.
LEMMA Invariance == Spec => []Inv
BY InvInit, InvStep, PTL DEF Spec

\* TypeOK: commands and suggestions keep the section in its type.
THEOREM TypeCorrect == Spec => []TypeOK
<1>1. Inv => TypeOK
    BY DEF Inv
<1> QED BY <1>1, Invariance, PTL

\* EntriesUnique: no sequence of commands, forced or not, leaves an edge, a name
\* of a feature or a shared path twice.
THEOREM NoDuplicates == Spec => []EntriesUnique
<1>1. Inv => EntriesUnique
    BY DEF Inv
<1> QED BY <1>1, Invariance, PTL

-----------------------------------------------------------------------------
(* Declarations add findings *)

\* What belongs to a feature goes on belonging to it as the list grows.
LEMMA OwnersStay ==
    ASSUME NEW s \in DgSection, NEW t \in DgSection, Grows(s, t),
           NEW i \in DOMAIN s.features, NEW path, Owns(s, i, path)
    PROVE  i \in DOMAIN t.features /\ Owns(t, i, path)
<1>1. s.features \in Seq(Feature) /\ t.features \in Seq(Feature)
    BY DEF DgSection
<1>2. \A j \in DOMAIN s.features : j \in DOMAIN t.features /\ t.features[j] = s.features[j]
    BY DEF Grows
<1>3. \A j \in DOMAIN t.features : j < i => j \in DOMAIN s.features
    BY <1>1, <1>2
<1> QED BY <1>2, <1>3 DEF Owns, IsFirst, FeatureModules

\* What a section finds, a longer one finds as well.
LEMMA FindingsGrow ==
    ASSUME NEW s \in DgSection, NEW t \in DgSection, Grows(s, t), NEW I
    PROVE  /\ DG001(s, I) \subseteq DG001(t, I)
           /\ DG003(s, I) \subseteq DG003(t, I)
           /\ DG004(s, I) \subseteq DG004(t, I)
<1>1. DG001(s, I) \subseteq DG001(t, I)
    BY DEF DG001, Grows
<1>2. ASSUME NEW m \in DG003(s, I) PROVE m \in DG003(t, I)
    <2>1. m \in I
        BY DEF DG003
    <2>2. PICK target \in DOMAIN s.features : ReachesInto(s, m, target)
        BY DEF DG003
    <2>3. PICK i \in DOMAIN s.features : i # target /\ Owns(s, i, m.module)
        BY <2>2 DEF ReachesInto
    <2>4. Owns(s, target, m.path) /\ ~AnyMatches(s.features[target].public_api, m.path)
        BY <2>2 DEF ReachesInto
    <2>5. i \in DOMAIN t.features /\ Owns(t, i, m.module)
        BY <2>3, OwnersStay
    <2>6. target \in DOMAIN t.features /\ Owns(t, target, m.path)
        BY <2>4, OwnersStay
    <2>7. t.features[target] = s.features[target]
        BY DEF Grows
    <2>8. Len(t.features) >= 2
        <3> t.features \in Seq(Feature)
            BY DEF DgSection
        <3> QED BY <2>3, <2>5, <2>6
    <2> QED BY <2>1, <2>3, <2>4, <2>5, <2>6, <2>7, <2>8 DEF DG003, ReachesInto
<1>3. ASSUME NEW m \in DG004(s, I) PROVE m \in DG004(t, I)
    <2>1. m \in I /\ AnyMatches(s.shared_paths, m.module)
        BY DEF DG004
    <2>2. PICK target \in DOMAIN s.features : Owns(s, target, m.path)
        BY DEF DG004
    <2>3. target \in DOMAIN t.features /\ Owns(t, target, m.path)
        BY <2>2, OwnersStay
    <2>4. AnyMatches(t.shared_paths, m.module)
        BY <2>1 DEF AnyMatches, Grows
    <2> QED BY <2>1, <2>3, <2>4 DEF DG004
<1> QED BY <1>1, <1>2, <1>3

\* A declaration without --force makes the section grow.
LEMMA DeclareGrows ==
    ASSUME Inv, Declare
    PROVE  Grows(section, section') /\ imports' = imports
<1> section \in DgSection
    BY DEF Inv, TypeOK
<1>1. ASSUME NEW from \in Pattern, NEW to \in Pattern, ForbidEdgeCmd(from, to, FALSE)
      PROVE  Grows(section, section') /\ imports' = imports
    BY <1>1, ForbidEdgeFacts DEF ForbidEdgeCmd
<1>2. ASSUME NEW name \in Name, NEW module \in Pattern, NEW api \in Apis,
             DefineFeatureCmd(name, module, api, FALSE)
      PROVE  Grows(section, section') /\ imports' = imports
    <2>1. module \in Seq(Segment) /\ api \in Seq(Seq(Segment))
        BY Arguments
    <2>2. Named(section, name) = {}
        BY <1>2 DEF DefineFeatureCmd, CanDefineFeature
    <2>3. section' = DefineFeature(section, name, module, api) /\ imports' = imports
        BY <1>2 DEF DefineFeatureCmd
    <2> QED BY <2>1, <2>2, <2>3, NewFeatureFacts
<1>3. ASSUME NEW pattern \in Pattern, AddSharedPathCmd(pattern)
      PROVE  Grows(section, section') /\ imports' = imports
    BY <1>3, AddSharedPathFacts DEF AddSharedPathCmd
<1> QED BY <1>1, <1>2, <1>3 DEF Declare

\* DeclaringNeverHides: on any workspace, whatever the patterns overlap, a
\* declaration without --force takes no finding of DG001, DG003 and DG004 away.
THEOREM DeclaringAdds == Spec => DeclaringNeverHides
<1> DEFINE Kept == \A rule \in {"DG001", "DG003", "DG004"} :
                       Findings(section, imports)[rule] \subseteq Findings(section', imports)[rule]
<1>1. ASSUME Inv, Inv', Declare PROVE Kept
    <2>1. section \in DgSection /\ section' \in DgSection
        BY <1>1 DEF Inv, TypeOK
    <2>2. Grows(section, section')
        BY <1>1, DeclareGrows
    <2>3. /\ DG001(section, imports) \subseteq DG001(section', imports)
          /\ DG003(section, imports) \subseteq DG003(section', imports)
          /\ DG004(section, imports) \subseteq DG004(section', imports)
        BY <2>1, <2>2, FindingsGrow
    <2> QED BY <2>3 DEF Findings
<1>2. Inv /\ Inv' => [Kept \/ (Declare => Panics(section', imports))]_vars
    BY <1>1
<1> QED BY <1>2, Invariance, PTL DEF DeclaringNeverHides

-----------------------------------------------------------------------------
(* Suggestions *)

\* Whom a feature without an API is reached by, DG003 finds too, and a feature
\* with an API is no subject of a suggestion.
LEMMA ReachesAreFindings ==
    ASSUME Inv, NEW name \in Name, NEW i \in DOMAIN section.features,
           Named(section, name) = {i}
    PROVE  /\ section.features[i].public_api = <<>> =>
                  ReachesByName(section, imports, name) = Into(name)
           /\ section.features[i].public_api # <<>> =>
                  ReachesByName(section, imports, name) = {}
<1> section.features \in Seq(Feature)
    BY DEF Inv, TypeOK, DgSection
<1>1. \A target \in DOMAIN section.features :
          section.features[target].name = name <=> target = i
    BY DEF Named
<1>2. ASSUME section.features[i].public_api = <<>>
      PROVE  ReachesByName(section, imports, name) = Into(name)
    <2>1. \A path : ~AnyMatches(section.features[i].public_api, path)
        BY <1>2 DEF AnyMatches
    <2>2. ASSUME NEW m \in imports,
                 NEW j \in DOMAIN section.features, j # i,
                 Owns(section, j, m.module)
          PROVE  Len(section.features) >= 2
        BY <2>2
    <2> QED BY <1>1, <1>2, <2>1, <2>2 DEF ReachesByName, Into, ReachesInto
<1>3. ASSUME section.features[i].public_api # <<>>
      PROVE  ReachesByName(section, imports, name) = {}
    BY <1>1, <1>3 DEF ReachesByName
<1> QED BY <1>2, <1>3

\* What is suggested has three reaches or more.
LEMMA NoReachesNoSuggestion ==
    ASSUME NEW s, NEW I, NEW name, ReachesByName(s, I, name) = {}
    PROVE  name \notin Suggested(s, I)
<1>1. Cardinality(ReachesByName(s, I, name)) = 0
    BY FS_EmptySet
<1>2. ~(Cardinality(ReachesByName(s, I, name)) >= 3)
    BY <1>1
<1> QED BY <1>2, Zenon DEF Suggested, COLLAPSE_THRESHOLD

\* A suggestion is about a feature that is there and has no API.
LEMMA SuggestedFacts ==
    ASSUME Inv, NEW name \in Name, name \in Suggested(section, imports)
    PROVE  \E i \in DOMAIN section.features :
               Named(section, name) = {i} /\ section.features[i].public_api = <<>>
<1>1. ReachesByName(section, imports, name) # {}
    BY NoReachesNoSuggestion
<1>2. PICK i \in DOMAIN section.features :
          section.features[i].name = name /\ section.features[i].public_api = <<>>
    BY <1>1 DEF ReachesByName
<1>3. Named(section, name) = {i}
    BY <1>2 DEF Named, Inv, EntriesUnique
<1> QED BY <1>2, <1>3

\* SuggestionSpeaksOfFindings: the suggestion and DG003, which walk the imports
\* each on its own, agree on every workspace.
THEOREM SuggestionsAgree == Spec => []SuggestionSpeaksOfFindings
<1>1. ASSUME Inv, NEW name \in Name
      PROVE  name \in Suggested(section, imports) <=>
                 /\ \A i \in Named(section, name) : section.features[i].public_api = <<>>
                 /\ Cardinality(Into(name)) >= COLLAPSE_THRESHOLD
    <2> section.features \in Seq(Feature)
        BY <1>1 DEF Inv, TypeOK, DgSection
    <2>1. CASE Named(section, name) = {}
        <3>1. Into(name) = {}
            BY <2>1 DEF Into
        <3>2. Cardinality(Into(name)) = 0
            BY <3>1, FS_EmptySet
        <3>3. name \notin Suggested(section, imports)
            BY <1>1, <2>1, SuggestedFacts
        <3> QED BY <3>2, <3>3 DEF COLLAPSE_THRESHOLD
    <2>2. CASE Named(section, name) # {}
        <3>1. PICK i \in DOMAIN section.features : Named(section, name) = {i}
            BY <1>1, <2>2 DEF Named, Inv, EntriesUnique
        <3>2. CASE section.features[i].public_api # <<>>
            BY <1>1, <3>1, <3>2, ReachesAreFindings, NoReachesNoSuggestion
        <3>3. CASE section.features[i].public_api = <<>>
            <4>1. ReachesByName(section, imports, name) = Into(name)
                BY <1>1, <3>1, <3>3, ReachesAreFindings
            <4>2. CASE Len(section.features) >= 2
                BY <3>1, <3>3, <4>1, <4>2 DEF Suggested
            <4>3. CASE ~(Len(section.features) >= 2)
                <5>1. Into(name) = {}
                    BY <4>3 DEF Into, ReachesInto
                <5>2. Cardinality(Into(name)) = 0
                    BY <5>1, FS_EmptySet
                <5> QED BY <4>3, <5>2 DEF Suggested, COLLAPSE_THRESHOLD
            <4> QED BY <4>2, <4>3
        <3> QED BY <3>2, <3>3
    <2> QED BY <2>1, <2>2
<1>2. Inv => SuggestionSpeaksOfFindings
    BY <1>1 DEF SuggestionSpeaksOfFindings
<1> QED BY <1>2, Invariance, PTL

\* What a suggested command does: the one feature of that name gets an API, and
\* everything else stays.
LEMMA FollowedSection ==
    ASSUME Inv, NEW name \in Name, NEW i \in DOMAIN section.features,
           NEW api \in Seq(Seq(Segment)), FollowWith(name, i, api)
    PROVE  /\ Named(section, name) = {i}
           /\ section.features[i].public_api = <<>>
           /\ imports' = imports
           /\ section' \in DgSection
           /\ section'.forbidden_edges = section.forbidden_edges
           /\ section'.shared_paths = section.shared_paths
           /\ section'.features = [section.features EXCEPT ![i] =
                  [name |-> name, module |-> section.features[i].module, public_api |-> api]]
<1> DEFINE t == DefineFeature(section, name, section.features[i].module, api)
<1>1. /\ Named(section, name) = {i}
      /\ section.features[i].module \in Seq(Segment)
      /\ DefineFeatureCmd(name, section.features[i].module, api, TRUE)
      /\ name \in Suggested(section, imports)
    BY FollowFacts
<1>2. section.features[i].public_api = <<>>
    <2>1. PICK j \in DOMAIN section.features :
              Named(section, name) = {j} /\ section.features[j].public_api = <<>>
        BY <1>1, SuggestedFacts
    <2>2. j = i
        BY <1>1, <2>1
    <2> QED BY <2>1, <2>2
<1>3. section \in DgSection
    BY DEF Inv, TypeOK
<1>4. /\ t \in DgSection
      /\ t.forbidden_edges = section.forbidden_edges
      /\ t.shared_paths = section.shared_paths
      /\ t.features = [section.features EXCEPT ![i] =
             [name |-> name, module |-> section.features[i].module, public_api |-> api]]
    BY <1>1, <1>3, ForcedFeatureFacts
<1>5. section' = t /\ imports' = imports
    BY <1>1 DEF DefineFeatureCmd
<1> QED BY <1>1, <1>2, <1>4, <1>5

\* A path belongs to one feature.
LEMMA OneOwner ==
    ASSUME NEW s \in DgSection, NEW path, NEW i, NEW j, Owns(s, i, path), Owns(s, j, path)
    PROVE  i = j
<1> s.features \in Seq(Feature)
    BY DEF DgSection
<1>1. i \in DOMAIN s.features /\ j \in DOMAIN s.features
    BY DEF Owns, IsFirst, FeatureModules
<1>2. ~(i < j) /\ ~(j < i)
    BY <1>1 DEF Owns, IsFirst, FeatureModules
<1> QED BY <1>1, <1>2

\* What a suggested command does to the findings.
LEMMA FollowedFindings ==
    ASSUME Inv, NEW name \in Name, NEW i \in DOMAIN section.features,
           NEW api \in Seq(Seq(Segment)), api # <<>>, FollowWith(name, i, api)
    PROVE  /\ name \notin Suggested(section', imports)
           /\ DG001(section', imports) = DG001(section, imports)
           /\ DG004(section', imports) = DG004(section, imports)
           /\ \A m : m \in DG003(section', imports) <=>
                  /\ m \in DG003(section, imports)
                  /\ m \in Into(name) => ~AnyMatches(api, m.path)
<1> DEFINE feature == [name |-> name, module |-> section.features[i].module, public_api |-> api]
<1>1. section \in DgSection /\ section' \in DgSection
    BY FollowedSection DEF Inv, TypeOK
<1>2. /\ Named(section, name) = {i}
      /\ section.features[i].public_api = <<>>
      /\ section'.forbidden_edges = section.forbidden_edges
      /\ section'.shared_paths = section.shared_paths
      /\ section'.features = [section.features EXCEPT ![i] = feature]
    BY FollowedSection
<1> section.features \in Seq(Feature) /\ section'.features \in Seq(Feature)
    BY <1>1 DEF DgSection
<1> HIDE DEF feature
<1>3. /\ DOMAIN section'.features = DOMAIN section.features
      /\ Len(section'.features) = Len(section.features)
      /\ section'.features[i] = feature
      /\ \A k \in DOMAIN section.features : k # i => section'.features[k] = section.features[k]
    BY <1>2
<1>4. FeatureModules(section') = FeatureModules(section)
    BY <1>3 DEF FeatureModules, feature
<1>5. \A k, path : Owns(section', k, path) <=> Owns(section, k, path)
    BY <1>4 DEF Owns
<1>6. name \notin Suggested(section', imports)
    <2>1. \A k \in DOMAIN section'.features :
              section'.features[k].name = name => section'.features[k].public_api # <<>>
        BY <1>2, <1>3 DEF feature, Named
    <2>2. ReachesByName(section', imports, name) = {}
        BY <2>1 DEF ReachesByName
    <2> QED BY <2>2, NoReachesNoSuggestion
<1>7. DG001(section', imports) = DG001(section, imports)
    BY <1>2 DEF DG001
<1>8. DG004(section', imports) = DG004(section, imports)
    BY <1>2, <1>3, <1>5 DEF DG004
<1>9. ASSUME NEW m, NEW k \in DOMAIN section.features, k # i
      PROVE  ReachesInto(section', m, k) <=> ReachesInto(section, m, k)
    BY <1>3, <1>5, <1>9 DEF ReachesInto
<1>10. ASSUME NEW m
       PROVE  ReachesInto(section', m, i)
                  <=> ReachesInto(section, m, i) /\ ~AnyMatches(api, m.path)
    <2>1. ~AnyMatches(section.features[i].public_api, m.path)
        BY <1>2 DEF AnyMatches
    <2>2. section'.features[i].public_api = api
        BY <1>3 DEF feature
    <2> QED BY <1>3, <1>5, <2>1, <2>2 DEF ReachesInto
<1>11. \A m : m \in Into(name) <=> m \in imports /\ ReachesInto(section, m, i)
    BY <1>2 DEF Into
<1>12. \A m, j, k : ReachesInto(section, m, j) /\ ReachesInto(section, m, k) => j = k
    BY <1>1, OneOwner DEF ReachesInto
<1>13. ASSUME NEW m
       PROVE  m \in DG003(section', imports) <=>
                  /\ m \in DG003(section, imports)
                  /\ m \in Into(name) => ~AnyMatches(api, m.path)
    <2>1. m \in DG003(section', imports) <=>
              m \in imports /\ \E k \in DOMAIN section.features : ReachesInto(section', m, k)
        BY <1>3 DEF DG003
    <2>2. m \in DG003(section, imports) <=>
              m \in imports /\ \E k \in DOMAIN section.features : ReachesInto(section, m, k)
        BY DEF DG003
    <2> QED BY <1>9, <1>10, <1>11, <1>12, <2>1, <2>2
<1> QED BY <1>6, <1>7, <1>8, <1>13

\* FollowingSettles: a suggested command settles what the suggestion is about and
\* touches no other finding.
THEOREM SuggestionsSettle == Spec => FollowingSettles
<1> DEFINE before == Findings(section, imports)
           after  == Findings(section', imports)
           Settles(name) ==
               /\ name \notin Suggested(section', imports)
               /\ after.DG001 = before.DG001 /\ after.DG004 = before.DG004
               /\ after.DG003 \subseteq before.DG003
               /\ before.DG003 \ Into(name) \subseteq after.DG003
           Clears(name) == after.DG003 = before.DG003 \ Into(name)
<1>1. ASSUME Inv, NEW name \in Name, Narrow(name)
      PROVE  Settles(name)
    <2>1. PICK i \in DOMAIN section.features :
              FollowWith(name, i, <<ApiSeed(section.features[i].module)>>)
        BY <1>1 DEF Narrow
    <2> DEFINE api == <<ApiSeed(section.features[i].module)>>
    <2>2. api \in Seq(Seq(Segment)) /\ api # <<>>
        <3>1. section.features[i].module \in Seq(Segment)
            BY <1>1, <2>1, FollowFacts
        <3>2. ApiSeed(section.features[i].module) \in Seq(Segment)
            BY <3>1, SeedType
        <3> QED BY <3>2
    <2> HIDE DEF api
    <2>3. /\ name \notin Suggested(section', imports)
          /\ DG001(section', imports) = DG001(section, imports)
          /\ DG004(section', imports) = DG004(section, imports)
          /\ \A m : m \in DG003(section', imports) <=>
                 /\ m \in DG003(section, imports)
                 /\ m \in Into(name) => ~AnyMatches(api, m.path)
        BY <1>1, <2>1, <2>2, FollowedFindings DEF api
    <2> QED BY <2>3 DEF Findings
<1>2. ASSUME Inv, NEW name \in Name, Widen(name)
      PROVE  Settles(name) /\ Clears(name)
    <2>1. PICK i \in DOMAIN section.features :
              FollowWith(name, i, <<section.features[i].module>>)
        BY <1>2 DEF Widen
    <2> DEFINE api == <<section.features[i].module>>
    <2>2. Named(section, name) = {i} /\ section.features[i].module \in Seq(Segment)
        BY <1>2, <2>1, FollowFacts
    <2>3. api \in Seq(Seq(Segment)) /\ api # <<>>
        BY <2>2
    <2>4. \A m : m \in Into(name) => AnyMatches(api, m.path)
        BY <2>2 DEF Into, ReachesInto, Owns, IsFirst, FeatureModules, AnyMatches
    <2> HIDE DEF api
    <2>5. /\ name \notin Suggested(section', imports)
          /\ DG001(section', imports) = DG001(section, imports)
          /\ DG004(section', imports) = DG004(section, imports)
          /\ \A m : m \in DG003(section', imports) <=>
                 /\ m \in DG003(section, imports)
                 /\ m \in Into(name) => ~AnyMatches(api, m.path)
        BY <1>2, <2>1, <2>3, FollowedFindings DEF api
    <2> QED BY <2>4, <2>5 DEF Findings
<1>3. ASSUME Inv, NEW name \in Name
      PROVE  /\ Narrow(name) \/ Widen(name) => Settles(name)
             /\ Widen(name) => Clears(name)
    BY <1>1, <1>2, <1>3
<1> HIDE DEF Settles, Clears
<1>4. Inv => [\A name \in Name :
                 /\ Narrow(name) \/ Widen(name) => Settles(name)
                 /\ Widen(name) => Clears(name)]_vars
    BY <1>3
<1> QED BY <1>4, Invariance, PTL DEF FollowingSettles, Settles, Clears
=============================================================================
