--------------------------- MODULE OneTruthSection ---------------------------
(***************************************************************************)
(* The OT section of .locus/lock.json and the operations that edit it:     *)
(* `locus accept canonical | boundary | converter` and the rebuild that    *)
(* `locus init` performs from source hints.  This module is pure: it       *)
(* declares no variable.  An edit is a guard (the early returns of the     *)
(* code) and a result (the section it leaves behind).                      *)
(*                                                                         *)
(* A section is total over Concept: a concept that has no ConceptEntry is  *)
(* one whose canonical symbol is NoSymbol.  Boundary and converter entries *)
(* are functions from the symbol to the Source recorded for it, "none" for *)
(* an absent entry.  Labels and spans carry no decision and are left out;   *)
(* the from/to texts of a converter entry matter to OT005 alone, see       *)
(* Stated in OneTruthRules.                                                *)
(***************************************************************************)
EXTENDS Naturals, FiniteSets

CONSTANTS
    Concept,        \* concept ids
    Symbol,         \* fully-qualified type symbols
    Converter,      \* converter symbols (impls and free functions)
    Path,           \* converter_paths patterns
    NoSymbol,       \* "this concept has no entry"
    ConceptRank,    \* BTreeMap order of the concept ids
    SymbolRank,     \* the order in which the scan lists the types
    Stem,           \* Stem[s]: the concept id of the name stem of s
    Clusterable,    \* the structs and enums that have fields or variants
    Alike,          \* pairs of types whose field overlap reaches the threshold
    Endpoints       \* Endpoints[f]: for each end of a conversion, <<from, to>>, the
                    \* symbols that its text matches, in full or by last segment

ASSUME SymbolAssumption  == NoSymbol \notin Symbol
ASSUME ConceptAssumption ==
    /\ IsFiniteSet(Concept)
    /\ ConceptRank \in [Concept -> Nat]
    /\ \A c, d \in Concept : ConceptRank[c] = ConceptRank[d] => c = d
ASSUME StemAssumption    ==
    /\ SymbolRank \in [Symbol -> Nat]
    /\ \A s, t \in Symbol : SymbolRank[s] = SymbolRank[t] => s = t
    /\ Stem \in [Symbol -> Concept]
ASSUME AlikeAssumption   ==
    /\ Clusterable \subseteq Symbol
    /\ Alike \subseteq Clusterable \X Clusterable
ASSUME EndpointAssumption == Endpoints \in [Converter -> (SUBSET Symbol) \X (SUBSET Symbol)]

-----------------------------------------------------------------------------
(* Types *)

Source == {"hint", "init", "accepted"}

AcceptedCanonical == [symbol : Symbol \cup {NoSymbol}, source : Source]

OtSection ==
    [canonical       : [Concept -> AcceptedCanonical],
     boundaries      : [Concept -> [Symbol -> Source \cup {"none"}]],
     converters      : [Concept -> [Converter -> Source \cup {"none"}]],
     converter_paths : SUBSET Path]

\* What a scan of the workspace yields, as far as OT is concerned: the types
\* that exist, the ones hinted canonical or boundary, the conversions found.
Air == [types      : SUBSET Symbol,
        canonical  : SUBSET Symbol,
        boundary   : SUBSET Symbol,
        converters : SUBSET Converter]

EmptySection ==
    [canonical       |-> [c \in Concept |-> [symbol |-> NoSymbol, source |-> "hint"]],
     boundaries      |-> [c \in Concept |-> [s \in Symbol |-> "none"]],
     converters      |-> [c \in Concept |-> [f \in Converter |-> "none"]],
     converter_paths |-> {}]

-----------------------------------------------------------------------------
(* Lookups *)

HasEntry(sec, c)      == sec.canonical[c].symbol # NoSymbol
IsCanonical(sec, s, c) == sec.canonical[c].symbol = s
IsBoundary(sec, s, c)  == sec.boundaries[c][s] # "none"
HasRole(sec, s, c)     == IsCanonical(sec, s, c) \/ IsBoundary(sec, s, c)

RolesOf(sec, s) == {c \in Concept : HasRole(sec, s, c)}

\* role_of walks the concepts in BTreeMap order and returns the first hit.
RoleOf(sec, s) ==
    CHOOSE c \in RolesOf(sec, s) :
        \A d \in RolesOf(sec, s) : ConceptRank[c] <= ConceptRank[d]

\* The first guard of accept_canonical and accept_boundary.
RoleElsewhere(sec, s, c) == RolesOf(sec, s) # {} /\ RoleOf(sec, s) # c

-----------------------------------------------------------------------------
(* locus accept *)

\* A slip in the guard: --force is taken to override the role check as well.
MutForceSkipsRoleCheck(sec, air, s, c, force) ==
    /\ s \in air.types
    /\ force \/ ~RoleElsewhere(sec, s, c)
    /\ sec.canonical[c].symbol \in {NoSymbol, s} \/ force

CanAcceptCanonical(sec, air, s, c, force) ==
    /\ s \in air.types
    /\ ~RoleElsewhere(sec, s, c)
    /\ sec.canonical[c].symbol \in {NoSymbol, s} \/ force

AcceptCanonical(sec, s, c) ==
    [sec EXCEPT !.canonical[c] = [symbol |-> s, source |-> "accepted"]]

CanAcceptBoundary(sec, air, s, c) ==
    /\ s \in air.types
    /\ ~RoleElsewhere(sec, s, c)
    /\ HasEntry(sec, c)
    /\ ~IsCanonical(sec, s, c)

\* A slip in the constructor: the label is stored where the source belongs.
MutLabelForSource(sec, s, c) ==
    [sec EXCEPT !.boundaries[c][s] = "api.v1"]

AcceptBoundary(sec, s, c) ==
    [sec EXCEPT !.boundaries[c][s] = "accepted"]

\* A slip in the guard: the entry is created on demand.
MutEntryOnDemand(sec, c) == TRUE

CanAcceptConverter(sec, c) == HasEntry(sec, c)

\* Idempotent: an entry that is there already keeps its source.
AcceptConverter(sec, f, c) ==
    [sec EXCEPT !.converters[c][f] = IF @ = "none" THEN "accepted" ELSE @]

-----------------------------------------------------------------------------
(* build_ot_section: what `locus init` derives from hints alone *)

\* The types of a stem; clusters are made of those that is_clusterable lets in.
TypesOf(air, c)        == {s \in air.types : Stem[s] = c}
ConceptMembers(air, c) == TypesOf(air, c) \cap Clusterable

HintedCanonicals(air, c) == TypesOf(air, c) \cap air.canonical
HintedMembers(air, c)    == ConceptMembers(air, c) \cap air.canonical

FirstScanned(types) == CHOOSE s \in types : \A t \in types : SymbolRank[s] <= SymbolRank[t]

\* cluster_concepts keeps a bucket of two or more types only when some other
\* member overlaps the reference type, here the first hinted canonical.  A
\* cluster without a hinted canonical is passed over by build_ot_section.
Clustered(air, c) ==
    /\ HintedMembers(air, c) # {}
    /\ \E t \in ConceptMembers(air, c) \ {FirstScanned(HintedMembers(air, c))} :
            <<t, FirstScanned(HintedMembers(air, c))>> \in Alike

\* The canonical of a cluster is one of its members; without a cluster the walk
\* over the AIR takes any hinted type, an alias too.
Candidates(air, c) ==
    IF Clustered(air, c) THEN HintedMembers(air, c) ELSE HintedCanonicals(air, c)

InitCanonical(air, c) ==
    IF Candidates(air, c) = {} THEN NoSymbol ELSE FirstScanned(Candidates(air, c))

\* A canonical hint outranks a boundary hint on the same type.
InitBoundaries(air, c) ==
    IF Clustered(air, c) THEN (ConceptMembers(air, c) \cap air.boundary) \ air.canonical
    ELSE {}

\* A slip: only conversions from or to the canonical are registered.
MutCanonicalEnd(air, c) ==
    IF Clustered(air, c)
    THEN LET accepted == {InitCanonical(air, c)} \cup InitBoundaries(air, c)
         IN  {f \in air.converters :
                /\ \A i \in {1, 2} : Endpoints[f][i] \cap accepted # {}
                /\ \E i \in {1, 2} : InitCanonical(air, c) \in Endpoints[f][i]}
    ELSE {}

\* Converters both of whose endpoints the section accepted for the concept.
InitConverters(air, c) ==
    IF Clustered(air, c)
    THEN LET accepted == {InitCanonical(air, c)} \cup InitBoundaries(air, c)
         IN  {f \in air.converters : \A i \in {1, 2} : Endpoints[f][i] \cap accepted # {}}
    ELSE {}

BuildOtSection(air) ==
    [canonical       |-> [c \in Concept |->
                            [symbol |-> InitCanonical(air, c), source |-> "hint"]],
     boundaries      |-> [c \in Concept |-> [s \in Symbol |->
                            IF s \in InitBoundaries(air, c) THEN "hint" ELSE "none"]],
     converters      |-> [c \in Concept |-> [f \in Converter |->
                            IF f \in InitConverters(air, c) THEN "init" ELSE "none"]],
     converter_paths |-> {}]

\* section_is_empty: init leaves the recorded section alone when it would be
\* replaced by nothing.
SectionIsEmpty(sec) ==
    /\ \A c \in Concept : ~HasEntry(sec, c)
    /\ sec.converter_paths = {}

\* populate_lockfile_sections, for OT.
InitSection(sec, air) ==
    IF SectionIsEmpty(BuildOtSection(air)) THEN sec ELSE BuildOtSection(air)

-----------------------------------------------------------------------------
(* Properties of one section *)

\* A symbol plays a role in one concept at most: accept refuses a symbol that
\* another concept holds, and init files a type under its own stem only.
OneConceptPerSymbol(sec) ==
    \A s \in Symbol : \A c, d \in Concept :
        HasRole(sec, s, c) /\ HasRole(sec, s, d) => c = d

\* Boundaries and converters hang off a ConceptEntry, which has a canonical.
NoOrphans(sec) ==
    \A c \in Concept : ~HasEntry(sec, c) =>
        /\ \A s \in Symbol : ~IsBoundary(sec, s, c)
        /\ \A f \in Converter : sec.converters[c][f] = "none"

\* The entries a human recorded, as opposed to hints and init's inferences.
AcceptedEntries(sec) ==
    {<<"canonical", c, sec.canonical[c].symbol>> :
        c \in {d \in Concept : HasEntry(sec, d) /\ sec.canonical[d].source = "accepted"}}
    \cup {<<"boundary", p[1], p[2]>> :
            p \in {q \in Concept \X Symbol : sec.boundaries[q[1]][q[2]] = "accepted"}}
    \cup {<<"converter", p[1], p[2]>> :
            p \in {q \in Concept \X Converter : sec.converters[q[1]][q[2]] = "accepted"}}
=============================================================================
