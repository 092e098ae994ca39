---------------------------- MODULE OneTruthRules ----------------------------
(***************************************************************************)
(* The rules OT001 to OT012 as functions of the OT section and of what the *)
(* scan says of the code.  A finding is the rule, what it is about and the *)
(* concept it names; its severity, text and span are left out.             *)
(*                                                                         *)
(* The rules know types by symbol, but most of them look a type up by the  *)
(* last segment of its path, its name, in maps that keep one entry a name: *)
(* the first concept or the last, as the code fills them.                  *)
(***************************************************************************)
EXTENDS OneTruthSection

CONSTANTS
    Name,           \* last segments of paths
    File,           \* files of the workspace
    NameOf,         \* NameOf[s]: the last segment of the symbol s
    NameRank,       \* BTreeMap order of the names
    TextRank,       \* BTreeMap order of the symbols
    EndName,        \* EndName[f]: the last segments of the ends of a conversion
    FileOf,         \* FileOf[s]: the file that defines the type s
    FunctionFile,   \* FunctionFile[f]: the file of the function or impl f
    Stated,         \* converters that are accepted with --from and --to
    Covers,         \* Covers[p]: the functions a converter_paths pattern matches,
                    \* by their own path or by that of their file
    Validator,      \* functions called validate_*, normalize_*, parse_* and so on
    Enum,           \* the types that are enums
    Newtype         \* the structs of one field

ASSUME NameAssumption ==
    /\ NameOf \in [Symbol -> Name] /\ EndName \in [Converter -> Name \X Name]
    /\ NameRank \in [Name -> Nat]
    /\ \A m, n \in Name : NameRank[m] = NameRank[n] => m = n
    /\ TextRank \in [Symbol -> Nat]
    /\ \A s, t \in Symbol : TextRank[s] = TextRank[t] => s = t
ASSUME FileAssumption ==
    /\ FileOf \in [Symbol -> File] /\ FunctionFile \in [Converter -> File]
    /\ Covers \in [Path -> SUBSET Converter]
ASSUME KindAssumption ==
    /\ Stated \subseteq Converter /\ Validator \subseteq Converter
    /\ Enum \subseteq Symbol /\ Newtype \subseteq Symbol \ Enum

\* What OT reads of a scan: Air of OneTruthSection with the uses of the types.
Code == [types      : SUBSET Symbol,
         canonical  : SUBSET Symbol,
         boundary   : SUBSET Symbol,
         converters : SUBSET Converter,
         protocol   : SUBSET Converter,               \* protocol-translation hints
         signature  : [Converter -> SUBSET Name],     \* names in parameters and result
         constructs : SUBSET (Converter \X Name),     \* Construct truth actions
         methods    : SUBSET Symbol,                  \* inherent impls with domain methods
         primitives : SUBSET (Symbol \X Name)]        \* primitive fields named for a type

Finding(rule, subject, concept) == [rule |-> rule, subject |-> subject, concept |-> concept]

-----------------------------------------------------------------------------
(* Lookups *)

FirstConcept(C) == CHOOSE c \in C : \A d \in C : ConceptRank[c] <= ConceptRank[d]
LastConcept(C)  == CHOOSE c \in C : \A d \in C : ConceptRank[d] <= ConceptRank[c]

\* A slip: a boundary is not counted as a role.
MutCanonicalRole(sec, s) == \E c \in Concept : IsCanonical(sec, s, c)

HasAnyRole(sec, s) == RolesOf(sec, s) # {}

\* Concepts with a canonical, or with a boundary, of that name.
CanonicalConcepts(sec, n) ==
    {c \in Concept : HasEntry(sec, c) /\ NameOf[sec.canonical[c].symbol] = n}
BoundaryConcepts(sec, n) ==
    {c \in Concept : \E s \in Symbol : IsBoundary(sec, s, c) /\ NameOf[s] = n}

\* Those whose canonical still is in the code, so that its owner file is known.
OwnedConcepts(sec, code, n) ==
    {c \in CanonicalConcepts(sec, n) : sec.canonical[c].symbol \in code.types}
OwnerFile(sec, c) == FileOf[sec.canonical[c].symbol]

\* A slip: the entries that init found count, those a human accepted do not.
MutInitConvertersOnly(sec) ==
    {f \in Converter : \E c \in Concept : sec.converters[c][f] = "init"}

\* Acceptance under any concept excuses a function.
AcceptedConverters(sec) ==
    {f \in Converter : \E c \in Concept : sec.converters[c][f] # "none"}

-----------------------------------------------------------------------------
(* Clusters: OT001 and OT002 *)

\* The lockfile outranks the hints.
RoleForType(sec, code, s) ==
    IF HasAnyRole(sec, s)
    THEN IF IsCanonical(sec, s, RoleOf(sec, s)) THEN "canonical" ELSE "boundary"
    ELSE IF s \in code.canonical THEN "canonical"
    ELSE IF s \in code.boundary THEN "boundary"
    ELSE "unknown"

MembersOf(sec, code, c, role) ==
    {s \in ConceptMembers(code, c) : RoleForType(sec, code, s) = role}

\* The canonical that overlaps are taken against.
Reference(sec, code, c) ==
    CHOOSE s \in MembersOf(sec, code, c, "canonical") :
        \A t \in MembersOf(sec, code, c, "canonical") : SymbolRank[s] <= SymbolRank[t]

\* A cluster that has a canonical, and another member that overlaps it.
Anchored(sec, code, c) ==
    /\ MembersOf(sec, code, c, "canonical") # {}
    /\ \E s \in ConceptMembers(code, c) \ {Reference(sec, code, c)} :
           <<s, Reference(sec, code, c)>> \in Alike

\* OT001: a second canonical in a cluster.
DuplicateCanonicals(sec, code) ==
    UNION {{Finding("OT001", s, c) :
               s \in MembersOf(sec, code, c, "canonical") \ {Reference(sec, code, c)}} :
           c \in {d \in Concept : Anchored(sec, code, d)}}

\* OT002: a member without a role that overlaps the canonical.
UndeclaredShapes(sec, code) ==
    UNION {{Finding("OT002", s, c) :
               s \in {t \in MembersOf(sec, code, c, "unknown") :
                         <<t, Reference(sec, code, c)>> \in Alike}} :
           c \in {d \in Concept : Anchored(sec, code, d)}}

-----------------------------------------------------------------------------
(* Functions: OT003, OT004, OT009 *)

BoundaryFiles(sec, code) ==
    {FileOf[s] : s \in {t \in code.types : \E c \in Concept : IsBoundary(sec, t, c)}}

\* OT003: a boundary type in a signature outside the boundary files.
BoundaryLeaks(sec, code) ==
    {Finding("OT003", use, FirstConcept(BoundaryConcepts(sec, use[2]))) :
        use \in {u \in Converter \X Name :
            /\ u[2] \in code.signature[u[1]]
            /\ BoundaryConcepts(sec, u[2]) # {}
            /\ u[1] \notin AcceptedConverters(sec)
            /\ FunctionFile[u[1]] \notin BoundaryFiles(sec, code)}}

Excused(sec, f) ==
    \/ f \in AcceptedConverters(sec)
    \/ \E p \in sec.converter_paths : f \in Covers[p]

\* OT004: a canonical constructed outside its owner and any accepted converter.
\* Of several canonicals of one name the last concept's stands for all.
DirectConstructions(sec, code) ==
    {Finding("OT004", use, LastConcept(OwnedConcepts(sec, code, use[2]))) :
        use \in {u \in code.constructs :
            /\ OwnedConcepts(sec, code, u[2]) # {}
            /\ FunctionFile[u[1]] # OwnerFile(sec, LastConcept(OwnedConcepts(sec, code, u[2])))
            /\ ~Excused(sec, u[1])}}

\* The canonicals a signature speaks of, by name; OT009 judges by the first.
CanonicalsIn(sec, code, f) == {n \in code.signature[f] : OwnedConcepts(sec, code, n) # {}}
FirstCanonicalIn(sec, code, f) ==
    CHOOSE n \in CanonicalsIn(sec, code, f) :
        \A m \in CanonicalsIn(sec, code, f) : NameRank[n] <= NameRank[m]
JudgedConcept(sec, code, f) ==
    LastConcept(OwnedConcepts(sec, code, FirstCanonicalIn(sec, code, f)))

\* OT009: validation of a canonical outside its owner.
ScatteredValidation(sec, code) ==
    {Finding("OT009", f, JudgedConcept(sec, code, f)) :
        f \in {g \in Validator \ AcceptedConverters(sec) :
            /\ CanonicalsIn(sec, code, g) # {}
            /\ FunctionFile[g] # OwnerFile(sec, JudgedConcept(sec, code, g))}}

-----------------------------------------------------------------------------
(* Converters: OT005, OT006, OT007 *)

\* What a converter entry says of its ends: init copies the conversion, accept
\* records what --from and --to give.
EntryEnds(sec, c, f) ==
    IF sec.converters[c][f] = "accepted" /\ f \notin Stated THEN {}
    ELSE {EndName[f][1], EndName[f][2]}

\* OT005: a boundary that no converter entry of its concept mentions.
MissingConverters(sec, code) ==
    {Finding("OT005", b[1], b[2]) :
        b \in {p \in Symbol \X Concept :
            /\ IsBoundary(sec, p[1], p[2])
            /\ \A f \in Converter : sec.converters[p[2]][f] # "none" =>
                   NameOf[p[1]] \notin EntryEnds(sec, p[2], f)}}

\* lookup_concept: the first accepted symbol that the text of the end matches.
Matched(sec, f, i) == {s \in Endpoints[f][i] : HasAnyRole(sec, s)}
FirstMatch(sec, f, i) ==
    CHOOSE s \in Matched(sec, f, i) :
        \A t \in Matched(sec, f, i) : TextRank[s] <= TextRank[t]
EndConcept(sec, f, i) == LastConcept(RolesOf(sec, FirstMatch(sec, f, i)))

\* OT006: a conversion between accepted symbols of a concept that is no entry of it.
UnregisteredConversions(sec, code) ==
    {Finding("OT006", f, EndConcept(sec, f, 1)) :
        f \in {g \in code.converters :
            /\ \A i \in {1, 2} : Matched(sec, g, i) # {}
            /\ EndConcept(sec, g, 1) = EndConcept(sec, g, 2)
            /\ sec.converters[EndConcept(sec, g, 1)][g] = "none"}}

\* OT007: a conversion whose ends have names of boundaries.
AdapterConversions(sec, code) ==
    {Finding("OT007", f, LastConcept(BoundaryConcepts(sec, EndName[f][1]))) :
        f \in {g \in code.converters \ code.protocol :
            \A i \in {1, 2} : BoundaryConcepts(sec, EndName[g][i]) # {}}}

-----------------------------------------------------------------------------
(* Types: OT008, OT010, OT011, OT012 *)

\* A slip: the allowlist of translating methods is not consulted.
MutNoAllowlist(sec, code) ==
    {Finding("OT008", s, LastConcept(BoundaryConcepts(sec, NameOf[s]))) :
        s \in {t \in code.types : BoundaryConcepts(sec, NameOf[t]) # {}}}

\* OT008: domain methods on a type with the name of a boundary.
DomainMethods(sec, code) ==
    {Finding("OT008", s, LastConcept(BoundaryConcepts(sec, NameOf[s]))) :
        s \in {t \in code.methods : BoundaryConcepts(sec, NameOf[t]) # {}}}

Roleless(sec, code) == {s \in code.types : ~HasAnyRole(sec, s)}

ShadowedConcepts(sec, code, s) ==
    {c \in Concept :
        /\ HasEntry(sec, c)
        /\ sec.canonical[c].symbol \in code.types \cap Enum
        /\ <<s, sec.canonical[c].symbol>> \in Alike}

\* OT010: an enum that shares variants with an accepted one.
ShadowEnums(sec, code) ==
    {Finding("OT010", s, FirstConcept(ShadowedConcepts(sec, code, s))) :
        s \in {t \in Roleless(sec, code) \cap Enum : ShadowedConcepts(sec, code, t) # {}}}

\* OT011: a newtype with the name of a canonical.
ShadowNewtypes(sec, code) ==
    {Finding("OT011", s, LastConcept(CanonicalConcepts(sec, NameOf[s]))) :
        s \in {t \in Roleless(sec, code) \cap Newtype :
                  CanonicalConcepts(sec, NameOf[t]) # {}}}

\* OT012: a primitive field that is named for a canonical.
PrimitiveFields(sec, code) ==
    {Finding("OT012", field, LastConcept(CanonicalConcepts(sec, field[2]))) :
        field \in {p \in code.primitives :
            /\ p[1] \in Roleless(sec, code) \ Enum
            /\ CanonicalConcepts(sec, p[2]) # {}}}

-----------------------------------------------------------------------------
(* A check *)

Findings(sec, code) ==
    UNION {DuplicateCanonicals(sec, code), UndeclaredShapes(sec, code),
           BoundaryLeaks(sec, code), DirectConstructions(sec, code),
           MissingConverters(sec, code), UnregisteredConversions(sec, code),
           AdapterConversions(sec, code), DomainMethods(sec, code),
           ScatteredValidation(sec, code), ShadowEnums(sec, code),
           ShadowNewtypes(sec, code), PrimitiveFields(sec, code)}
=============================================================================
