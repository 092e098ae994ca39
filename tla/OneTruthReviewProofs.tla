------------------------ MODULE OneTruthReviewProofs ------------------------
(***************************************************************************)
(* For any workspace, section and choice of fixes: the state keeps its     *)
(* type, a section that init has built leaves OT006 nothing to report, to  *)
(* accept a converter settles what is said of it and adds no finding, and  *)
(* to accept a boundary settles what is said of it and forgives little.    *)
(***************************************************************************)
EXTENDS OneTruthReview, FiniteSetTheorems, WellFoundedInduction, TLAPS

-----------------------------------------------------------------------------
(* The section that init derives from hints *)

\* A set of numbers has a least element: the CHOOSE of a first hit is not empty-handed.
LEMMA LeastNatural ==
    ASSUME NEW R, R \subseteq Nat, R # {}
    PROVE  \E n \in R : \A m \in R : n <= m
<1> DEFINE less == {p \in Nat \X Nat : p[1] < p[2]}
<1>1. IsWellFoundedOn(less, Nat)
  BY NatLessThanWellFounded DEF OpToRel
<1>2. \A m, n \in R : ~(n <= m) => <<m, n>> \in less
  OBVIOUS
<1> HIDE DEF less
<1> QED BY <1>1, <1>2, WFMin

\* What init and accept keep true of a section.
WellFormed(sec) == OneConceptPerSymbol(sec) /\ NoOrphans(sec)

\* The first type that the scan meets is one of those it looks for.
LEMMA FirstScannedIsMember ==
    ASSUME NEW types, types \subseteq Symbol, types # {}
    PROVE  FirstScanned(types) \in types
<1> DEFINE R == {SymbolRank[t] : t \in types}
<1>1. R \subseteq Nat /\ R # {}
  BY StemAssumption
<1> HIDE DEF R
<1>2. PICK n \in R : \A m \in R : n <= m
  BY <1>1, LeastNatural
<1>3. \E s \in types : \A t \in types : SymbolRank[s] <= SymbolRank[t]
  BY <1>2 DEF R
<1> QED BY <1>3 DEF FirstScanned

\* The canonical that init picks for a concept, if any, is a type hinted
\* canonical whose name stem is that concept; a cluster has one.
LEMMA InitCanonicalIsHinted ==
    ASSUME NEW air, air.types \subseteq Symbol, NEW c \in Concept
    PROVE  /\ InitCanonical(air, c) # NoSymbol
                => InitCanonical(air, c) \in HintedCanonicals(air, c)
           /\ Clustered(air, c) => InitCanonical(air, c) # NoSymbol
<1>1. /\ HintedMembers(air, c) \subseteq HintedCanonicals(air, c)
      /\ HintedCanonicals(air, c) \subseteq Symbol
  BY DEF HintedMembers, HintedCanonicals, ConceptMembers, TypesOf
<1>2. Candidates(air, c) \subseteq HintedCanonicals(air, c)
  BY <1>1 DEF Candidates
<1>3. CASE Candidates(air, c) = {}
  <2>1. ~Clustered(air, c)
    BY <1>3 DEF Candidates, Clustered
  <2> QED BY <1>3, <2>1 DEF InitCanonical
<1>4. CASE Candidates(air, c) # {}
  <2>1. FirstScanned(Candidates(air, c)) \in Candidates(air, c)
    BY <1>1, <1>2, <1>4, FirstScannedIsMember
  <2> QED BY <1>1, <1>2, <1>4, <2>1, SymbolAssumption DEF InitCanonical
<1> QED BY <1>3, <1>4

\* What init derives from hints is well-formed: a type is filed under its own
\* stem only, and a concept without a canonical gets nothing else.
LEMMA BuildOtSectionWellFormed ==
    ASSUME NEW air, air.types \subseteq Symbol
    PROVE  /\ BuildOtSection(air) \in OtSection
           /\ WellFormed(BuildOtSection(air))
<1> DEFINE new == BuildOtSection(air)
<1>1. \A c \in Concept : InitCanonical(air, c) # NoSymbol =>
        InitCanonical(air, c) \in Symbol /\ Stem[InitCanonical(air, c)] = c
  BY InitCanonicalIsHinted DEF HintedCanonicals, TypesOf
<1>2. \A c \in Concept : InitCanonical(air, c) \in Symbol \cup {NoSymbol}
  BY <1>1
<1>3. /\ \A c \in Concept : new.canonical[c].symbol = InitCanonical(air, c)
      /\ \A c \in Concept, s \in Symbol :
            IsBoundary(new, s, c) <=> s \in InitBoundaries(air, c)
      /\ \A c \in Concept, f \in Converter :
            new.converters[c][f] # "none" <=> f \in InitConverters(air, c)
  BY DEF BuildOtSection, IsBoundary
<1>4. new \in OtSection
  BY <1>2 DEF BuildOtSection, OtSection, AcceptedCanonical, Source
<1>5. ASSUME NEW s \in Symbol, NEW c \in Concept, HasRole(new, s, c)
      PROVE  Stem[s] = c
  <2>1. CASE IsCanonical(new, s, c)
    <3>1. s = InitCanonical(air, c)
      BY <1>3, <2>1 DEF IsCanonical
    <3> QED BY <1>1, <3>1, SymbolAssumption
  <2>2. CASE IsBoundary(new, s, c)
    BY <1>3, <2>2 DEF InitBoundaries, ConceptMembers, TypesOf
  <2> QED BY <1>5, <2>1, <2>2 DEF HasRole
<1>6. OneConceptPerSymbol(new)
  BY <1>5 DEF OneConceptPerSymbol
<1>7. NoOrphans(new)
  <2>1. \A c \in Concept : Clustered(air, c) => InitCanonical(air, c) # NoSymbol
    BY InitCanonicalIsHinted
  <2> QED BY <1>3, <2>1 DEF NoOrphans, HasEntry, InitBoundaries, InitConverters
<1> QED BY <1>4, <1>6, <1>7 DEF WellFormed

\* Of finitely many elements with ranks some have the greatest.
LEMMA GreatestRank ==
    ASSUME NEW S, IsFiniteSet(S), NEW rank \in [S -> Nat], NEW C, C \subseteq S, C # {}
    PROVE  \E c \in C : \A d \in C : rank[d] <= rank[c]
<1> DEFINE Above(c) == {d \in S : rank[c] < rank[d]}
           I     == {Above(c) : c \in C}
           less  == StrictSubsetOrdering(S)
           fin   == FiniteSubsetsOf(S)
<1>1. I \subseteq fin /\ I # {}
  <2>1. ASSUME NEW c \in C PROVE Above(c) \in SUBSET S /\ IsFiniteSet(Above(c))
    BY FS_Subset
  <2> QED BY <2>1 DEF FiniteSubsetsOf
<1>2. IsWellFoundedOn(less, fin)
  BY FS_StrictSubsetOrderingWellFounded
<1> HIDE DEF fin, less, I
<1>3. PICK i \in I : \A j \in I : <<j, i>> \notin less
  BY <1>1, <1>2, WFMin
<1>4. PICK c \in C : i = Above(c)
  BY DEF I
<1>5. ASSUME NEW d \in C, rank[c] < rank[d] PROVE FALSE
  <2>1. Above(d) \subseteq Above(c) /\ Above(d) # Above(c)
    <3>1. d \in Above(c) /\ d \notin Above(d)
      BY <1>5
    <3>2. Above(d) \subseteq Above(c)
      BY <1>5
    <3> QED BY <3>1, <3>2
  <2>2. Above(d) \in I /\ <<Above(d), Above(c)>> \in less
    BY <2>1 DEF I, less, StrictSubsetOrdering
  <2> QED BY <1>3, <1>4, <2>2
<1>6. \A d \in C : rank[d] \in Nat /\ rank[c] \in Nat
  OBVIOUS
<1> QED BY <1>4, <1>5, <1>6

\* The two ends of a conversion are never taken for the same type.  A workspace
\* with types of one name in two crates may break this, see the README.
DistinctEnds == \A f \in Converter : Endpoints[f][1] \cap Endpoints[f][2] = {}

-----------------------------------------------------------------------------
(* Types *)

\* What a finding is about, rule by rule.
LEMMA SubjectsTyped ==
    ASSUME NEW sec \in OtSection, NEW cd \in Code, NEW x \in Findings(sec, cd)
    PROVE  /\ x.rule \in {"OT001", "OT002", "OT005", "OT008", "OT010", "OT011"}
                => x.subject \in Symbol
           /\ x.rule \in {"OT006", "OT007", "OT009"} => x.subject \in Converter
           /\ x.rule \in {"OT003", "OT004"} => x.subject \in Converter \X Name
           /\ x.rule = "OT012" => x.subject \in Symbol \X Name
<1>1. /\ cd.types \subseteq Symbol /\ cd.converters \subseteq Converter
      /\ cd.constructs \subseteq Converter \X Name
      /\ cd.methods \subseteq Symbol /\ cd.primitives \subseteq Symbol \X Name
  BY DEF Code
<1>2. CASE x \in DuplicateCanonicals(sec, cd) \cup UndeclaredShapes(sec, cd)
  <2>1. x.rule \in {"OT001", "OT002"} /\ x.subject \in Symbol
    <3>1. PICK c \in Concept : \E s \in ConceptMembers(cd, c), rule \in {"OT001", "OT002"} :
             x = Finding(rule, s, c)
      BY <1>2 DEF DuplicateCanonicals, UndeclaredShapes, MembersOf
    <3> QED BY <1>1, <3>1 DEF ConceptMembers, TypesOf, Finding
  <2> QED BY <2>1
<1>3. CASE x \in BoundaryLeaks(sec, cd) \cup DirectConstructions(sec, cd)
  <2>1. x.rule \in {"OT003", "OT004"} /\ x.subject \in Converter \X Name
    BY <1>1, <1>3 DEF BoundaryLeaks, DirectConstructions, Finding
  <2> QED BY <2>1
<1>4. CASE x \in MissingConverters(sec, cd)
  <2>1. x.rule = "OT005" /\ x.subject \in Symbol
    BY <1>4 DEF MissingConverters, Finding
  <2> QED BY <2>1
<1>5. CASE x \in UNION {UnregisteredConversions(sec, cd), AdapterConversions(sec, cd),
                        ScatteredValidation(sec, cd)}
  <2>1. x.rule \in {"OT006", "OT007", "OT009"} /\ x.subject \in Converter
    BY <1>1, <1>5, KindAssumption
       DEF UnregisteredConversions, AdapterConversions, ScatteredValidation, Finding
  <2> QED BY <2>1
<1>6. CASE x \in UNION {DomainMethods(sec, cd), ShadowEnums(sec, cd), ShadowNewtypes(sec, cd)}
  <2>1. x.rule \in {"OT008", "OT010", "OT011"} /\ x.subject \in Symbol
    BY <1>1, <1>6 DEF DomainMethods, ShadowEnums, ShadowNewtypes, Roleless, Finding
  <2> QED BY <2>1
<1>7. CASE x \in PrimitiveFields(sec, cd)
  <2>1. x.rule = "OT012" /\ x.subject \in Symbol \X Name
    BY <1>1, <1>7 DEF PrimitiveFields, Finding
  <2> QED BY <2>1
<1> QED BY <1>2, <1>3, <1>4, <1>5, <1>6, <1>7 DEF Findings

\* init and accept converter leave a section, under any concept.
LEMMA SectionsTyped ==
    ASSUME NEW sec \in OtSection, NEW cd \in Code, NEW f \in Converter, NEW c
    PROVE  /\ InitSection(sec, cd) \in OtSection
           /\ AcceptConverter(sec, f, c) \in OtSection
<1>1. BuildOtSection(cd) \in OtSection
  BY BuildOtSectionWellFormed DEF Code
<1>2. InitSection(sec, cd) \in OtSection
  BY <1>1 DEF InitSection
<1>3. AcceptConverter(sec, f, c) \in OtSection
  <2> DEFINE new == [sec.converters EXCEPT ![c][f] = IF @ = "none" THEN "accepted" ELSE @]
  <2>1. new \in [Concept -> [Converter -> Source \cup {"none"}]]
    BY DEF OtSection, Source
  <2>2. AcceptConverter(sec, f, c) = [sec EXCEPT !.converters = new]
    BY DEF AcceptConverter
  <2> HIDE DEF new
  <2> QED BY <2>1, <2>2 DEF OtSection
<1> QED BY <1>2, <1>3

\* The edits leave a workspace.
LEMMA EditsTyped ==
    ASSUME TypeOK
    PROVE  /\ \A s \in Symbol : Hint(s) \in Code /\ Retire(s) \in Code
           /\ \A f \in Converter : MoveAway(f) \in Code
<1>1. ASSUME NEW s \in Symbol PROVE Hint(s) \in Code
  BY DEF TypeOK, Hint, Code
<1>2. ASSUME NEW s \in Symbol PROVE Retire(s) \in Code
  BY DEF TypeOK, Retire, Code
<1>3. ASSUME NEW f \in Converter PROVE MoveAway(f) \in Code
  BY DEF TypeOK, MoveAway, Code
<1> QED BY <1>1, <1>2, <1>3

\* A command keeps the types.
LEMMA CommandsTyped == TypeOK /\ RunCommand => TypeOK'
<1> SUFFICES ASSUME TypeOK, RunCommand PROVE TypeOK'
  OBVIOUS
<1>1. ASSUME Command PROVE commands' \in 0..MaxCommands /\ code' \in Code
  BY <1>1, ReviewAssumption DEF Command, TypeOK
<1>2. ASSUME NEW s \in Symbol, NEW c \in Concept, NEW force \in BOOLEAN,
             AcceptCanonicalCmd(s, c, force)
      PROVE  TypeOK'
  <2>1. AcceptCanonical(section, s, c) \in OtSection
    BY DEF TypeOK, AcceptCanonical, OtSection, AcceptedCanonical, Source
  <2> QED BY <1>1, <1>2, <2>1 DEF AcceptCanonicalCmd, TypeOK
<1>3. ASSUME NEW s \in Symbol, NEW c \in Concept, AcceptBoundaryCmd(s, c)
      PROVE  TypeOK'
  <2>1. AcceptBoundary(section, s, c) \in OtSection
    BY DEF TypeOK, AcceptBoundary, OtSection, Source
  <2> QED BY <1>1, <1>3, <2>1 DEF AcceptBoundaryCmd, TypeOK
<1>4. ASSUME NEW f \in Converter, NEW c \in Concept, AcceptConverterCmd(f, c)
      PROVE  TypeOK'
  BY <1>1, <1>4, SectionsTyped DEF AcceptConverterCmd, TypeOK
<1>5. CASE InitCmd
  <2>1. InitSection(section, code) \in OtSection
    BY BuildOtSectionWellFormed DEF TypeOK, Code, InitSection
  <2> QED BY <1>1, <1>5, <2>1 DEF InitCmd, TypeOK
<1> QED BY <1>2, <1>3, <1>4, <1>5 DEF RunCommand

\* An edit keeps the types, whether init is run after it or not.
LEMMA EditTyped ==
    ASSUME TypeOK, NEW new \in Code, Edit(new) \/ EditAndInit(new)
    PROVE  TypeOK'
<1>1. InitSection(section, new) \in OtSection
  BY BuildOtSectionWellFormed DEF TypeOK, Code, InitSection
<1> QED BY <1>1 DEF Edit, EditAndInit, TypeOK

\* So does an entry in the section.
LEMMA RecordTyped ==
    ASSUME TypeOK, NEW new \in OtSection, Record(new)
    PROVE  TypeOK'
BY DEF Record, TypeOK

\* A fix keeps the types.
LEMMA FixesTyped ==
    ASSUME TypeOK, NEW x \in Findings(section, code), Fix(x)
    PROVE  TypeOK'
<1> DEFINE Y == x.subject
<1>1. section \in OtSection /\ code \in Code
  BY DEF TypeOK
<1>2. /\ x.rule \in {"OT001", "OT002", "OT005", "OT008", "OT010", "OT011"} => Y \in Symbol
      /\ x.rule \in {"OT006", "OT007", "OT009"} => Y \in Converter
      /\ x.rule \in {"OT003", "OT004"} => Y[1] \in Converter
      /\ x.rule = "OT012" => Y[1] \in Symbol
  BY <1>1, SubjectsTyped
<1> HIDE DEF Y
<1>3. ASSUME NEW f \in Converter, AcceptAndInit(f, x.concept) PROVE TypeOK'
  <2>1. AcceptConverter(section, f, x.concept) \in OtSection
    BY <1>1, SectionsTyped
  <2>2. InitSection(AcceptConverter(section, f, x.concept), code) \in OtSection
    BY <1>1, <2>1, SectionsTyped
  <2> QED BY <1>3, <2>2, RecordTyped DEF AcceptAndInit
<1>4. CASE FixMember(x) \/ FixShadow(x)
  <2>1. Hint(Y) \in Code /\ Retire(Y) \in Code
    BY <1>2, <1>4, EditsTyped DEF FixMember, FixShadow
  <2> QED BY <1>4, <2>1, EditTyped DEF FixMember, FixShadow, Y
<1>5. CASE FixLeak(x)
  <2> DEFINE new == [code EXCEPT !.signature[Y[1]] = @ \ {Y[2]}]
  <2>1. new \in Code
    BY <1>1, <1>2, <1>5 DEF FixLeak, Code
  <2>2. Edit(new)
    BY <1>5 DEF FixLeak, Y
  <2> QED BY <2>1, <2>2, EditTyped
<1>6. CASE FixConstruction(x)
  <2> DEFINE new == [code EXCEPT !.constructs = @ \ {Y}]
  <2>1. new \in Code
    BY <1>1 DEF Code
  <2>2. Edit(new) \/ AcceptAndInit(Y[1], x.concept)
    BY <1>6 DEF FixConstruction, Y
  <2>3. Y[1] \in Converter
    BY <1>2, <1>6 DEF FixConstruction
  <2> QED BY <1>3, <2>1, <2>2, <2>3, EditTyped
<1>7. CASE FixMissing(x)
  <2>1. CASE AddImpl(Y, x.concept)
    <3>1. PICK f \in Converter : EditAndInit([code EXCEPT !.converters = @ \cup {f}])
      BY <2>1 DEF AddImpl
    <3>2. [code EXCEPT !.converters = @ \cup {f}] \in Code
      BY <1>1 DEF Code
    <3> QED BY <3>1, <3>2, EditTyped
  <2>2. CASE Record([section EXCEPT !.boundaries[x.concept][Y] = "none"])
    <3> DEFINE kept == [section.boundaries EXCEPT ![x.concept][Y] = "none"]
    <3>1. kept \in [Concept -> [Symbol -> Source \cup {"none"}]]
      BY <1>1 DEF OtSection, Source
    <3>2. [section EXCEPT !.boundaries[x.concept][Y] = "none"] = [section EXCEPT !.boundaries = kept]
      OBVIOUS
    <3> HIDE DEF kept
    <3>3. [section EXCEPT !.boundaries = kept] \in OtSection
      BY <1>1, <3>1 DEF OtSection
    <3> QED BY <2>2, <3>2, <3>3, RecordTyped
  <2> QED BY <1>7, <2>1, <2>2 DEF FixMissing, Y
<1>8. CASE FixUnregistered(x)
  <2>1. AcceptConverter(section, Y, x.concept) \in OtSection
    BY <1>1, <1>2, <1>8, SectionsTyped DEF FixUnregistered
  <2> QED BY <1>1, <1>8, <2>1, EditTyped, RecordTyped DEF FixUnregistered, Y
<1>9. CASE FixAdapter(x)
  <2>1. /\ [code EXCEPT !.converters = @ \ {Y}] \in Code
        /\ [code EXCEPT !.protocol = @ \cup {Y}] \in Code
    BY <1>1, <1>2, <1>9 DEF FixAdapter, Code
  <2> QED BY <1>9, <2>1, EditTyped DEF FixAdapter, Y
<1>10. CASE FixMethods(x)
  <2>1. [code EXCEPT !.methods = @ \ {Y}] \in Code
    BY <1>1 DEF Code
  <2> QED BY <1>10, <2>1, EditTyped DEF FixMethods, Y
<1>11. CASE FixValidation(x)
  <2>1. Y \in Converter
    BY <1>2, <1>11 DEF FixValidation
  <2>2. MoveAway(Y) \in Code
    BY <2>1, EditsTyped
  <2> QED BY <1>3, <1>11, <2>1, <2>2, EditTyped DEF FixValidation, Y
<1>12. CASE FixField(x)
  <2>1. [code EXCEPT !.primitives = @ \ {Y}] \in Code
    BY <1>1 DEF Code
  <2>2. Hint(Y[1]) \in Code
    BY <1>2, <1>12, EditsTyped DEF FixField
  <2> QED BY <1>12, <2>1, <2>2, EditTyped DEF FixField, Y
<1> QED
  BY <1>4, <1>5, <1>6, <1>7, <1>8, <1>9, <1>10, <1>11, <1>12 DEF Fix

\* Every behaviour stays in the types, whichever findings are followed.
THEOREM TypeCorrect == Spec => []TypeOK
<1>1. Init => TypeOK
  BY ReviewAssumption DEF Init, TypeOK
<1>2. TypeOK /\ [Next]_vars => TypeOK'
  <2> SUFFICES ASSUME TypeOK, [Next]_vars PROVE TypeOK'
    OBVIOUS
  <2>1. CASE RunCommand
    BY <2>1, CommandsTyped
  <2>2. CASE Follow
    BY <2>2, FixesTyped DEF Follow
  <2>3. CASE UNCHANGED vars
    BY <2>3 DEF vars, TypeOK
  <2> QED BY <2>1, <2>2, <2>3 DEF Next
<1> QED BY <1>1, <1>2, PTL DEF Spec

-----------------------------------------------------------------------------
(* What init builds *)

\* A symbol that has a role in a concept init built is the canonical or one of
\* the boundaries, and the concept has boundaries only if it is clustered.
LEMMA RolesOfBuilt ==
    ASSUME NEW cd \in Code, NEW s \in Symbol, NEW c \in Concept,
           HasRole(BuildOtSection(cd), s, c)
    PROVE  /\ InitCanonical(cd, c) # NoSymbol
           /\ s \in {InitCanonical(cd, c)} \cup InitBoundaries(cd, c)
           /\ s # InitCanonical(cd, c) => Clustered(cd, c)
<1> DEFINE new == BuildOtSection(cd)
<1>1. /\ new.canonical[c].symbol = InitCanonical(cd, c)
      /\ new.boundaries[c][s] # "none" => s \in InitBoundaries(cd, c)
  BY DEF BuildOtSection
<1>2. CASE IsCanonical(new, s, c)
  BY <1>1, <1>2, SymbolAssumption DEF IsCanonical
<1>3. CASE IsBoundary(new, s, c)
  <2>1. s \in InitBoundaries(cd, c)
    BY <1>1, <1>3 DEF IsBoundary
  <2>2. Clustered(cd, c)
    BY <2>1 DEF InitBoundaries
  <2>3. InitCanonical(cd, c) # NoSymbol
    BY <2>2, InitCanonicalIsHinted DEF Code
  <2> QED BY <2>1, <2>2, <2>3
<1> QED BY <1>2, <1>3 DEF HasRole

\* The first match of an end is a match.
LEMMA FirstMatchIsMatch ==
    ASSUME NEW sec, NEW f \in Converter, NEW i \in {1, 2}, Matched(sec, f, i) # {}
    PROVE  /\ FirstMatch(sec, f, i) \in Matched(sec, f, i)
           /\ FirstMatch(sec, f, i) \in Endpoints[f][i] \cap Symbol
<1> DEFINE M == Matched(sec, f, i)
           R == {TextRank[t] : t \in M}
<1>1. M \subseteq Endpoints[f][i] \cap Symbol
  BY EndpointAssumption DEF Matched
<1>2. R \subseteq Nat /\ R # {}
  BY <1>1, NameAssumption
<1> HIDE DEF R
<1>3. PICK n \in R : \A m \in R : n <= m
  BY <1>2, LeastNatural
<1>4. PICK s \in M : \A t \in M : TextRank[s] <= TextRank[t]
  BY <1>3 DEF R
<1>5. FirstMatch(sec, f, i) \in M
  BY <1>4 DEF FirstMatch
<1> QED BY <1>1, <1>5

\* Its concept is one in which it has a role.
LEMMA EndConceptIsRole ==
    ASSUME NEW sec \in OtSection, OneConceptPerSymbol(sec),
           NEW f \in Converter, NEW i \in {1, 2}, Matched(sec, f, i) # {}
    PROVE  /\ EndConcept(sec, f, i) \in Concept
           /\ FirstMatch(sec, f, i) \in Endpoints[f][i] \cap Symbol
           /\ HasRole(sec, FirstMatch(sec, f, i), EndConcept(sec, f, i))
<1>1. FirstMatch(sec, f, i) \in Endpoints[f][i] \cap Symbol
  BY FirstMatchIsMatch
<1>2. FirstMatch(sec, f, i) \in Matched(sec, f, i)
  BY FirstMatchIsMatch
<1> DEFINE s == FirstMatch(sec, f, i)
<1>3. RolesOf(sec, s) # {}
  BY <1>2 DEF Matched, HasAnyRole
<1>4. PICK c \in Concept : HasRole(sec, s, c)
  BY <1>3 DEF RolesOf
<1>5. RolesOf(sec, s) = {c}
  BY <1>1, <1>2, <1>4 DEF RolesOf, OneConceptPerSymbol
<1>6. EndConcept(sec, f, i) = c
  <2>1. ConceptRank[c] <= ConceptRank[c]
    BY ConceptAssumption
  <2> QED BY <1>5, <2>1 DEF EndConcept, LastConcept
<1> QED BY <1>1, <1>2, <1>4, <1>6

\* After init every conversion between accepted symbols of a concept is one of
\* its converters.
LEMMA BuiltIsRegistered ==
    ASSUME DistinctEnds, NEW cd \in Code
    PROVE  UnregisteredConversions(BuildOtSection(cd), cd) = {}
<1> DEFINE new == BuildOtSection(cd)
<1>1. new \in OtSection /\ OneConceptPerSymbol(new)
  BY BuildOtSectionWellFormed DEF Code, WellFormed
<1> SUFFICES ASSUME NEW f \in cd.converters,
                    \A i \in {1, 2} : Matched(new, f, i) # {},
                    EndConcept(new, f, 1) = EndConcept(new, f, 2),
                    new.converters[EndConcept(new, f, 1)][f] = "none"
             PROVE  FALSE
  BY DEF UnregisteredConversions
<1> DEFINE c == EndConcept(new, f, 1)
           s == FirstMatch(new, f, 1)
           t == FirstMatch(new, f, 2)
           accepted == {InitCanonical(cd, c)} \cup InitBoundaries(cd, c)
<1>2. f \in Converter
  BY DEF Code
<1> HIDE DEF new
<1>3. /\ c \in Concept
      /\ s \in Endpoints[f][1] \cap Symbol /\ HasRole(new, s, c)
      /\ t \in Endpoints[f][2] \cap Symbol /\ HasRole(new, t, c)
  BY <1>1, <1>2, EndConceptIsRole
<1>4. s # t
  BY <1>2, <1>3 DEF DistinctEnds
<1> HIDE DEF c, s, t
<1>5. /\ InitCanonical(cd, c) # NoSymbol
      /\ s \in accepted /\ t \in accepted
      /\ Clustered(cd, c)
  BY <1>3, <1>4, RolesOfBuilt DEF new
<1>6. f \in InitConverters(cd, c)
  BY <1>3, <1>5 DEF InitConverters
<1>7. new.converters[c][f] = "init"
  BY <1>2, <1>3, <1>6 DEF new, BuildOtSection
<1> QED BY <1>7 DEF c

\* RebuiltIsRegistered: a section that init has just built leaves OT006 nothing
\* to report, as long as the ends of a conversion are never taken for one type.
THEOREM RebuiltRegisters ==
    ASSUME DistinctEnds PROVE Spec => []RebuiltIsRegistered
<1>1. TypeOK => RebuiltIsRegistered
  BY BuiltIsRegistered DEF TypeOK, RebuiltIsRegistered
<1> QED BY <1>1, TypeCorrect, PTL

-----------------------------------------------------------------------------
(* Accepting a converter *)

\* Nothing but one converter entry changes, and none goes.
LEMMA AcceptedIsKept ==
    ASSUME NEW sec \in OtSection, NEW f \in Converter, NEW c \in Concept
    PROVE  LET new == AcceptConverter(sec, f, c) IN
           /\ new.canonical = sec.canonical
           /\ new.boundaries = sec.boundaries
           /\ new.converter_paths = sec.converter_paths
           /\ new.converters[c][f] # "none"
           /\ \A d \in Concept, g \in Converter : sec.converters[d][g] # "none" =>
                 new.converters[d][g] = sec.converters[d][g]
<1> DEFINE kept == [sec.converters[c] EXCEPT ![f] = IF @ = "none" THEN "accepted" ELSE @]
<1>1. /\ sec.converters \in [Concept -> [Converter -> Source \cup {"none"}]]
      /\ sec = [canonical |-> sec.canonical, boundaries |-> sec.boundaries,
                converters |-> sec.converters, converter_paths |-> sec.converter_paths]
  BY DEF OtSection
<1>2. AcceptConverter(sec, f, c) = [sec EXCEPT !.converters = [@ EXCEPT ![c] = kept]]
  BY DEF AcceptConverter
<1>3. /\ kept[f] # "none"
      /\ \A g \in Converter : sec.converters[c][g] # "none" => kept[g] = sec.converters[c][g]
  BY <1>1
<1> HIDE DEF kept
<1>4. [sec.converters EXCEPT ![c] = kept][c] = kept
  BY <1>1
<1>5. \A d \in Concept : d # c => [sec.converters EXCEPT ![c] = kept][d] = sec.converters[d]
  BY <1>1
<1>6. AcceptConverter(sec, f, c) =
        [canonical |-> sec.canonical, boundaries |-> sec.boundaries,
         converters |-> [sec.converters EXCEPT ![c] = kept],
         converter_paths |-> sec.converter_paths]
  BY <1>1, <1>2
<1> QED BY <1>3, <1>4, <1>5, <1>6

\* The lookups that do not read the converter entries, of two sections that
\* differ in these alone.
LEMMA LookupsAgree ==
    ASSUME NEW sec, NEW new, new.canonical = sec.canonical, new.boundaries = sec.boundaries
    PROVE  /\ \A s, d : IsCanonical(new, s, d) = IsCanonical(sec, s, d)
           /\ \A s, d : IsBoundary(new, s, d) = IsBoundary(sec, s, d)
           /\ \A d : HasEntry(new, d) = HasEntry(sec, d)
           /\ \A s : RolesOf(new, s) = RolesOf(sec, s)
           /\ \A s : HasAnyRole(new, s) = HasAnyRole(sec, s)
           /\ \A s : RoleOf(new, s) = RoleOf(sec, s)
           /\ \A n : CanonicalConcepts(new, n) = CanonicalConcepts(sec, n)
           /\ \A n : BoundaryConcepts(new, n) = BoundaryConcepts(sec, n)
           /\ \A d : OwnerFile(new, d) = OwnerFile(sec, d)
<1>1. /\ \A s, d : IsCanonical(new, s, d) = IsCanonical(sec, s, d)
      /\ \A s, d : IsBoundary(new, s, d) = IsBoundary(sec, s, d)
      /\ \A d : HasEntry(new, d) = HasEntry(sec, d)
  BY DEF IsCanonical, IsBoundary, HasEntry
<1>2. \A s : RolesOf(new, s) = RolesOf(sec, s)
  BY <1>1 DEF RolesOf, HasRole
<1>3. \A s : HasAnyRole(new, s) = HasAnyRole(sec, s)
  BY <1>2 DEF HasAnyRole
<1>4. \A s : RoleOf(new, s) = RoleOf(sec, s)
  BY <1>2 DEF RoleOf
<1>5. \A n : CanonicalConcepts(new, n) = CanonicalConcepts(sec, n)
  BY <1>1 DEF CanonicalConcepts
<1>6. \A n : BoundaryConcepts(new, n) = BoundaryConcepts(sec, n)
  BY <1>1 DEF BoundaryConcepts
<1>7. \A d : OwnerFile(new, d) = OwnerFile(sec, d)
  BY DEF OwnerFile
<1> QED BY <1>1, <1>2, <1>3, <1>4, <1>5, <1>6, <1>7

\* Hence the rules that do not read them either find the same.
LEMMA OtherRulesAgree ==
    ASSUME NEW sec, NEW new, new.canonical = sec.canonical, new.boundaries = sec.boundaries,
           NEW cd
    PROVE  /\ DuplicateCanonicals(new, cd) = DuplicateCanonicals(sec, cd)
           /\ UndeclaredShapes(new, cd) = UndeclaredShapes(sec, cd)
           /\ AdapterConversions(new, cd) = AdapterConversions(sec, cd)
           /\ DomainMethods(new, cd) = DomainMethods(sec, cd)
           /\ ShadowEnums(new, cd) = ShadowEnums(sec, cd)
           /\ ShadowNewtypes(new, cd) = ShadowNewtypes(sec, cd)
           /\ PrimitiveFields(new, cd) = PrimitiveFields(sec, cd)
<1>1. /\ \A s, d : IsCanonical(new, s, d) = IsCanonical(sec, s, d)
      /\ \A d : HasEntry(new, d) = HasEntry(sec, d)
      /\ \A s : HasAnyRole(new, s) = HasAnyRole(sec, s)
      /\ \A s : RoleOf(new, s) = RoleOf(sec, s)
      /\ \A n : CanonicalConcepts(new, n) = CanonicalConcepts(sec, n)
      /\ \A n : BoundaryConcepts(new, n) = BoundaryConcepts(sec, n)
  BY LookupsAgree
<1>2. \A s : RoleForType(new, cd, s) = RoleForType(sec, cd, s)
  BY <1>1 DEF RoleForType
<1>3. \A d, role : MembersOf(new, cd, d, role) = MembersOf(sec, cd, d, role)
  BY <1>2 DEF MembersOf
<1>4. \A d : Reference(new, cd, d) = Reference(sec, cd, d)
  BY <1>3 DEF Reference
<1>5. \A d : Anchored(new, cd, d) = Anchored(sec, cd, d)
  BY <1>3, <1>4 DEF Anchored
<1>6. DuplicateCanonicals(new, cd) = DuplicateCanonicals(sec, cd)
  BY <1>3, <1>4, <1>5 DEF DuplicateCanonicals
<1>7. UndeclaredShapes(new, cd) = UndeclaredShapes(sec, cd)
  BY <1>3, <1>4, <1>5 DEF UndeclaredShapes
<1>8. /\ AdapterConversions(new, cd) = AdapterConversions(sec, cd)
      /\ DomainMethods(new, cd) = DomainMethods(sec, cd)
  BY <1>1 DEF AdapterConversions, DomainMethods
<1>9. Roleless(new, cd) = Roleless(sec, cd)
  BY <1>1 DEF Roleless
<1>10. \A s : ShadowedConcepts(new, cd, s) = ShadowedConcepts(sec, cd, s)
  BY <1>1 DEF ShadowedConcepts
<1>11. ShadowEnums(new, cd) = ShadowEnums(sec, cd)
  BY <1>9, <1>10 DEF ShadowEnums
<1>12. /\ ShadowNewtypes(new, cd) = ShadowNewtypes(sec, cd)
       /\ PrimitiveFields(new, cd) = PrimitiveFields(sec, cd)
  BY <1>1, <1>9 DEF ShadowNewtypes, PrimitiveFields
<1> QED BY <1>6, <1>7, <1>8, <1>11, <1>12

\* Which rule a finding about a function is of.
LEMMA RuleOfFinding ==
    ASSUME NEW sec \in OtSection, NEW cd \in Code, NEW x \in Findings(sec, cd)
    PROVE  /\ x.rule = "OT003" => x \in BoundaryLeaks(sec, cd)
           /\ x.rule = "OT004" => x \in DirectConstructions(sec, cd)
           /\ x.rule = "OT009" => x \in ScatteredValidation(sec, cd)
<1>1. ASSUME x \in DuplicateCanonicals(sec, cd) \cup UndeclaredShapes(sec, cd)
      PROVE  x.rule \in {"OT001", "OT002"}
  <2>1. PICK c \in Concept : \E s \in cd.types, rule \in {"OT001", "OT002"} :
           x = Finding(rule, s, c)
    BY <1>1 DEF DuplicateCanonicals, UndeclaredShapes, MembersOf, ConceptMembers, TypesOf
  <2> QED BY <2>1 DEF Finding
<1>2. /\ x \in BoundaryLeaks(sec, cd) => x.rule = "OT003"
      /\ x \in DirectConstructions(sec, cd) => x.rule = "OT004"
  BY DEF BoundaryLeaks, DirectConstructions, Finding
<1>3. /\ x \in MissingConverters(sec, cd) => x.rule = "OT005"
      /\ x \in UnregisteredConversions(sec, cd) => x.rule = "OT006"
      /\ x \in AdapterConversions(sec, cd) => x.rule = "OT007"
  BY DEF MissingConverters, UnregisteredConversions, AdapterConversions, Finding
<1>4. /\ x \in DomainMethods(sec, cd) => x.rule = "OT008"
      /\ x \in ScatteredValidation(sec, cd) => x.rule = "OT009"
  BY DEF DomainMethods, ScatteredValidation, Finding
<1>5. /\ x \in ShadowEnums(sec, cd) => x.rule = "OT010"
      /\ x \in ShadowNewtypes(sec, cd) => x.rule = "OT011"
      /\ x \in PrimitiveFields(sec, cd) => x.rule = "OT012"
  BY DEF ShadowEnums, ShadowNewtypes, PrimitiveFields, Finding
<1> QED BY <1>1, <1>2, <1>3, <1>4, <1>5 DEF Findings

\* The last of some concepts is one of them.
LEMMA LastConceptIsOne ==
    ASSUME NEW C, C \subseteq Concept, C # {}
    PROVE  LastConcept(C) \in C
<1>1. PICK c \in C : \A d \in C : ConceptRank[d] <= ConceptRank[c]
  BY ConceptAssumption, GreatestRank
<1> QED BY <1>1 DEF LastConcept

\* The concept of an end that matches something is a concept.
LEMMA EndConceptIsConcept ==
    ASSUME NEW sec, NEW f \in Converter, NEW i \in {1, 2}, Matched(sec, f, i) # {}
    PROVE  EndConcept(sec, f, i) \in Concept
BY FirstMatchIsMatch, LastConceptIsOne DEF EndConcept, Matched, HasAnyRole, RolesOf

\* Each rule about functions and converters finds no more than before, and
\* nothing about the function accepted.
LEMMA ConverterRulesShrink ==
    ASSUME NEW sec \in OtSection, NEW f \in Converter, NEW c \in Concept, NEW cd \in Code
    PROVE  LET new == AcceptConverter(sec, f, c) IN
           /\ BoundaryLeaks(new, cd) \subseteq {x \in BoundaryLeaks(sec, cd) : x.subject[1] # f}
           /\ DirectConstructions(new, cd)
                 \subseteq {x \in DirectConstructions(sec, cd) : x.subject[1] # f}
           /\ ScatteredValidation(new, cd)
                 \subseteq {x \in ScatteredValidation(sec, cd) : x.subject # f}
           /\ MissingConverters(new, cd) \subseteq MissingConverters(sec, cd)
           /\ UnregisteredConversions(new, cd) \subseteq UnregisteredConversions(sec, cd)
<1> DEFINE new == AcceptConverter(sec, f, c)
<1>1. /\ new.canonical = sec.canonical /\ new.boundaries = sec.boundaries
      /\ new.converter_paths = sec.converter_paths
      /\ new.converters[c][f] # "none"
      /\ \A d \in Concept, g \in Converter : sec.converters[d][g] # "none" =>
            new.converters[d][g] = sec.converters[d][g]
  BY AcceptedIsKept
<1> HIDE DEF new
<1>2. AcceptedConverters(sec) \cup {f} \subseteq AcceptedConverters(new)
  BY <1>1 DEF AcceptedConverters
<1>3. /\ \A s, d : IsBoundary(new, s, d) = IsBoundary(sec, s, d)
      /\ \A d : HasEntry(new, d) = HasEntry(sec, d)
      /\ \A s : RolesOf(new, s) = RolesOf(sec, s)
      /\ \A s : HasAnyRole(new, s) = HasAnyRole(sec, s)
      /\ \A n : CanonicalConcepts(new, n) = CanonicalConcepts(sec, n)
      /\ \A n : BoundaryConcepts(new, n) = BoundaryConcepts(sec, n)
      /\ \A d : OwnerFile(new, d) = OwnerFile(sec, d)
  BY <1>1, LookupsAgree
<1>4. \A n : OwnedConcepts(new, cd, n) = OwnedConcepts(sec, cd, n)
  BY <1>1, <1>3 DEF OwnedConcepts
<1>5. cd.constructs \subseteq Converter \X Name /\ cd.converters \subseteq Converter
  BY DEF Code
<1>6. BoundaryLeaks(new, cd) \subseteq {x \in BoundaryLeaks(sec, cd) : x.subject[1] # f}
  <2>1. BoundaryFiles(new, cd) = BoundaryFiles(sec, cd)
    BY <1>3 DEF BoundaryFiles
  <2> SUFFICES ASSUME NEW x \in BoundaryLeaks(new, cd)
               PROVE  x \in BoundaryLeaks(sec, cd) /\ x.subject[1] # f
    OBVIOUS
  <2>2. PICK u \in Converter \X Name :
           /\ x = Finding("OT003", u, FirstConcept(BoundaryConcepts(new, u[2])))
           /\ u[2] \in cd.signature[u[1]] /\ BoundaryConcepts(new, u[2]) # {}
           /\ u[1] \notin AcceptedConverters(new)
           /\ FunctionFile[u[1]] \notin BoundaryFiles(new, cd)
    BY DEF BoundaryLeaks
  <2>3. u[1] \notin AcceptedConverters(sec) /\ u[1] # f
    BY <1>2, <2>2
  <2>4. x = Finding("OT003", u, FirstConcept(BoundaryConcepts(sec, u[2])))
    BY <1>3, <2>2
  <2>5. x.subject = u
    BY <2>4 DEF Finding
  <2>6. x \in BoundaryLeaks(sec, cd)
    BY <1>3, <2>1, <2>2, <2>3, <2>4 DEF BoundaryLeaks
  <2> QED BY <2>3, <2>5, <2>6
<1>7. DirectConstructions(new, cd) \subseteq {x \in DirectConstructions(sec, cd) : x.subject[1] # f}
  <2> SUFFICES ASSUME NEW x \in DirectConstructions(new, cd)
               PROVE  x \in DirectConstructions(sec, cd) /\ x.subject[1] # f
    OBVIOUS
  <2>1. PICK u \in cd.constructs :
           /\ x = Finding("OT004", u, LastConcept(OwnedConcepts(new, cd, u[2])))
           /\ OwnedConcepts(new, cd, u[2]) # {}
           /\ FunctionFile[u[1]] # OwnerFile(new, LastConcept(OwnedConcepts(new, cd, u[2])))
           /\ ~Excused(new, u[1])
    BY DEF DirectConstructions
  <2>2. ~Excused(sec, u[1]) /\ u[1] # f
    BY <1>1, <1>2, <2>1 DEF Excused
  <2>3. x = Finding("OT004", u, LastConcept(OwnedConcepts(sec, cd, u[2])))
    BY <1>4, <2>1
  <2>4. x.subject = u
    BY <2>3 DEF Finding
  <2>5. x \in DirectConstructions(sec, cd)
    BY <1>3, <1>4, <2>1, <2>2, <2>3 DEF DirectConstructions
  <2> QED BY <2>2, <2>4, <2>5
<1>8. ScatteredValidation(new, cd) \subseteq {x \in ScatteredValidation(sec, cd) : x.subject # f}
  <2>1. \A g : CanonicalsIn(new, cd, g) = CanonicalsIn(sec, cd, g)
    BY <1>4 DEF CanonicalsIn
  <2>2. \A g : FirstCanonicalIn(new, cd, g) = FirstCanonicalIn(sec, cd, g)
    BY <2>1 DEF FirstCanonicalIn
  <2>3. \A g : JudgedConcept(new, cd, g) = JudgedConcept(sec, cd, g)
    BY <1>4, <2>2 DEF JudgedConcept
  <2> SUFFICES ASSUME NEW x \in ScatteredValidation(new, cd)
               PROVE  x \in ScatteredValidation(sec, cd) /\ x.subject # f
    OBVIOUS
  <2>4. PICK g \in Validator \ AcceptedConverters(new) :
           /\ x = Finding("OT009", g, JudgedConcept(new, cd, g))
           /\ CanonicalsIn(new, cd, g) # {}
           /\ FunctionFile[g] # OwnerFile(new, JudgedConcept(new, cd, g))
    BY DEF ScatteredValidation
  <2>5. g \in Validator \ AcceptedConverters(sec) /\ g # f
    BY <1>2, <2>4
  <2>6. x = Finding("OT009", g, JudgedConcept(sec, cd, g))
    BY <2>3, <2>4
  <2>7. x.subject = g
    BY <2>6 DEF Finding
  <2>8. x \in ScatteredValidation(sec, cd)
    BY <1>3, <2>1, <2>3, <2>4, <2>5, <2>6 DEF ScatteredValidation
  <2> QED BY <2>5, <2>7, <2>8
<1>9. MissingConverters(new, cd) \subseteq MissingConverters(sec, cd)
  <2> SUFFICES ASSUME NEW b \in Symbol \X Concept, IsBoundary(new, b[1], b[2]),
                      \A g \in Converter : new.converters[b[2]][g] # "none" =>
                          NameOf[b[1]] \notin EntryEnds(new, b[2], g)
               PROVE  /\ IsBoundary(sec, b[1], b[2])
                      /\ \A g \in Converter : sec.converters[b[2]][g] # "none" =>
                            NameOf[b[1]] \notin EntryEnds(sec, b[2], g)
    BY DEF MissingConverters
  <2>1. ASSUME NEW g \in Converter, sec.converters[b[2]][g] # "none"
        PROVE  NameOf[b[1]] \notin EntryEnds(sec, b[2], g)
    <3>1. new.converters[b[2]][g] = sec.converters[b[2]][g]
      BY <1>1, <2>1
    <3>2. EntryEnds(new, b[2], g) = EntryEnds(sec, b[2], g)
      BY <3>1 DEF EntryEnds
    <3> QED BY <2>1, <3>1, <3>2
  <2> QED BY <1>3, <2>1
<1>10. UnregisteredConversions(new, cd) \subseteq UnregisteredConversions(sec, cd)
  <2>1. \A g, i : Matched(new, g, i) = Matched(sec, g, i)
    BY <1>3 DEF Matched
  <2>2. \A g, i : EndConcept(new, g, i) = EndConcept(sec, g, i)
    BY <1>3, <2>1 DEF EndConcept, FirstMatch
  <2> SUFFICES ASSUME NEW g \in cd.converters, \A i \in {1, 2} : Matched(new, g, i) # {},
                      EndConcept(new, g, 1) = EndConcept(new, g, 2),
                      new.converters[EndConcept(new, g, 1)][g] = "none"
               PROVE  /\ Finding("OT006", g, EndConcept(new, g, 1))
                           = Finding("OT006", g, EndConcept(sec, g, 1))
                      /\ \A i \in {1, 2} : Matched(sec, g, i) # {}
                      /\ EndConcept(sec, g, 1) = EndConcept(sec, g, 2)
                      /\ sec.converters[EndConcept(sec, g, 1)][g] = "none"
    BY DEF UnregisteredConversions
  <2>3. g \in Converter /\ EndConcept(sec, g, 1) \in Concept
    BY <1>5, <2>1, EndConceptIsConcept
  <2>4. sec.converters[EndConcept(sec, g, 1)][g] = "none"
    BY <1>1, <2>2, <2>3
  <2> QED BY <2>1, <2>2, <2>4
<1> QED BY <1>6, <1>7, <1>8, <1>9, <1>10 DEF new

\* AcceptingConverterAnswers: to accept a converter settles OT003, OT004 and
\* OT009 for the function and adds no finding of any rule.
THEOREM ConvertersAnswer == Spec => AcceptingConverterAnswers
<1>1. ASSUME TypeOK, NEW f \in Converter, NEW c \in Concept, AcceptConverterCmd(f, c)
      PROVE  ConverterAnswered(f)
  <2> DEFINE new == AcceptConverter(section, f, c)
  <2>1. section \in OtSection /\ code \in Code
    BY <1>1 DEF TypeOK
  <2>2. section' = new /\ code' = code
    BY <1>1 DEF AcceptConverterCmd, Command
  <2>3. new.canonical = section.canonical /\ new.boundaries = section.boundaries
    BY <2>1, AcceptedIsKept
  <2>4. /\ BoundaryLeaks(new, code)
              \subseteq {x \in BoundaryLeaks(section, code) : x.subject[1] # f}
        /\ DirectConstructions(new, code)
              \subseteq {x \in DirectConstructions(section, code) : x.subject[1] # f}
        /\ ScatteredValidation(new, code)
              \subseteq {x \in ScatteredValidation(section, code) : x.subject # f}
        /\ MissingConverters(new, code) \subseteq MissingConverters(section, code)
        /\ UnregisteredConversions(new, code) \subseteq UnregisteredConversions(section, code)
    BY <2>1, ConverterRulesShrink
  <2> HIDE DEF new
  <2>5. new \in OtSection
    BY <2>1, SectionsTyped DEF new
  <2>6. Findings(new, code) \subseteq Findings(section, code)
    BY <2>3, <2>4, OtherRulesAgree DEF Findings
  <2>7. ASSUME NEW x \in Findings(new, code)
        PROVE  /\ x.rule \in {"OT003", "OT004"} => x.subject[1] # f
               /\ x.rule = "OT009" => x.subject # f
    <3>1. /\ x.rule = "OT003" => x \in BoundaryLeaks(new, code)
          /\ x.rule = "OT004" => x \in DirectConstructions(new, code)
          /\ x.rule = "OT009" => x \in ScatteredValidation(new, code)
      BY <2>1, <2>5, <2>7, RuleOfFinding
    <3> QED BY <2>4, <3>1
  <2>8. Topics(section', code') \subseteq Topics(section, code)
    BY <2>2, <2>6 DEF Topics
  <2>9. ASSUME NEW t \in Topics(section', code')
        PROVE  t \notin ({"OT003", "OT004"} \X {<<f, n>> : n \in Name}) \cup {<<"OT009", f>>}
    <3>1. PICK x \in Findings(new, code) : t = <<x.rule, x.subject>>
      BY <2>2, <2>9 DEF Topics
    <3> QED BY <2>7, <3>1
  <2> QED BY <2>8, <2>9 DEF ConverterAnswered
<1>2. TypeOK /\ [Next]_vars =>
        [\A f \in Converter, c \in Concept : AcceptConverterCmd(f, c) => ConverterAnswered(f)]_vars
  BY <1>1
<1> QED BY <1>2, TypeCorrect, PTL DEF Spec, AcceptingConverterAnswers

-----------------------------------------------------------------------------
(* Accepting a boundary *)

\* role_of, of a symbol that has a role, is a concept in which it has one.
LEMMA RoleOfIsRole ==
    ASSUME NEW sec, NEW s, HasAnyRole(sec, s)
    PROVE  RoleOf(sec, s) \in RolesOf(sec, s)
<1> DEFINE C == RolesOf(sec, s)
           R == {ConceptRank[d] : d \in C}
<1>1. C \subseteq Concept /\ C # {}
  BY DEF HasAnyRole, RolesOf
<1>2. R \subseteq Nat /\ R # {}
  BY <1>1, ConceptAssumption
<1> HIDE DEF R
<1>3. PICK n \in R : \A m \in R : n <= m
  BY <1>2, LeastNatural
<1>4. PICK c \in C : \A d \in C : ConceptRank[c] <= ConceptRank[d]
  BY <1>3 DEF R
<1> QED BY <1>4 DEF RoleOf

\* One boundary entry changes, and the symbol has its only role in that concept.
LEMMA BoundaryIsKept ==
    ASSUME NEW sec \in OtSection, NEW s \in Symbol, NEW c \in Concept
    PROVE  LET new == AcceptBoundary(sec, s, c) IN
           /\ new.canonical = sec.canonical
           /\ new.converters = sec.converters
           /\ new.converter_paths = sec.converter_paths
           /\ IsBoundary(new, s, c)
           /\ \A t \in Symbol, d \in Concept :
                 t # s \/ d # c => new.boundaries[d][t] = sec.boundaries[d][t]
<1> DEFINE marked == [sec.boundaries[c] EXCEPT ![s] = "accepted"]
<1>1. /\ sec.boundaries \in [Concept -> [Symbol -> Source \cup {"none"}]]
      /\ sec = [canonical |-> sec.canonical, boundaries |-> sec.boundaries,
                converters |-> sec.converters, converter_paths |-> sec.converter_paths]
  BY DEF OtSection
<1>2. AcceptBoundary(sec, s, c) = [sec EXCEPT !.boundaries = [@ EXCEPT ![c] = marked]]
  BY DEF AcceptBoundary
<1>3. /\ marked[s] = "accepted"
      /\ \A t \in Symbol : t # s => marked[t] = sec.boundaries[c][t]
  BY <1>1
<1> HIDE DEF marked
<1>4. [sec.boundaries EXCEPT ![c] = marked][c] = marked
  BY <1>1
<1>5. \A d \in Concept : d # c => [sec.boundaries EXCEPT ![c] = marked][d] = sec.boundaries[d]
  BY <1>1
<1>6. AcceptBoundary(sec, s, c) =
        [canonical |-> sec.canonical,
         boundaries |-> [sec.boundaries EXCEPT ![c] = marked],
         converters |-> sec.converters, converter_paths |-> sec.converter_paths]
  BY <1>1, <1>2
<1> QED BY <1>3, <1>4, <1>5, <1>6 DEF IsBoundary

\* A section that gains the boundary s of c, as accept writes it.
Gains(sec, new, s, c) ==
    /\ \A d : HasEntry(new, d) = HasEntry(sec, d)
    /\ \A t, d : IsCanonical(new, t, d) = IsCanonical(sec, t, d)
    /\ \A d : new.canonical[d] = sec.canonical[d]
    /\ new.converters = sec.converters /\ new.converter_paths = sec.converter_paths
    /\ IsBoundary(new, s, c) /\ ~IsCanonical(sec, s, c)
    /\ \A t \in Symbol, d \in Concept :
          t # s \/ d # c => IsBoundary(new, t, d) = IsBoundary(sec, t, d)
    /\ RolesOf(sec, s) # {} => RoleOf(sec, s) = c

LEMMA AcceptGains ==
    ASSUME NEW sec \in OtSection, NEW s \in Symbol, NEW c \in Concept, NEW air,
           CanAcceptBoundary(sec, air, s, c)
    PROVE  Gains(sec, AcceptBoundary(sec, s, c), s, c)
<1> DEFINE new == AcceptBoundary(sec, s, c)
<1>1. /\ new.canonical = sec.canonical /\ new.converters = sec.converters
      /\ new.converter_paths = sec.converter_paths /\ IsBoundary(new, s, c)
      /\ \A t \in Symbol, d \in Concept :
            t # s \/ d # c => new.boundaries[d][t] = sec.boundaries[d][t]
  BY BoundaryIsKept
<1> HIDE DEF new
<1>2. ~IsCanonical(sec, s, c) /\ (RolesOf(sec, s) # {} => RoleOf(sec, s) = c)
  BY DEF CanAcceptBoundary, RoleElsewhere
<1>3. \A t \in Symbol, d \in Concept :
         t # s \/ d # c => IsBoundary(new, t, d) = IsBoundary(sec, t, d)
  BY <1>1 DEF IsBoundary
<1>4. /\ \A d : HasEntry(new, d) = HasEntry(sec, d)
      /\ \A t, d : IsCanonical(new, t, d) = IsCanonical(sec, t, d)
      /\ \A d : new.canonical[d] = sec.canonical[d]
  BY <1>1 DEF HasEntry, IsCanonical
<1> QED BY <1>1, <1>2, <1>3, <1>4 DEF Gains, new

\* No other symbol gains or loses a role, the accepted one has a role then, and if it had
\* one before, it was in the same concept.
LEMMA RolesAfterGain ==
    ASSUME NEW sec, NEW new, NEW s \in Symbol, NEW c \in Concept, Gains(sec, new, s, c)
    PROVE  /\ \A t \in Symbol : t # s => RolesOf(new, t) = RolesOf(sec, t)
           /\ RolesOf(sec, s) # {} => RolesOf(new, s) = RolesOf(sec, s)
           /\ HasAnyRole(new, s) /\ RoleOf(new, s) = c
<1>1. \A t \in Symbol : t # s => RolesOf(new, t) = RolesOf(sec, t)
  BY DEF Gains, RolesOf, HasRole
<1>2. RolesOf(new, s) = RolesOf(sec, s) \cup {c}
  BY DEF Gains, RolesOf, HasRole
<1>3. RolesOf(sec, s) # {} => c \in RolesOf(sec, s)
  BY RoleOfIsRole DEF Gains, HasAnyRole
<1>4. RolesOf(sec, s) # {} => RolesOf(new, s) = RolesOf(sec, s)
  BY <1>2, <1>3
<1>5. RoleOf(new, s) = c
  <2>1. CASE RolesOf(sec, s) # {}
    <3>1. RoleOf(new, s) = RoleOf(sec, s)
      BY <1>4, <2>1 DEF RoleOf
    <3> QED BY <2>1, <3>1 DEF Gains
  <2>2. CASE RolesOf(sec, s) = {}
    <3>1. HasAnyRole(new, s) /\ RolesOf(new, s) = {c}
      BY <1>2, <2>2 DEF HasAnyRole
    <3> QED BY <3>1, RoleOfIsRole
  <2> QED BY <2>1, <2>2
<1> QED BY <1>1, <1>2, <1>4, <1>5 DEF HasAnyRole

\* Findings about clusters are of two rules.
LEMMA ClusterRules ==
    ASSUME NEW sec, NEW cd, NEW x \in DuplicateCanonicals(sec, cd) \cup UndeclaredShapes(sec, cd)
    PROVE  x.rule \in {"OT001", "OT002"}
<1>1. PICK c \in Concept, s \in cd.types, rule \in {"OT001", "OT002"} : x = Finding(rule, s, c)
  BY DEF DuplicateCanonicals, UndeclaredShapes, MembersOf, ConceptMembers, TypesOf
<1> QED BY <1>1 DEF Finding

\* Something in F speaks of what x is about, for the same rule.
Says(F, x) == \E y \in F : y.rule = x.rule /\ y.subject = x.subject

\* Clusters keep their canonicals, and the accepted type is no undeclared member any more.
LEMMA ClustersAfterGain ==
    ASSUME NEW sec, NEW new, NEW s \in Symbol, NEW c \in Concept, Gains(sec, new, s, c),
           NEW cd \in Code, s \notin cd.canonical
    PROVE  /\ DuplicateCanonicals(new, cd) = DuplicateCanonicals(sec, cd)
           /\ \A x \in UndeclaredShapes(sec, cd) :
                 x.subject # s => x \in UndeclaredShapes(new, cd)
           /\ \A x \in DuplicateCanonicals(new, cd) \cup UndeclaredShapes(new, cd) : x.subject # s
<1>1. /\ \A t \in Symbol : t # s => RolesOf(new, t) = RolesOf(sec, t)
      /\ HasAnyRole(new, s) /\ RoleOf(new, s) = c
  BY RolesAfterGain
<1>2. \A t \in Symbol : t # s => RoleForType(new, cd, t) = RoleForType(sec, cd, t)
  <2> SUFFICES ASSUME NEW t \in Symbol, t # s
               PROVE  RoleForType(new, cd, t) = RoleForType(sec, cd, t)
    OBVIOUS
  <2>1. RolesOf(new, t) = RolesOf(sec, t)
    BY <1>1
  <2>2. HasAnyRole(new, t) = HasAnyRole(sec, t) /\ RoleOf(new, t) = RoleOf(sec, t)
    BY <2>1 DEF HasAnyRole, RoleOf
  <2> QED BY <2>2 DEF RoleForType, Gains
<1>3. RoleForType(new, cd, s) = "boundary" /\ RoleForType(sec, cd, s) # "canonical"
  <2>1. ~IsCanonical(new, s, c) /\ ~IsCanonical(sec, s, c)
    BY DEF Gains
  <2>2. RoleForType(new, cd, s) = "boundary"
    BY <1>1, <2>1 DEF RoleForType
  <2>3. HasAnyRole(sec, s) => RoleOf(sec, s) = c
    BY DEF Gains, HasAnyRole
  <2> QED BY <2>1, <2>2, <2>3 DEF RoleForType
<1>4. \A d : ConceptMembers(cd, d) \subseteq Symbol
  BY DEF ConceptMembers, TypesOf, Code
<1>5. \A d : MembersOf(new, cd, d, "canonical") = MembersOf(sec, cd, d, "canonical")
  BY <1>2, <1>3, <1>4 DEF MembersOf
<1>6. \A d : MembersOf(new, cd, d, "unknown") = MembersOf(sec, cd, d, "unknown") \ {s}
  BY <1>2, <1>3, <1>4 DEF MembersOf
<1>7. \A d : Reference(new, cd, d) = Reference(sec, cd, d)
  BY <1>5 DEF Reference
<1>8. \A d : Anchored(new, cd, d) = Anchored(sec, cd, d)
  BY <1>5, <1>7 DEF Anchored
<1>9. DuplicateCanonicals(new, cd) = DuplicateCanonicals(sec, cd)
  BY <1>5, <1>7, <1>8 DEF DuplicateCanonicals
<1>10. ASSUME NEW x \in UndeclaredShapes(sec, cd), x.subject # s
       PROVE  x \in UndeclaredShapes(new, cd)
  <2>1. PICK d \in Concept, t \in cd.types :
           /\ t \in MembersOf(sec, cd, d, "unknown")
           /\ Anchored(sec, cd, d)
           /\ <<t, Reference(sec, cd, d)>> \in Alike
           /\ x = Finding("OT002", t, d)
    BY <1>10 DEF UndeclaredShapes, MembersOf, ConceptMembers, TypesOf
  <2>2. t # s
    BY <1>10, <2>1 DEF Finding
  <2>3. t \in MembersOf(new, cd, d, "unknown")
    BY <1>6, <2>1, <2>2
  <2> QED BY <1>7, <1>8, <2>1, <2>3 DEF UndeclaredShapes
<1>11. ASSUME NEW x \in DuplicateCanonicals(new, cd) \cup UndeclaredShapes(new, cd)
       PROVE  x.subject # s
  <2>1. PICK d \in Concept, rule \in {"OT001", "OT002"}, t \in cd.types :
           /\ RoleForType(new, cd, t) \in {"canonical", "unknown"}
           /\ x = Finding(rule, t, d)
    BY <1>11 DEF DuplicateCanonicals, UndeclaredShapes, MembersOf, ConceptMembers, TypesOf
  <2> QED BY <1>3, <2>1 DEF Finding
<1> QED BY <1>9, <1>10, <1>11

\* Names of canonicals stay what they are, names of boundaries become more.
LEMMA NamesAfterGain ==
    ASSUME NEW sec, NEW new, NEW s \in Symbol, NEW c \in Concept, Gains(sec, new, s, c),
           NEW cd
    PROVE  /\ \A n : CanonicalConcepts(new, n) = CanonicalConcepts(sec, n)
           /\ \A n : OwnedConcepts(new, cd, n) = OwnedConcepts(sec, cd, n)
           /\ \A n : BoundaryConcepts(sec, n) \subseteq BoundaryConcepts(new, n)
           /\ \A d : OwnerFile(new, d) = OwnerFile(sec, d)
           /\ AcceptedConverters(new) = AcceptedConverters(sec)
<1>1. \A n : CanonicalConcepts(new, n) = CanonicalConcepts(sec, n)
  BY DEF Gains, CanonicalConcepts
<1>2. \A n : OwnedConcepts(new, cd, n) = OwnedConcepts(sec, cd, n)
  BY <1>1 DEF Gains, OwnedConcepts
<1>3. \A t \in Symbol, d \in Concept : IsBoundary(sec, t, d) => IsBoundary(new, t, d)
  BY DEF Gains
<1>4. \A n : BoundaryConcepts(sec, n) \subseteq BoundaryConcepts(new, n)
  BY <1>3 DEF BoundaryConcepts
<1>5. \A d : OwnerFile(new, d) = OwnerFile(sec, d)
  BY DEF Gains, OwnerFile
<1>6. AcceptedConverters(new) = AcceptedConverters(sec)
  BY DEF Gains, AcceptedConverters
<1> QED BY <1>1, <1>2, <1>4, <1>5, <1>6

\* Rules about functions and converters, but for OT006: what they say they go on saying,
\* unless the function is in the file of the boundary.
LEMMA FunctionsAfterGain ==
    ASSUME NEW sec, NEW new, NEW s \in Symbol, NEW c \in Concept, Gains(sec, new, s, c),
           NEW cd \in Code
    PROVE  /\ \A x \in BoundaryLeaks(sec, cd) :
                 FunctionFile[x.subject[1]] # FileOf[s] => Says(BoundaryLeaks(new, cd), x)
           /\ DirectConstructions(new, cd) = DirectConstructions(sec, cd)
           /\ ScatteredValidation(new, cd) = ScatteredValidation(sec, cd)
           /\ MissingConverters(sec, cd) \subseteq MissingConverters(new, cd)
           /\ \A x \in AdapterConversions(sec, cd) : Says(AdapterConversions(new, cd), x)
           /\ \A x \in DomainMethods(sec, cd) : Says(DomainMethods(new, cd), x)
<1>1. /\ \A n : OwnedConcepts(new, cd, n) = OwnedConcepts(sec, cd, n)
      /\ \A n : BoundaryConcepts(sec, n) \subseteq BoundaryConcepts(new, n)
      /\ \A d : OwnerFile(new, d) = OwnerFile(sec, d)
      /\ AcceptedConverters(new) = AcceptedConverters(sec)
  BY NamesAfterGain
<1>2. ASSUME NEW x \in BoundaryLeaks(sec, cd), FunctionFile[x.subject[1]] # FileOf[s]
      PROVE  Says(BoundaryLeaks(new, cd), x)
  <2>1. PICK u \in Converter \X Name :
           /\ u[2] \in cd.signature[u[1]]
           /\ BoundaryConcepts(sec, u[2]) # {}
           /\ u[1] \notin AcceptedConverters(sec)
           /\ FunctionFile[u[1]] \notin BoundaryFiles(sec, cd)
           /\ x = Finding("OT003", u, FirstConcept(BoundaryConcepts(sec, u[2])))
    BY <1>2 DEF BoundaryLeaks
  <2>2. FunctionFile[u[1]] # FileOf[s]
    BY <1>2, <2>1 DEF Finding
  <2>3. BoundaryFiles(new, cd) \subseteq BoundaryFiles(sec, cd) \cup {FileOf[s]}
    <3>1. \A t \in cd.types : t \in Symbol
      BY DEF Code
    <3> QED BY <3>1 DEF Gains, BoundaryFiles
  <2> DEFINE y == Finding("OT003", u, FirstConcept(BoundaryConcepts(new, u[2])))
  <2>4. BoundaryConcepts(new, u[2]) # {}
    BY <1>1, <2>1
  <2>5. y \in BoundaryLeaks(new, cd)
    BY <1>1, <2>1, <2>2, <2>3, <2>4 DEF BoundaryLeaks
  <2>6. y.rule = x.rule /\ y.subject = x.subject
    BY <2>1 DEF Finding
  <2> QED BY <2>5, <2>6 DEF Says
<1>3. DirectConstructions(new, cd) = DirectConstructions(sec, cd)
  <2>1. \A f : Excused(new, f) = Excused(sec, f)
    BY <1>1 DEF Excused, Gains
  <2> QED BY <1>1, <2>1 DEF DirectConstructions
<1>4. ScatteredValidation(new, cd) = ScatteredValidation(sec, cd)
  <2>1. \A g : CanonicalsIn(new, cd, g) = CanonicalsIn(sec, cd, g)
    BY <1>1 DEF CanonicalsIn
  <2>2. \A g : FirstCanonicalIn(new, cd, g) = FirstCanonicalIn(sec, cd, g)
    BY <2>1 DEF FirstCanonicalIn
  <2>3. \A g : JudgedConcept(new, cd, g) = JudgedConcept(sec, cd, g)
    BY <1>1, <2>2 DEF JudgedConcept
  <2> QED BY <1>1, <2>1, <2>3 DEF ScatteredValidation
<1>5. MissingConverters(sec, cd) \subseteq MissingConverters(new, cd)
  <2>1. \A t \in Symbol, d \in Concept : IsBoundary(sec, t, d) => IsBoundary(new, t, d)
    BY DEF Gains
  <2>2. \A d, f : EntryEnds(new, d, f) = EntryEnds(sec, d, f)
    BY DEF Gains, EntryEnds
  <2>3. new.converters = sec.converters
    BY DEF Gains
  <2> QED BY <2>1, <2>2, <2>3 DEF MissingConverters
<1>6. ASSUME NEW x \in AdapterConversions(sec, cd)
      PROVE  Says(AdapterConversions(new, cd), x)
  <2>1. PICK g \in cd.converters \ cd.protocol :
           /\ \A i \in {1, 2} : BoundaryConcepts(sec, EndName[g][i]) # {}
           /\ x = Finding("OT007", g, LastConcept(BoundaryConcepts(sec, EndName[g][1])))
    BY <1>6 DEF AdapterConversions
  <2> DEFINE y == Finding("OT007", g, LastConcept(BoundaryConcepts(new, EndName[g][1])))
  <2>2. \A i \in {1, 2} : BoundaryConcepts(new, EndName[g][i]) # {}
    BY <1>1, <2>1
  <2>3. y \in AdapterConversions(new, cd)
    BY <2>1, <2>2 DEF AdapterConversions
  <2>4. y.rule = x.rule /\ y.subject = x.subject
    BY <2>1 DEF Finding
  <2> QED BY <2>3, <2>4 DEF Says
<1>7. ASSUME NEW x \in DomainMethods(sec, cd)
      PROVE  Says(DomainMethods(new, cd), x)
  <2>1. PICK t \in cd.methods :
           /\ BoundaryConcepts(sec, NameOf[t]) # {}
           /\ x = Finding("OT008", t, LastConcept(BoundaryConcepts(sec, NameOf[t])))
    BY <1>7 DEF DomainMethods
  <2> DEFINE y == Finding("OT008", t, LastConcept(BoundaryConcepts(new, NameOf[t])))
  <2>2. BoundaryConcepts(new, NameOf[t]) # {}
    BY <1>1, <2>1
  <2>3. y \in DomainMethods(new, cd)
    BY <2>1, <2>2 DEF DomainMethods
  <2>4. y.rule = x.rule /\ y.subject = x.subject
    BY <2>1 DEF Finding
  <2> QED BY <2>3, <2>4 DEF Says
<1> QED BY <1>2, <1>3, <1>4, <1>5, <1>6, <1>7

\* Only the accepted type gains a role.
LEMMA RolelessAfterGain ==
    ASSUME NEW sec, NEW new, NEW s \in Symbol, NEW c \in Concept, Gains(sec, new, s, c),
           NEW cd \in Code
    PROVE  Roleless(new, cd) = Roleless(sec, cd) \ {s}
<1>1. /\ \A t \in Symbol : t # s => RolesOf(new, t) = RolesOf(sec, t)
      /\ HasAnyRole(new, s)
  BY RolesAfterGain
<1>2. cd.types \subseteq Symbol
  BY DEF Code
<1> QED BY <1>1, <1>2 DEF Roleless, HasAnyRole

\* The rules about types without a role go on saying what they say of the others ...
LEMMA ShadowsAfterGain ==
    ASSUME NEW sec, NEW new, NEW s \in Symbol, NEW c \in Concept, Gains(sec, new, s, c),
           NEW cd \in Code
    PROVE  /\ \A x \in ShadowEnums(sec, cd) : x.subject # s => x \in ShadowEnums(new, cd)
           /\ \A x \in ShadowNewtypes(sec, cd) : x.subject # s => x \in ShadowNewtypes(new, cd)
           /\ \A x \in PrimitiveFields(sec, cd) :
                 x.subject \in Symbol \X Name
                 /\ (x.subject[1] # s => x \in PrimitiveFields(new, cd))
<1>1. Roleless(new, cd) = Roleless(sec, cd) \ {s}
  BY RolelessAfterGain
<1>2. \A n : CanonicalConcepts(new, n) = CanonicalConcepts(sec, n)
  BY NamesAfterGain
<1>3. \A t : ShadowedConcepts(new, cd, t) = ShadowedConcepts(sec, cd, t)
  BY DEF Gains, ShadowedConcepts
<1>4. \A x \in ShadowEnums(sec, cd) : x.subject # s => x \in ShadowEnums(new, cd)
  BY <1>1, <1>3 DEF ShadowEnums, Finding
<1>5. \A x \in ShadowNewtypes(sec, cd) : x.subject # s => x \in ShadowNewtypes(new, cd)
  BY <1>1, <1>2 DEF ShadowNewtypes, Finding
<1>6. cd.primitives \subseteq Symbol \X Name
  BY DEF Code
<1>7. \A x \in PrimitiveFields(sec, cd) :
         x.subject \in Symbol \X Name /\ (x.subject[1] # s => x \in PrimitiveFields(new, cd))
  BY <1>1, <1>2, <1>6 DEF PrimitiveFields, Finding
<1> QED BY <1>4, <1>5, <1>7

\* ... and have nothing to say of a type that has one.
LEMMA RoleSilencesShadows ==
    ASSUME NEW sec, NEW cd, NEW s, s \notin Roleless(sec, cd)
    PROVE  /\ \A x \in ShadowEnums(sec, cd) \cup ShadowNewtypes(sec, cd) : x.subject # s
           /\ \A x \in PrimitiveFields(sec, cd) : x.subject[1] # s
BY DEF ShadowEnums, ShadowNewtypes, PrimitiveFields, Finding

\* The text of an end matches one symbol, unless the other end matches none.
UniqueEnds ==
    \A f \in Converter :
        \/ \E i \in {1, 2} : Endpoints[f][i] = {}
        \/ \A i \in {1, 2} : \A s, t \in Endpoints[f][i] : s = t

\* OT006 looks an end up by text, so that a new role may hide another type of that name.
LEMMA ConversionsAfterGain ==
    ASSUME UniqueEnds,
           NEW sec, NEW new, NEW s \in Symbol, NEW c \in Concept, Gains(sec, new, s, c),
           NEW cd \in Code
    PROVE  UnregisteredConversions(sec, cd) \subseteq UnregisteredConversions(new, cd)
<1> SUFFICES ASSUME NEW x \in UnregisteredConversions(sec, cd)
             PROVE  x \in UnregisteredConversions(new, cd)
  OBVIOUS
<1>1. PICK g \in cd.converters :
         /\ \A i \in {1, 2} : Matched(sec, g, i) # {}
         /\ EndConcept(sec, g, 1) = EndConcept(sec, g, 2)
         /\ sec.converters[EndConcept(sec, g, 1)][g] = "none"
         /\ x = Finding("OT006", g, EndConcept(sec, g, 1))
  BY DEF UnregisteredConversions
<1>2. g \in Converter
  BY DEF Code
<1>r. /\ \A t \in Symbol : t # s => RolesOf(new, t) = RolesOf(sec, t)
      /\ RolesOf(sec, s) # {} => RolesOf(new, s) = RolesOf(sec, s)
  BY RolesAfterGain
<1>3. ASSUME NEW i \in {1, 2}
      PROVE  Matched(new, g, i) = Matched(sec, g, i) /\ EndConcept(new, g, i) = EndConcept(sec, g, i)
  <2>1. Endpoints[g][i] \subseteq Symbol
    BY <1>2, EndpointAssumption
  <2>2. PICK m : m \in Matched(sec, g, i)
    BY <1>1
  <2>3. \A j \in {1, 2} : Endpoints[g][j] # {}
    BY <1>1 DEF Matched
  <2>4. Endpoints[g][i] = {m} /\ m \in Symbol
    BY <1>2, <2>1, <2>2, <2>3 DEF Matched, UniqueEnds
  <2>5. RolesOf(sec, m) # {}
    BY <2>2 DEF Matched, HasAnyRole
  <2>6. RolesOf(new, m) = RolesOf(sec, m)
    BY <1>r, <2>4, <2>5
  <2>7. Matched(new, g, i) = {m} /\ Matched(sec, g, i) = {m}
    BY <2>4, <2>5, <2>6 DEF Matched, HasAnyRole
  <2>8. FirstMatch(new, g, i) = m /\ FirstMatch(sec, g, i) = m
    BY <1>2, <2>7, FirstMatchIsMatch
  <2> QED BY <2>6, <2>7, <2>8 DEF EndConcept
<1>4. sec.converters = new.converters
  BY DEF Gains
<1> QED BY <1>1, <1>3, <1>4 DEF UnregisteredConversions

\* What to accept a boundary settles, and what it forgives besides.
Against(s) ==
    ({"OT001", "OT002", "OT010", "OT011"} \X {s}) \cup ({"OT012"} \X ({s} \X Name))
InFile(s) ==
    {"OT003"} \X ({f \in Converter : FunctionFile[f] = FileOf[s]} \X Name)

\* A finding that goes is one against the type, in its file, or of OT006.
LEMMA LittleIsForgiven ==
    ASSUME NEW sec, NEW new, NEW s \in Symbol, NEW c \in Concept, Gains(sec, new, s, c),
           NEW cd \in Code, s \notin cd.canonical, NEW x \in Findings(sec, cd)
    PROVE  \/ Says(Findings(new, cd), x)
           \/ <<x.rule, x.subject>> \in Against(s) \cup InFile(s)
           \/ x \in UnregisteredConversions(sec, cd)
<1> DEFINE F == Findings(new, cd)
<1>1. \A G, y : y \in G => Says(G, y)
  BY DEF Says
<1>2. \A G, H, y : G \subseteq H /\ Says(G, y) => Says(H, y)
  BY DEF Says
<1>3. /\ DuplicateCanonicals(new, cd) \subseteq F /\ UndeclaredShapes(new, cd) \subseteq F
      /\ BoundaryLeaks(new, cd) \subseteq F /\ DirectConstructions(new, cd) \subseteq F
      /\ MissingConverters(new, cd) \subseteq F /\ AdapterConversions(new, cd) \subseteq F
      /\ DomainMethods(new, cd) \subseteq F /\ ScatteredValidation(new, cd) \subseteq F
      /\ ShadowEnums(new, cd) \subseteq F /\ ShadowNewtypes(new, cd) \subseteq F
      /\ PrimitiveFields(new, cd) \subseteq F
  BY DEF Findings
<1> HIDE DEF F
<1>4. CASE x \in DuplicateCanonicals(sec, cd) \cup UndeclaredShapes(sec, cd)
  <2>1. x.subject # s => x \in F
    BY <1>3, <1>4, ClustersAfterGain
  <2>2. x.subject = s => x.rule \in {"OT001", "OT002"}
    BY <1>4, ClusterRules
  <2> QED BY <1>1, <2>1, <2>2 DEF F, Against
<1>5. CASE x \in BoundaryLeaks(sec, cd)
  <2>1. x.rule = "OT003" /\ x.subject \in Converter \X Name
    BY <1>5 DEF BoundaryLeaks, Finding
  <2>2. FunctionFile[x.subject[1]] = FileOf[s] => <<x.rule, x.subject>> \in InFile(s)
    BY <2>1 DEF InFile
  <2>3. FunctionFile[x.subject[1]] # FileOf[s] => Says(F, x)
    BY <1>2, <1>3, <1>5, FunctionsAfterGain
  <2> QED BY <2>2, <2>3 DEF F
<1>6. CASE x \in DirectConstructions(sec, cd) \cup ScatteredValidation(sec, cd)
                     \cup MissingConverters(sec, cd)
  <2>1. x \in F
    BY <1>3, <1>6, FunctionsAfterGain
  <2> QED BY <1>1, <2>1 DEF F
<1>7. CASE x \in AdapterConversions(sec, cd) \cup DomainMethods(sec, cd)
  <2>1. Says(F, x)
    BY <1>2, <1>3, <1>7, FunctionsAfterGain
  <2> QED BY <2>1 DEF F
<1>8. CASE x \in ShadowEnums(sec, cd) \cup ShadowNewtypes(sec, cd)
  <2>1. x.subject # s => x \in F
    BY <1>3, <1>8, ShadowsAfterGain
  <2>2. x.rule \in {"OT010", "OT011"}
    BY <1>8 DEF ShadowEnums, ShadowNewtypes, Finding
  <2> QED BY <1>1, <2>1, <2>2 DEF F, Against
<1>9. CASE x \in PrimitiveFields(sec, cd)
  <2>1. x.subject \in Symbol \X Name /\ (x.subject[1] # s => x \in F)
    BY <1>3, <1>9, ShadowsAfterGain
  <2>2. x.rule = "OT012"
    BY <1>9 DEF PrimitiveFields, Finding
  <2> QED BY <1>1, <2>1, <2>2 DEF F, Against
<1> QED BY <1>4, <1>5, <1>6, <1>7, <1>8, <1>9 DEF Findings

\* What is against the type is settled.
LEMMA TypeIsSettled ==
    ASSUME NEW sec, NEW new, NEW s \in Symbol, NEW c \in Concept, Gains(sec, new, s, c),
           NEW cd \in Code, s \notin cd.canonical, NEW x \in Findings(new, cd)
    PROVE  <<x.rule, x.subject>> \notin Against(s)
<1>s. /\ \A y \in ShadowEnums(new, cd) \cup ShadowNewtypes(new, cd) : y.subject # s
      /\ \A y \in PrimitiveFields(new, cd) : y.subject[1] # s
  <2>1. s \notin Roleless(new, cd)
    BY RolelessAfterGain
  <2> QED BY <2>1, RoleSilencesShadows
<1>1. CASE x \in DuplicateCanonicals(new, cd) \cup UndeclaredShapes(new, cd)
  <2>1. x.subject # s
    BY <1>1, ClustersAfterGain
  <2>2. x.rule # "OT012"
    BY <1>1, ClusterRules
  <2> QED BY <2>1, <2>2 DEF Against
<1>2. CASE x \in ShadowEnums(new, cd) \cup ShadowNewtypes(new, cd)
  <2>1. x.subject # s
    BY <1>2, <1>s
  <2>2. x.rule # "OT012"
    BY <1>2 DEF ShadowEnums, ShadowNewtypes, Finding
  <2> QED BY <2>1, <2>2 DEF Against
<1>3. CASE x \in PrimitiveFields(new, cd)
  <2>1. x.subject[1] # s
    BY <1>3, <1>s
  <2>2. x.rule = "OT012"
    BY <1>3 DEF PrimitiveFields, Finding
  <2> QED BY <2>1, <2>2 DEF Against
<1>4. CASE x \in BoundaryLeaks(new, cd) \cup DirectConstructions(new, cd)
  BY <1>4 DEF BoundaryLeaks, DirectConstructions, Finding, Against
<1>5. CASE x \in MissingConverters(new, cd) \cup UnregisteredConversions(new, cd)
                     \cup AdapterConversions(new, cd)
  BY <1>5 DEF MissingConverters, UnregisteredConversions, AdapterConversions, Finding, Against
<1>6. CASE x \in DomainMethods(new, cd) \cup ScatteredValidation(new, cd)
  BY <1>6 DEF DomainMethods, ScatteredValidation, Finding, Against
<1> QED BY <1>1, <1>2, <1>3, <1>4, <1>5, <1>6 DEF Findings

\* AcceptingBoundaryAnswers: to accept a boundary settles what is said against the type
\* and, of all the rest, forgives uses in its file only, as long as the text of an end
\* does not match two types.
THEOREM BoundariesAnswer ==
    ASSUME UniqueEnds PROVE Spec => AcceptingBoundaryAnswers
<1>1. ASSUME TypeOK, NEW s \in Symbol \ code.canonical, NEW c \in Concept, AcceptBoundaryCmd(s, c)
      PROVE  BoundaryAnswered(s)
  <2> DEFINE new == AcceptBoundary(section, s, c)
  <2>1. section \in OtSection /\ code \in Code
    BY <1>1 DEF TypeOK
  <2>2. section' = new /\ code' = code /\ Gains(section, new, s, c)
    BY <1>1, <2>1, AcceptGains DEF AcceptBoundaryCmd, Command
  <2> HIDE DEF new
  <2>3. Topics(section', code') \cap Against(s) = {}
    BY <2>1, <2>2, TypeIsSettled DEF Topics
  <2>4. ASSUME NEW t \in Topics(section, code), t \notin Topics(section', code')
        PROVE  t \in Against(s) \cup InFile(s)
    <3>1. PICK x \in Findings(section, code) : t = <<x.rule, x.subject>>
      BY <2>4 DEF Topics
    <3>2. ~Says(Findings(new, code), x)
      BY <2>2, <2>4, <3>1 DEF Says, Topics
    <3>3. x \notin UnregisteredConversions(section, code)
      <4>1. UnregisteredConversions(section, code) \subseteq UnregisteredConversions(new, code)
        BY <2>1, <2>2, ConversionsAfterGain
      <4> QED BY <3>2, <4>1 DEF Findings, Says
    <3> QED BY <2>1, <2>2, <3>1, <3>2, <3>3, LittleIsForgiven
  <2> QED BY <2>3, <2>4 DEF BoundaryAnswered, Against, InFile
<1>2. TypeOK /\ [Next]_vars =>
        [\A s \in Symbol \ code.canonical, c \in Concept :
            AcceptBoundaryCmd(s, c) => BoundaryAnswered(s)]_vars
  BY <1>1
<1> QED BY <1>2, TypeCorrect, PTL DEF Spec, AcceptingBoundaryAnswers
=============================================================================
