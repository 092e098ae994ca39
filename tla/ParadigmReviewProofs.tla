------------------------- MODULE ParadigmReviewProofs -------------------------
(***************************************************************************)
(* Proofs about ParadigmReview, for every set of workspaces, every first   *)
(* lockfile and every set of commands.                                     *)
(*                                                                         *)
(* The lockfile may be anything well-formed at first, so there is no       *)
(* inductive invariant but the types.  The work is in two places: what     *)
(* each command does to its section, and what another entry of a section   *)
(* does to the findings of each rule that reads it.  The parts:            *)
(*   - vacant paradigms are silent                                         *)
(*   - types: commands, and the suggestions of the checklist               *)
(*   - what a declaration does to the findings                             *)
(*   - budgets                                                             *)
(*   - the checklist shrinks, and its caps fit                             *)
(***************************************************************************)
EXTENDS ParadigmReview, FiniteSetTheorems, WellFoundedInduction, TLAPS

-----------------------------------------------------------------------------
(* Vacant paradigms *)

\* A list without patterns matches nothing.
LEMMA NoPatterns ==
    /\ \A path : ~In({}, path)
    /\ \A path : ~InByPrefix({}, path)
BY DEF In, InByPrefix

\* What a rule finds carries its name.
LEMMA FoundRule ==
    ASSUME NEW rule, NEW items, NEW f \in Found(rule, items)
    PROVE  f[1] = rule /\ items # {}
BY DEF Found

\* Boundary ownership: each rule needs a list that is empty.
LEMMA BoSilent ==
    ASSUME NEW ws, NEW l, BoVacant(l.BO)
    PROVE  BoFindings(ws, l) = {}
<1> DEFINE bo == l.BO
<1>1. bo.domain_paths = {} /\ bo.persistence_types = {} /\ bo.canonical_paths = {}
    BY DEF BoVacant
<1>2. BO001(ws, bo) = {} /\ BO002(ws, bo) = {} /\ BO004(ws, bo) = {}
    BY <1>1, NoPatterns DEF BO001, BO002, BO004, Found, TextHas
<1>3. BO005(ws, bo) = {}
    BY <1>1, NoPatterns DEF BO005, FactIn, Found
<1> QED  BY <1>2, <1>3 DEF BoFindings

\* Ports and adapters: a port next to its only adapter is found without a section.
LEMMA PaSilent ==
    ASSUME NEW ws, NEW l, PaVacant(l.PA), NEW f \in PaFindings(ws, l)
    PROVE  f[1] = "PA001"
<1> DEFINE pa == l.PA
<1>1. pa.application_paths = {} /\ pa.adapter_types = {}
    BY DEF PaVacant
<1>2. PA002(ws, pa) = {} /\ PA003(ws, pa) = {} /\ PA004(ws, pa) = {}
    BY <1>1, NoPatterns DEF PA002, PA003, PA004, FactIn, Found
<1>3. f \in PA001(ws, pa)
    BY <1>2 DEF PaFindings
<1> QED  BY <1>3, FoundRule DEF PA001

\* Feature ownership: nothing is owned, and nothing is shared.
LEMMA FoSilent ==
    ASSUME NEW ws, NEW l, FoVacant(l.FO)
    PROVE  FoFindings(ws, l) = {}
<1> DEFINE fo == l.FO
<1>1. \A path : OwningFeature(fo, path) = 0
    BY DEF OwningFeature, FirstEntry, FoVacant
<1>2. FO001(ws, fo) = {}
    BY <1>1 DEF FO001, Found
<1>3. FO004(ws, fo) = {}
    BY NoPatterns DEF FO004, FoVacant
<1> QED  BY <1>2, <1>3 DEF FoFindings

\* Composition roots
LEMMA CrSilent ==
    ASSUME NEW ws, NEW l, CrVacant(l.CR)
    PROVE  CrFindings(ws, l) = {}
BY DEF CrVacant, CrFindings, CR001, CR002

\* Responsibilities: no cap of its own, and nobody has a role.
LEMMA RmSilent ==
    ASSUME NEW ws, NEW l, RmVacant(l.RM)
    PROVE  RmFindings(ws, l) = {}
<1> DEFINE rm == l.RM
<1>1. /\ rm.default = Unset
      /\ rm.converter_paths = {} /\ rm.handler_paths = {} /\ rm.repository_paths = {}
      /\ rm.validator_paths = {} /\ rm.domain_paths = {}
    BY DEF RmVacant
<1>2. RM001(ws, rm) = {}
    BY <1>1 DEF RM001
<1>3. RM002(ws, rm) = {} /\ RM005(ws, rm) = {} /\ RM006(ws, rm) = {}
    BY <1>1, NoPatterns DEF RM002, RM005, RM006, FactIn, Found
<1>4. RM003(ws, rm) = {} /\ RM004(ws, rm) = {}
    BY <1>1, NoPatterns DEF RM003, RM004, Density
<1> QED  BY <1>2, <1>3, <1>4 DEF RmFindings

\* Utility modules
LEMMA UtSilent ==
    ASSUME NEW ws, NEW l, UtVacant(l.UT)
    PROVE  UtFindings(ws, l) = {}
<1> DEFINE ut == l.UT
<1>1. \A item : ~InUtility(ws, ut, item)
    BY NoPatterns DEF InUtility, UtVacant
<1>2. UT001(ws, ut) = {} /\ UT002(ws, ut) = {} /\ UT004(ws, ut) = {} /\ UT005(ws, ut) = {}
    BY <1>1 DEF UT001, UT002, UT004, UT005, Found
<1>3. UT003(ws, ut) = {}
    BY NoPatterns DEF UT003, UtVacant
<1> QED  BY <1>2, <1>3 DEF UtFindings

\* Degenerate abstractions, which are on demand
LEMMA DaSilent ==
    ASSUME NEW ws, NEW l, DaVacant(l.DA)
    PROVE  DaFindings(ws, l) = {}
BY DEF DaVacant, DaFindings, DA001, DA002, DA007

\* Test code
LEMMA TaSilent ==
    ASSUME NEW ws, NEW l, TaVacant(l.TA)
    PROVE  TaFindings(ws, l) = {}
<1> DEFINE ta == l.TA
<1>1. \A item : ~InTests(ws, ta, item)
    BY NoPatterns DEF InTests, TaVacant
<1>2. TA001(ws, ta) = {} /\ TA002(ws, ta) = {} /\ TA003(ws, ta) = {} /\ TA004(ws, ta) = {}
    BY <1>1 DEF TA001, TA002, TA003, TA004, Found
<1> QED  BY <1>2 DEF TaFindings

\* Configuration
LEMMA CfSilent ==
    ASSUME NEW ws, NEW l, CfVacant(l.CF)
    PROVE  CfFindings(ws, l) = {}
BY DEF CfVacant, CfFindings, CF001, CF002, CF003

\* Runtime work: what a hot path does is found without a section.
LEMMA RwSilent ==
    ASSUME NEW ws, NEW l, RwVacant(l.RW), NEW f \in RwFindings(ws, l)
    PROVE  f[1] \in {"RW005", "RW006"}
<1>1. f \in RW005(ws) \cup RW006(ws)
    BY DEF RwVacant, RwFindings, RW001, RW002, RW003, RW004, Unowned
<1> QED  BY <1>1, FoundRule DEF RW005, RW006, OnHotPath

\* Errors: rival error types, and rival variants, are found without a section.
LEMMA ErSilent ==
    ASSUME NEW ws, NEW l, ErVacant(l.ER), NEW f \in ErFindings(ws, l)
    PROVE  f[1] \in {"ER001", "ER007"}
<1> DEFINE er == l.ER
<1>1. er.forbidden_types = {} /\ er.domain_paths = {} /\ er.collapse_owners = {}
    BY DEF ErVacant
<1>2. ER002(ws, er) = {} /\ ER003(ws, er) = {} /\ ER005(ws, er) = {}
    BY <1>1, NoPatterns DEF ER002, ER003, ER005, Found
<1>3. f \in ER001(ws) \cup ER007(ws)
    BY <1>2 DEF ErFindings
<1>4. ASSUME f \in ER001(ws)
      PROVE  f[1] = "ER001"
    BY <1>4, FoundRule DEF ER001
<1>5. ASSUME f \in ER007(ws)
      PROVE  f[1] = "ER007"
  <2>1. \E t, v : f = <<"ER007", t.at, v.name>>
      BY <1>5, Zenon DEF ER007
  <2> QED  BY <2>1
<1> QED  BY <1>3, <1>4, <1>5

\* Failures: every rule needs the owners, or the layer, that it is about.
LEMMA FlSilent ==
    ASSUME NEW ws, NEW l, FlVacant(l.FL)
    PROVE  FlFindings(ws, l) = {}
<1> DEFINE fl == l.FL
<1>1. fl.domain_paths = {} /\ fl.invariant_owners = {} /\ fl.retry_owners = {}
    BY DEF FlVacant
<1>2. FL001(ws, fl) = {} /\ FL013(ws, fl) = {}
    BY <1>1, NoPatterns DEF FL001, FL013, Found
<1>3. \A rule, sites : OutsideOwner(ws, rule, {}, sites) = {}
    BY DEF OutsideOwner
<1>4. /\ FL002(ws, fl) = {} /\ FL003(ws, fl) = {} /\ FL004(ws, fl) = {} /\ FL005(ws, fl) = {}
      /\ FL006(ws, fl) = {} /\ FL007(ws, fl) = {} /\ FL010(ws, fl) = {} /\ FL011(ws, fl) = {}
      /\ FL012(ws, fl) = {}
    BY <1>1, <1>3 DEF FL002, FL003, FL004, FL005, FL006, FL007, FL010, FL011, FL012
<1> QED  BY <1>2, <1>4 DEF FlFindings

\* Dependencies: no edge, no feature, no shared path.
LEMMA DgSilent ==
    ASSUME NEW ws, NEW l, DgVacant(l.DG)
    PROVE  DgFindings(ws, l) = {}
<1> DEFINE dg == l.DG
           imports == ImportsOf(ws)
<1>1. dg.forbidden_edges = <<>> /\ dg.features = <<>> /\ dg.shared_paths = <<>>
    BY DEF DgVacant, DG!EmptySection
<1>2. DG!DG001(dg, imports) = {} /\ DG!DG003(dg, imports) = {} /\ DG!DG004(dg, imports) = {}
    BY <1>1 DEF DG!DG001, DG!DG003, DG!DG004
<1>3. /\ DOMAIN DG!Findings(dg, imports) = {"DG001", "DG003", "DG004"}
      /\ \A rule \in DOMAIN DG!Findings(dg, imports) : DG!Findings(dg, imports)[rule] = {}
    BY <1>2 DEF DG!Findings
<1> QED  BY <1>3 DEF DgFindings, Found

\* A paradigm that LOCUS002 calls vacant reports nothing but what its structural rules
\* find: the nudge promises that a paradigm is silent, whatever the lockfile holds and
\* whatever a scan finds.
THEOREM VacantParadigmsAreSilent == Spec => []VacantIsSilent
<1>1. VacantIsSilent
  <2> SUFFICES ASSUME NEW p \in Vacant(lock), NEW f \in FindingsOf(code, lock, p)
               PROVE  f[1] \in Structural
      BY DEF VacantIsSilent
  <2>1. p \in {"BO", "PA", "FO", "CR", "RM", "UT", "DA", "TA", "CF", "RW", "ER", "FL", "DG"}
      BY DEF Vacant
  <2>2. CASE p = "BO"  BY <2>2, BoSilent DEF Vacant, FindingsOf
  <2>3. CASE p = "PA"  BY <2>3, PaSilent DEF Vacant, FindingsOf, Structural
  <2>4. CASE p = "FO"  BY <2>4, FoSilent DEF Vacant, FindingsOf
  <2>5. CASE p = "CR"  BY <2>5, CrSilent DEF Vacant, FindingsOf
  <2>6. CASE p = "RM"  BY <2>6, RmSilent DEF Vacant, FindingsOf
  <2>7. CASE p = "UT"  BY <2>7, UtSilent DEF Vacant, FindingsOf
  <2>8. CASE p = "DA"  BY <2>8, DaSilent DEF Vacant, FindingsOf
  <2>9. CASE p = "TA"  BY <2>9, TaSilent DEF Vacant, FindingsOf
  <2>10. CASE p = "CF" BY <2>10, CfSilent DEF Vacant, FindingsOf
  <2>11. CASE p = "RW" BY <2>11, RwSilent DEF Vacant, FindingsOf, Structural
  <2>12. CASE p = "ER" BY <2>12, ErSilent DEF Vacant, FindingsOf, Structural
  <2>13. CASE p = "FL" BY <2>13, FlSilent DEF Vacant, FindingsOf
  <2>14. CASE p = "DG" BY <2>14, DgSilent DEF Vacant, FindingsOf
  <2> QED  BY <2>1, <2>2, <2>3, <2>4, <2>5, <2>6, <2>7, <2>8, <2>9, <2>10, <2>11, <2>12,
               <2>13, <2>14
<1> QED  BY <1>1, PTL
-----------------------------------------------------------------------------
(* Commands and sections keep their types *)

\* What each command does to its section.
LEMMA EditedBy ==
    ASSUME NEW c, NEW section
    PROVE  /\ Is(c, "MO", "set-default") => Edited(c, section) = SetMoDefault(section, c.max)
           /\ Is(c, "MO", "add-override") => Edited(c, section) = AddMoOverride(section, c.module, c.max)
           /\ Is(c, "CX", "set-default") => Edited(c, section) = SetCxDefault(section, c.max)
           /\ Is(c, "CX", "add-override") => Edited(c, section) = AddCxOverride(section, c.module, c.max)
           /\ Is(c, "BO", "add-domain-path") => Edited(c, section) = AddBoDomainPath(section, c.pattern)
           /\ Is(c, "BO", "add-forbidden-import") => Edited(c, section) = AddForbiddenImport(section, c.pattern)
           /\ Is(c, "PA", "accept-colocated") => Edited(c, section) = AcceptColocated(section, c.pattern)
           /\ Is(c, "PA", "add-application-path") => Edited(c, section) = AddApplicationPath(section, c.pattern)
           /\ Is(c, "FO", "define-feature") => Edited(c, section) = DefineFoFeature(section, c.feature, c.module)
           /\ Is(c, "CR", "add-composition-root") => Edited(c, section) = AddCompositionRoot(section, c.pattern)
           /\ Is(c, "RM", "set-default") => Edited(c, section) = SetRmDefault(section, c.max)
           /\ Is(c, "RM", "add-exempt-path") => Edited(c, section) = AddRmExemptPath(section, c.pattern)
           /\ Is(c, "RM", "add-domain-path") => Edited(c, section) = AddRmDomainPath(section, c.pattern)
           /\ Is(c, "UT", "add-utility-path") => Edited(c, section) = AddUtilityPath(section, c.pattern)
           /\ Is(c, "AB", "accept-single-impl") => Edited(c, section) = AcceptAbSingleImpl(section, c.pattern)
           /\ Is(c, "DA", "enable") => Edited(c, section) = SetDaEnabled(section, TRUE)
           /\ Is(c, "DA", "disable") => Edited(c, section) = SetDaEnabled(section, FALSE)
           /\ Is(c, "DA", "accept-single-impl") => Edited(c, section) = AcceptDaSingleImpl(section, c.pattern)
           /\ Is(c, "TA", "add-test-path") => Edited(c, section) = AddTestPath(section, c.pattern)
           /\ Is(c, "DC", "enable") => Edited(c, section) = SetRequirePublicDocs(section, TRUE)
           /\ Is(c, "DC", "disable") => Edited(c, section) = SetRequirePublicDocs(section, FALSE)
           /\ Is(c, "DC", "add-exempt-path") => Edited(c, section) = AddDcExemptPath(section, c.pattern)
           /\ Is(c, "CF", "add-config-path") => Edited(c, section) = AddConfigPath(section, c.pattern)
           /\ Is(c, "OB", "add-observer-path") => Edited(c, section) = AddObserverPath(section, c.pattern)
           /\ Is(c, "OB", "add-forbidden-log-target") => Edited(c, section) = AddForbiddenLogTarget(section, c.pattern)
           /\ Is(c, "RW", "accept-runtime-owner") => Edited(c, section) = AcceptRuntimeOwner(section, c.pattern)
           /\ Is(c, "ER", "add-domain-path") => Edited(c, section) = AddErDomainPath(section, c.pattern)
           /\ Is(c, "FL", "add-domain-path") => Edited(c, section) = AddFlDomainPath(section, c.pattern)
           /\ Is(c, "FL", "add-boundary-error") => Edited(c, section) = AddBoundaryError(section, c.pattern)
           /\ Is(c, "DG", "forbid-edge") => Edited(c, section) = DG!ForbidEdge(section, c.from, c.to)
           /\ Is(c, "DG", "define-feature") => Edited(c, section) = DG!DefineFeature(section, c.feature, c.module, c.api)
           /\ Is(c, "DG", "add-shared-path") => Edited(c, section) = DG!AddSharedPath(section, c.pattern)
BY DEF Edited, Is

\* The commands of each paradigm, and what they are given.
LEMMA CommandsOf ==
    ASSUME NEW c, IsCommand(c)
    PROVE  \/ /\ c.prefix = "MO" \/ c.prefix = "CX"
              /\ c.max \in Nat
              /\ c.name = "set-default" \/ (c.name = "add-override" /\ c.module \in Chunks)
           \/ /\ c.prefix = "RM" /\ c.name = "set-default" /\ c.max \in Nat
           \/ /\ c.prefix = "DA" \/ c.prefix = "DC"
              /\ c.name \in {"enable", "disable"}
           \/ /\ c.prefix = "DG" \/ c.prefix = "FO"
              /\ c.name = "define-feature"
              /\ c.feature \in FeatureName /\ c.module \in Chunks /\ c.api \in Seq(Chunks)
           \/ /\ c.prefix = "DG" /\ c.name = "forbid-edge"
              /\ c.from \in Chunks /\ c.to \in Chunks
           \/ <<c.prefix, c.name>> \in TakesPattern /\ c.pattern \in Chunks
<1>1. CASE /\ c \in [prefix : Prefix, name : {names[2] : names \in TakesPattern}, pattern : Chunks]
           /\ <<c.prefix, c.name>> \in TakesPattern
    BY <1>1
<1>2. CASE c \in [prefix : {"DA", "DC"}, name : {"enable", "disable"}]
    BY <1>2
<1>3. CASE c \in [prefix : {"MO", "CX", "RM"}, name : {"set-default"}, max : Nat]
    BY <1>3
<1>4. CASE c \in [prefix : {"MO", "CX"}, name : {"add-override"}, module : Chunks, max : Nat, force : BOOLEAN]
    BY <1>4
<1>5. CASE c \in [prefix : {"DG", "FO"}, name : {"define-feature"}, feature : FeatureName, module : Chunks,
                  api : Seq(Chunks), force : BOOLEAN]
    BY <1>5
<1>6. CASE c \in [prefix : {"DG"}, name : {"forbid-edge"}, from : Chunks, to : Chunks]
    BY <1>6
<1> QED  BY <1>1, <1>2, <1>3, <1>4, <1>5, <1>6 DEF IsCommand

\* A set of numbers that is not empty has a least one.
LEMMA LeastNatural ==
    ASSUME NEW R, R \subseteq Nat, R # {}
    PROVE  \E n \in R : \A m \in R : n <= m
<1> DEFINE less == {p \in Nat \X Nat : p[1] < p[2]}
<1>1. IsWellFoundedOn(less, Nat)
  BY NatLessThanWellFounded DEF OpToRel
<1>2. \A m, n \in R : ~(n <= m) => <<m, n>> \in less
  OBVIOUS
<1> HIDE DEF less
<1> QED BY <1>1, <1>2, WFMin

\* To add a pattern to one list leaves a section well typed.
LEMMA AddsTyped ==
    ASSUME NEW pattern \in Chunks
    PROVE  /\ \A bo \in BoSection : AddBoDomainPath(bo, pattern) \in BoSection /\ AddForbiddenImport(bo, pattern) \in BoSection
           /\ \A pa \in PaSection : AcceptColocated(pa, pattern) \in PaSection /\ AddApplicationPath(pa, pattern) \in PaSection
           /\ \A cr \in CrSection : AddCompositionRoot(cr, pattern) \in CrSection
           /\ \A rm \in RmSection : AddRmExemptPath(rm, pattern) \in RmSection /\ AddRmDomainPath(rm, pattern) \in RmSection
           /\ \A ut \in UtSection : AddUtilityPath(ut, pattern) \in UtSection
           /\ \A ab \in AbSection : AcceptAbSingleImpl(ab, pattern) \in AbSection
           /\ \A da \in DaSection : AcceptDaSingleImpl(da, pattern) \in DaSection
           /\ \A ta \in TaSection : AddTestPath(ta, pattern) \in TaSection
           /\ \A dc \in DcSection : AddDcExemptPath(dc, pattern) \in DcSection
           /\ \A cf \in CfSection : AddConfigPath(cf, pattern) \in CfSection
           /\ \A ob \in ObSection : AddObserverPath(ob, pattern) \in ObSection /\ AddForbiddenLogTarget(ob, pattern) \in ObSection
           /\ \A rw \in RwSection : AcceptRuntimeOwner(rw, pattern) \in RwSection
           /\ \A er \in ErSection : AddErDomainPath(er, pattern) \in ErSection
           /\ \A fl \in FlSection : AddFlDomainPath(fl, pattern) \in FlSection /\ AddBoundaryError(fl, pattern) \in FlSection
<1>1. \A bo \in BoSection : AddBoDomainPath(bo, pattern) \in BoSection /\ AddForbiddenImport(bo, pattern) \in BoSection
    BY DEF BoSection, AddBoDomainPath, AddForbiddenImport
<1>2. \A pa \in PaSection : AcceptColocated(pa, pattern) \in PaSection /\ AddApplicationPath(pa, pattern) \in PaSection
    BY DEF PaSection, AcceptColocated, AddApplicationPath
<1>3. \A cr \in CrSection : AddCompositionRoot(cr, pattern) \in CrSection
    BY DEF CrSection, AddCompositionRoot
<1>4. \A rm \in RmSection : AddRmExemptPath(rm, pattern) \in RmSection /\ AddRmDomainPath(rm, pattern) \in RmSection
    BY DEF RmSection, AddRmExemptPath, AddRmDomainPath
<1>5. \A ut \in UtSection : AddUtilityPath(ut, pattern) \in UtSection
    BY DEF UtSection, AddUtilityPath
<1>6. \A ab \in AbSection : AcceptAbSingleImpl(ab, pattern) \in AbSection
    BY DEF AbSection, AcceptAbSingleImpl
<1>7. \A da \in DaSection : AcceptDaSingleImpl(da, pattern) \in DaSection
    BY DEF DaSection, AcceptDaSingleImpl
<1>8. \A ta \in TaSection : AddTestPath(ta, pattern) \in TaSection
    BY DEF TaSection, AddTestPath
<1>9. \A dc \in DcSection : AddDcExemptPath(dc, pattern) \in DcSection
    BY DEF DcSection, AddDcExemptPath
<1>10. \A cf \in CfSection : AddConfigPath(cf, pattern) \in CfSection
    BY DEF CfSection, AddConfigPath
<1>11. \A ob \in ObSection : AddObserverPath(ob, pattern) \in ObSection /\ AddForbiddenLogTarget(ob, pattern) \in ObSection
    BY DEF ObSection, AddObserverPath, AddForbiddenLogTarget
<1>12. \A rw \in RwSection : AcceptRuntimeOwner(rw, pattern) \in RwSection
    BY DEF RwSection, AcceptRuntimeOwner
<1>13. \A er \in ErSection : AddErDomainPath(er, pattern) \in ErSection
    BY DEF ErSection, AddErDomainPath
<1>14. \A fl \in FlSection : AddFlDomainPath(fl, pattern) \in FlSection /\ AddBoundaryError(fl, pattern) \in FlSection
    BY DEF FlSection, AddFlDomainPath, AddBoundaryError
<1> QED  BY <1>1, <1>2, <1>3, <1>4, <1>5, <1>6, <1>7, <1>8, <1>9, <1>10, <1>11, <1>12, <1>13, <1>14

\* The first of a set of entries.
LEMMA FirstExists ==
    ASSUME NEW S, S \subseteq Nat, S # {}
    PROVE  LET i == CHOOSE i \in S : \A j \in S : i <= j
           IN  i \in S /\ \A j \in S : i <= j
BY LeastNatural

\* The items of a sequence, and a sequence in which one is replaced.
LEMMA SeqItems ==
    ASSUME NEW T, NEW s \in Seq(T), NEW i \in DOMAIN s
    PROVE  /\ i \in Nat
           /\ s[i] \in T
           /\ \A x \in T : [s EXCEPT ![i] = x] \in Seq(T)
OBVIOUS

\* Budgets
LEMMA BudgetsTyped ==
    ASSUME NEW max \in Nat
    PROVE  /\ \A mo \in MoSection : SetMoDefault(mo, max) \in MoSection
           /\ \A cx \in CxSection : SetCxDefault(cx, max) \in CxSection
           /\ \A rm \in RmSection : SetRmDefault(rm, max) \in RmSection
           /\ \A mo \in MoSection, module \in Chunks : AddMoOverride(mo, module, max) \in MoSection
           /\ \A cx \in CxSection, module \in Chunks : AddCxOverride(cx, module, max) \in CxSection
<1>1. /\ \A mo \in MoSection : SetMoDefault(mo, max) \in MoSection
      /\ \A cx \in CxSection : SetCxDefault(cx, max) \in CxSection
      /\ \A rm \in RmSection : SetRmDefault(rm, max) \in RmSection
    BY DEF MoSection, SetMoDefault, CxSection, SetCxDefault, RmSection, SetRmDefault
<1> DEFINE Entry == [module : Chunks, max : Nat]
<1>2. ASSUME NEW entries \in Seq(Entry), NEW module \in Chunks
      PROVE  Append(entries, [module |-> module, max |-> max]) \in Seq(Entry)
    OBVIOUS
<1>3. ASSUME NEW entries \in Seq(Entry), NEW i \in DOMAIN entries
      PROVE  [entries EXCEPT ![i].max = max] \in Seq(Entry)
  <2> DEFINE entry == [entries[i] EXCEPT !.max = max]
  <2> HIDE DEF Entry
  <2>1. entries[i] \in Entry
      BY SeqItems
  <2>2. entry \in Entry
      BY <2>1 DEF Entry
  <2> QED  BY <2>2, SeqItems
<1>4. ASSUME NEW section, section.overrides \in Seq(Entry), NEW module, OverrideOf(section, module) # {}
      PROVE  (CHOOSE i \in OverrideOf(section, module) : \A j \in OverrideOf(section, module) : i <= j)
                \in DOMAIN section.overrides
  <2>1. OverrideOf(section, module) \subseteq Nat
      BY <1>4 DEF OverrideOf
  <2> QED  BY <1>4, <2>1, FirstExists DEF OverrideOf
<1> HIDE DEF Entry
<1>5. ASSUME NEW mo \in MoSection, NEW module \in Chunks
      PROVE  AddMoOverride(mo, module, max) \in MoSection
    BY <1>2, <1>3, <1>4 DEF AddMoOverride, MoSection, Entry
<1>6. ASSUME NEW cx \in CxSection, NEW module \in Chunks
      PROVE  AddCxOverride(cx, module, max) \in CxSection
    BY <1>2, <1>3, <1>4 DEF AddCxOverride, AddMoOverride, CxSection, Entry
<1> QED  BY <1>1, <1>5, <1>6

\* Flags
LEMMA FlagsTyped ==
    /\ \A da \in DaSection : SetDaEnabled(da, TRUE) \in DaSection /\ SetDaEnabled(da, FALSE) \in DaSection
    /\ \A dc \in DcSection : /\ SetRequirePublicDocs(dc, TRUE) \in DcSection
                             /\ SetRequirePublicDocs(dc, FALSE) \in DcSection
BY DEF DaSection, SetDaEnabled, DcSection, SetRequirePublicDocs

\* Features
LEMMA FoFeatureTyped ==
    ASSUME NEW fo \in FoSection, NEW name \in FeatureName, NEW module \in Chunks
    PROVE  DefineFoFeature(fo, name, module) \in FoSection
<1> DEFINE Entry == [name : Text, module : Chunks]
           named == FeatureNamed(fo, name)
           first == CHOOSE i \in named : \A j \in named : i <= j
<1>1. fo.features \in Seq(Entry) /\ name \in Text
    BY FeatureNameAssumption DEF FoSection
<1>2. CASE named = {}
  <2>1. Append(fo.features, [name |-> name, module |-> module]) \in Seq(Entry)
      BY <1>1
  <2> QED  BY <1>2, <2>1 DEF DefineFoFeature, FoSection
<1>3. CASE named # {}
  <2>1. named \subseteq Nat /\ named \subseteq DOMAIN fo.features
      BY <1>1 DEF FeatureNamed
  <2>2. first \in DOMAIN fo.features
      BY <1>3, <2>1, FirstExists
  <2> DEFINE entry == [fo.features[first] EXCEPT !.module = module]
  <2> HIDE DEF Entry, first
  <2>3. fo.features[first] \in Entry
      BY <1>1, <2>2, SeqItems
  <2>4. entry \in Entry
      BY <2>3 DEF Entry
  <2>5. [fo.features EXCEPT ![first] = entry] \in Seq(Entry)
      BY <1>1, <2>2, <2>4, SeqItems
  <2>6. DefineFoFeature(fo, name, module) = [fo EXCEPT !.features = [fo.features EXCEPT ![first] = entry]]
      BY <1>3 DEF DefineFoFeature, FoSection, first
  <2> QED  BY <2>5, <2>6 DEF FoSection, Entry
<1> QED  BY <1>2, <1>3

\* Dependencies
LEMMA DgTyped ==
    ASSUME NEW dg \in DG!DgSection
    PROVE  /\ \A from, to \in Chunks : DG!ForbidEdge(dg, from, to) \in DG!DgSection
           /\ \A name \in FeatureName, module \in Chunks, api \in Seq(Chunks) :
                DG!DefineFeature(dg, name, module, api) \in DG!DgSection
           /\ \A pattern \in Chunks : DG!AddSharedPath(dg, pattern) \in DG!DgSection
<1>1. ASSUME NEW from \in Chunks, NEW to \in Chunks
      PROVE  DG!ForbidEdge(dg, from, to) \in DG!DgSection
  <2>1. [from |-> from, to |-> to] \in DG!Edge
      BY DEF DG!Edge
  <2>2. Append(dg.forbidden_edges, [from |-> from, to |-> to]) \in Seq(DG!Edge)
      BY <2>1 DEF DG!DgSection
  <2> QED  BY <2>2 DEF DG!ForbidEdge, DG!DgSection
<1>2. ASSUME NEW name \in FeatureName, NEW module \in Chunks, NEW api \in Seq(Chunks)
      PROVE  DG!DefineFeature(dg, name, module, api) \in DG!DgSection
  <2> DEFINE feature == [name |-> name, module |-> module, public_api |-> api]
             IsFirstNamed(i) == i \in DG!Named(dg, name) /\ \A j \in DG!Named(dg, name) : i <= j
             replaced == [i \in DOMAIN dg.features |-> IF IsFirstNamed(i) THEN feature ELSE dg.features[i]]
  <2>1. feature \in DG!Feature /\ dg.features \in Seq(DG!Feature)
      BY DEF DG!Feature, DG!DgSection, Chunks
  <2> HIDE DEF feature, IsFirstNamed
  <2>2. Append(dg.features, feature) \in Seq(DG!Feature)
      BY <2>1
  <2>3. replaced \in Seq(DG!Feature)
      BY <2>1
  <2> HIDE DEF replaced
  <2>4. DG!DefineFeature(dg, name, module, api) =
            IF DG!Named(dg, name) = {} THEN [dg EXCEPT !.features = Append(dg.features, feature)]
            ELSE [dg EXCEPT !.features = replaced]
      BY DEF DG!DefineFeature, DG!DgSection, feature, replaced, IsFirstNamed
  <2> QED  BY <2>2, <2>3, <2>4 DEF DG!DgSection
<1>3. ASSUME NEW pattern \in Chunks
      PROVE  DG!AddSharedPath(dg, pattern) \in DG!DgSection
  <2>1. Append(dg.shared_paths, pattern) \in Seq(Chunks)
      BY DEF DG!DgSection
  <2> QED  BY <2>1 DEF DG!AddSharedPath, DG!DgSection
<1> QED  BY <1>1, <1>2, <1>3

\* A lockfile in which one section is replaced.
LEMMA LockWith ==
    ASSUME NEW l \in Lock
    PROVE  /\ l["MO"] \in MoSection /\ \A x \in MoSection : [l EXCEPT !["MO"] = x] \in Lock
           /\ l["CX"] \in CxSection /\ \A x \in CxSection : [l EXCEPT !["CX"] = x] \in Lock
           /\ l["BO"] \in BoSection /\ \A x \in BoSection : [l EXCEPT !["BO"] = x] \in Lock
           /\ l["PA"] \in PaSection /\ \A x \in PaSection : [l EXCEPT !["PA"] = x] \in Lock
           /\ l["FO"] \in FoSection /\ \A x \in FoSection : [l EXCEPT !["FO"] = x] \in Lock
           /\ l["CR"] \in CrSection /\ \A x \in CrSection : [l EXCEPT !["CR"] = x] \in Lock
           /\ l["CL"] \in ClSection /\ \A x \in ClSection : [l EXCEPT !["CL"] = x] \in Lock
           /\ l["RM"] \in RmSection /\ \A x \in RmSection : [l EXCEPT !["RM"] = x] \in Lock
           /\ l["UT"] \in UtSection /\ \A x \in UtSection : [l EXCEPT !["UT"] = x] \in Lock
           /\ l["AB"] \in AbSection /\ \A x \in AbSection : [l EXCEPT !["AB"] = x] \in Lock
           /\ l["DA"] \in DaSection /\ \A x \in DaSection : [l EXCEPT !["DA"] = x] \in Lock
           /\ l["TA"] \in TaSection /\ \A x \in TaSection : [l EXCEPT !["TA"] = x] \in Lock
           /\ l["DC"] \in DcSection /\ \A x \in DcSection : [l EXCEPT !["DC"] = x] \in Lock
           /\ l["CF"] \in CfSection /\ \A x \in CfSection : [l EXCEPT !["CF"] = x] \in Lock
           /\ l["OB"] \in ObSection /\ \A x \in ObSection : [l EXCEPT !["OB"] = x] \in Lock
           /\ l["RW"] \in RwSection /\ \A x \in RwSection : [l EXCEPT !["RW"] = x] \in Lock
           /\ l["ER"] \in ErSection /\ \A x \in ErSection : [l EXCEPT !["ER"] = x] \in Lock
           /\ l["FL"] \in FlSection /\ \A x \in FlSection : [l EXCEPT !["FL"] = x] \in Lock
           /\ l["DG"] \in DG!DgSection /\ \A x \in DG!DgSection : [l EXCEPT !["DG"] = x] \in Lock
BY DEF Lock

\* The lockfile after a command.
Saved(l, c) == [l EXCEPT ![c.prefix] = Edited(c, @)]

LEMMA SavedTyped ==
    ASSUME NEW c, IsCommand(c), NEW l \in Lock
    PROVE  c.prefix \in Prefix /\ Saved(l, c) \in Lock
<1> DEFINE section == l[c.prefix]
<1>1. ASSUME NEW prefix \in Prefix, c.prefix = prefix
      PROVE  Saved(l, c) = [l EXCEPT ![prefix] = Edited(c, l[prefix])]
    BY <1>1 DEF Saved, Lock, Prefix, EmptyLock
<1>2. /\ {"MO", "CX", "BO", "PA", "FO", "CR", "CL", "RM", "UT", "AB"} \subseteq Prefix
      /\ {"DA", "TA", "DC", "CF", "OB", "RW", "ER", "FL", "DG"} \subseteq Prefix
    BY DEF Prefix, EmptyLock
<1>3. CASE (c.prefix = "MO" \/ c.prefix = "CX") /\ c.max \in Nat /\
           (c.name = "set-default" \/ (c.name = "add-override" /\ c.module \in Chunks))
  <2>1. CASE c.prefix = "MO"
    <3>1. Edited(c, l["MO"]) = SetMoDefault(l["MO"], c.max)
             \/ (Edited(c, l["MO"]) = AddMoOverride(l["MO"], c.module, c.max) /\ c.module \in Chunks)
        BY <1>3, <2>1, EditedBy DEF Is
    <3>2. Edited(c, l["MO"]) \in MoSection
        BY <1>3, <3>1, LockWith, BudgetsTyped
    <3> QED  BY <1>1, <1>2, <2>1, <3>2, LockWith
  <2>2. CASE c.prefix = "CX"
    <3>1. Edited(c, l["CX"]) = SetCxDefault(l["CX"], c.max)
             \/ (Edited(c, l["CX"]) = AddCxOverride(l["CX"], c.module, c.max) /\ c.module \in Chunks)
        BY <1>3, <2>2, EditedBy DEF Is
    <3>2. Edited(c, l["CX"]) \in CxSection
        BY <1>3, <3>1, LockWith, BudgetsTyped
    <3> QED  BY <1>1, <1>2, <2>2, <3>2, LockWith
  <2> QED  BY <1>3, <2>1, <2>2
<1>4. CASE c.prefix = "RM" /\ c.name = "set-default" /\ c.max \in Nat
  <2>1. Edited(c, l["RM"]) \in RmSection
      BY <1>4, LockWith, BudgetsTyped, EditedBy DEF Is
  <2> QED  BY <1>1, <1>2, <1>4, <2>1, LockWith
<1>5. CASE (c.prefix = "DA" \/ c.prefix = "DC") /\ c.name \in {"enable", "disable"}
  <2>1. CASE c.prefix = "DA"
    <3>1. Edited(c, l["DA"]) \in {SetDaEnabled(l["DA"], TRUE), SetDaEnabled(l["DA"], FALSE)}
        BY <1>5, <2>1, EditedBy DEF Is
    <3>2. Edited(c, l["DA"]) \in DaSection
        BY <3>1, LockWith, FlagsTyped
    <3> QED  BY <1>1, <1>2, <2>1, <3>2, LockWith
  <2>2. CASE c.prefix = "DC"
    <3>1. Edited(c, l["DC"]) \in {SetRequirePublicDocs(l["DC"], TRUE), SetRequirePublicDocs(l["DC"], FALSE)}
        BY <1>5, <2>2, EditedBy DEF Is
    <3>2. Edited(c, l["DC"]) \in DcSection
        BY <3>1, LockWith, FlagsTyped
    <3> QED  BY <1>1, <1>2, <2>2, <3>2, LockWith
  <2> QED  BY <1>5, <2>1, <2>2
<1>6. CASE (c.prefix = "DG" \/ c.prefix = "FO") /\ c.name = "define-feature" /\
           c.feature \in FeatureName /\ c.module \in Chunks /\ c.api \in Seq(Chunks)
  <2>1. CASE c.prefix = "DG"
    <3>1. Edited(c, l["DG"]) = DG!DefineFeature(l["DG"], c.feature, c.module, c.api)
        BY <1>6, <2>1, EditedBy DEF Is
    <3>2. Edited(c, l["DG"]) \in DG!DgSection
        BY <1>6, <3>1, LockWith, DgTyped
    <3> QED  BY <1>1, <1>2, <2>1, <3>2, LockWith
  <2>2. CASE c.prefix = "FO"
    <3>1. Edited(c, l["FO"]) = DefineFoFeature(l["FO"], c.feature, c.module)
        BY <1>6, <2>2, EditedBy DEF Is
    <3>2. Edited(c, l["FO"]) \in FoSection
        BY <1>6, <3>1, LockWith, FoFeatureTyped
    <3> QED  BY <1>1, <1>2, <2>2, <3>2, LockWith
  <2> QED  BY <1>6, <2>1, <2>2
<1>7. CASE c.prefix = "DG" /\ c.name = "forbid-edge" /\ c.from \in Chunks /\ c.to \in Chunks
  <2>1. Edited(c, l["DG"]) = DG!ForbidEdge(l["DG"], c.from, c.to)
      BY <1>7, EditedBy DEF Is
  <2>2. Edited(c, l["DG"]) \in DG!DgSection
      BY <1>7, <2>1, LockWith, DgTyped
  <2> QED  BY <1>1, <1>2, <1>7, <2>2, LockWith
<1>8. CASE <<c.prefix, c.name>> \in TakesPattern /\ c.pattern \in Chunks
  <2>1. CASE c.prefix = "BO" /\ c.name \in {"add-domain-path", "add-forbidden-import"}
    <3>1. Edited(c, l["BO"]) \in BoSection
        BY <1>8, <2>1, LockWith, AddsTyped, EditedBy DEF Is
    <3> QED  BY <1>1, <1>2, <2>1, <3>1, LockWith
  <2>2. CASE c.prefix = "PA" /\ c.name \in {"accept-colocated", "add-application-path"}
    <3>1. Edited(c, l["PA"]) \in PaSection
        BY <1>8, <2>2, LockWith, AddsTyped, EditedBy DEF Is
    <3> QED  BY <1>1, <1>2, <2>2, <3>1, LockWith
  <2>3. CASE c.prefix = "CR" /\ c.name \in {"add-composition-root"}
    <3>1. Edited(c, l["CR"]) \in CrSection
        BY <1>8, <2>3, LockWith, AddsTyped, EditedBy DEF Is
    <3> QED  BY <1>1, <1>2, <2>3, <3>1, LockWith
  <2>4. CASE c.prefix = "RM" /\ c.name \in {"add-exempt-path", "add-domain-path"}
    <3>1. Edited(c, l["RM"]) \in RmSection
        BY <1>8, <2>4, LockWith, AddsTyped, EditedBy DEF Is
    <3> QED  BY <1>1, <1>2, <2>4, <3>1, LockWith
  <2>5. CASE c.prefix = "UT" /\ c.name \in {"add-utility-path"}
    <3>1. Edited(c, l["UT"]) \in UtSection
        BY <1>8, <2>5, LockWith, AddsTyped, EditedBy DEF Is
    <3> QED  BY <1>1, <1>2, <2>5, <3>1, LockWith
  <2>6. CASE c.prefix = "AB" /\ c.name \in {"accept-single-impl"}
    <3>1. Edited(c, l["AB"]) \in AbSection
        BY <1>8, <2>6, LockWith, AddsTyped, EditedBy DEF Is
    <3> QED  BY <1>1, <1>2, <2>6, <3>1, LockWith
  <2>7. CASE c.prefix = "DA" /\ c.name \in {"accept-single-impl"}
    <3>1. Edited(c, l["DA"]) \in DaSection
        BY <1>8, <2>7, LockWith, AddsTyped, EditedBy DEF Is
    <3> QED  BY <1>1, <1>2, <2>7, <3>1, LockWith
  <2>8. CASE c.prefix = "TA" /\ c.name \in {"add-test-path"}
    <3>1. Edited(c, l["TA"]) \in TaSection
        BY <1>8, <2>8, LockWith, AddsTyped, EditedBy DEF Is
    <3> QED  BY <1>1, <1>2, <2>8, <3>1, LockWith
  <2>9. CASE c.prefix = "DC" /\ c.name \in {"add-exempt-path"}
    <3>1. Edited(c, l["DC"]) \in DcSection
        BY <1>8, <2>9, LockWith, AddsTyped, EditedBy DEF Is
    <3> QED  BY <1>1, <1>2, <2>9, <3>1, LockWith
  <2>10. CASE c.prefix = "CF" /\ c.name \in {"add-config-path"}
    <3>1. Edited(c, l["CF"]) \in CfSection
        BY <1>8, <2>10, LockWith, AddsTyped, EditedBy DEF Is
    <3> QED  BY <1>1, <1>2, <2>10, <3>1, LockWith
  <2>11. CASE c.prefix = "OB" /\ c.name \in {"add-observer-path", "add-forbidden-log-target"}
    <3>1. Edited(c, l["OB"]) \in ObSection
        BY <1>8, <2>11, LockWith, AddsTyped, EditedBy DEF Is
    <3> QED  BY <1>1, <1>2, <2>11, <3>1, LockWith
  <2>12. CASE c.prefix = "RW" /\ c.name \in {"accept-runtime-owner"}
    <3>1. Edited(c, l["RW"]) \in RwSection
        BY <1>8, <2>12, LockWith, AddsTyped, EditedBy DEF Is
    <3> QED  BY <1>1, <1>2, <2>12, <3>1, LockWith
  <2>13. CASE c.prefix = "ER" /\ c.name \in {"add-domain-path"}
    <3>1. Edited(c, l["ER"]) \in ErSection
        BY <1>8, <2>13, LockWith, AddsTyped, EditedBy DEF Is
    <3> QED  BY <1>1, <1>2, <2>13, <3>1, LockWith
  <2>14. CASE c.prefix = "FL" /\ c.name \in {"add-domain-path", "add-boundary-error"}
    <3>1. Edited(c, l["FL"]) \in FlSection
        BY <1>8, <2>14, LockWith, AddsTyped, EditedBy DEF Is
    <3> QED  BY <1>1, <1>2, <2>14, <3>1, LockWith
  <2>15. CASE c.prefix = "DG" /\ c.name \in {"add-shared-path"}
    <3>1. Edited(c, l["DG"]) \in DG!DgSection
        BY <1>8, <2>15, LockWith, DgTyped, EditedBy DEF Is
    <3> QED  BY <1>1, <1>2, <2>15, <3>1, LockWith
  <2> QED  BY <1>8, <2>1, <2>2, <2>3, <2>4, <2>5, <2>6, <2>7, <2>8, <2>9, <2>10, <2>11, <2>12, <2>13, <2>14, <2>15 DEF TakesPattern
<1> QED  BY <1>3, <1>4, <1>5, <1>6, <1>7, <1>8, CommandsOf

-----------------------------------------------------------------------------
(* The caps and the commands of the checklist *)

\* The arguments of f that exceed a value, and the others.
Over(f, v) == {x \in DOMAIN f : f[x] > v}
UpTo(f, v) == {x \in DOMAIN f : f[x] <= v}

\* Some value of f is not exceeded.
LEMMA Greatest ==
    ASSUME NEW f, IsFiniteSet(DOMAIN f), DOMAIN f # {}, \A x \in DOMAIN f : f[x] \in Nat
    PROVE  \E x \in DOMAIN f : Over(f, f[x]) = {}
<1> DEFINE D     == DOMAIN f
           overs == {Over(f, f[x]) : x \in D}
           less  == StrictSubsetOrdering(D)
           fin   == FiniteSubsetsOf(D)
<1>1. overs \subseteq fin /\ overs # {}
  <2>1. ASSUME NEW x \in D
        PROVE  Over(f, f[x]) \in SUBSET D /\ IsFiniteSet(Over(f, f[x]))
      BY FS_Subset DEF Over
  <2> QED  BY <2>1 DEF FiniteSubsetsOf
<1>2. IsWellFoundedOn(less, fin)
    BY FS_StrictSubsetOrderingWellFounded
<1> HIDE DEF fin, less, overs
<1>3. PICK o \in overs : \A p \in overs : <<p, o>> \notin less
    BY <1>1, <1>2, WFMin
<1>4. PICK x \in D : o = Over(f, f[x])
    BY DEF overs
<1>5. ASSUME NEW y \in Over(f, f[x])
      PROVE  FALSE
  <2>1. y \in D /\ f[y] \in Nat /\ f[x] \in Nat /\ f[y] > f[x]
      BY <1>5 DEF Over
  <2>2. Over(f, f[y]) \subseteq Over(f, f[x]) /\ y \notin Over(f, f[y])
      BY <2>1 DEF Over
  <2>3. Over(f, f[y]) \in overs /\ <<Over(f, f[y]), Over(f, f[x])>> \in less
      BY <1>5, <2>1, <2>2 DEF overs, less, StrictSubsetOrdering, Over
  <2> QED  BY <1>3, <1>4, <2>3
<1> QED  BY <1>5

\* The 95th percentile is one of the values, and no more than 5% exceed it.
LEMMA P95Covers ==
    ASSUME NEW f, IsFiniteSet(DOMAIN f), DOMAIN f # {}, \A x \in DOMAIN f : f[x] \in Nat
    PROVE  /\ P95(f) \in Nat
           /\ 20 * Cardinality(Over(f, P95(f))) <= Cardinality(DOMAIN f)
<1> DEFINE D    == DOMAIN f
           n    == Cardinality(D)
           rank == (95 * n + 99) \div 100
           fits == {v \in {f[x] : x \in D} : Cardinality(UpTo(f, v)) >= rank}
<1>1. n \in Nat
    BY FS_CardinalityType
<1>2. rank \in Nat /\ 95 * n <= 100 * rank /\ rank <= n
    BY <1>1
<1>3. ASSUME NEW v \in Nat
      PROVE  /\ Cardinality(Over(f, v)) \in Nat
             /\ Cardinality(UpTo(f, v)) = n - Cardinality(Over(f, v))
  <2>1. Over(f, v) \in SUBSET D /\ D \cap Over(f, v) = Over(f, v) /\ UpTo(f, v) = D \ Over(f, v)
      BY DEF Over, UpTo
  <2> HIDE DEF D, n
  <2>2. IsFiniteSet(D) /\ n = Cardinality(D)
      BY DEF D, n
  <2>3. IsFiniteSet(Over(f, v))
      BY <2>1, <2>2, FS_Subset
  <2> QED  BY <2>1, <2>2, <2>3, FS_Difference, FS_CardinalityType
<1>4. fits \subseteq Nat
    OBVIOUS
<1>5. fits # {}
  <2>1. PICK x \in D : Over(f, f[x]) = {}
      BY Greatest
  <2>2. Cardinality(UpTo(f, f[x])) = n - Cardinality(Over(f, f[x]))
      BY <1>3, <2>1
  <2>3. Cardinality(Over(f, f[x])) = 0
      BY <2>1, FS_EmptySet
  <2>4. Cardinality(UpTo(f, f[x])) = n
      BY <1>1, <2>2, <2>3
  <2> QED  BY <1>2, <2>1, <2>4
<1>6. P95(f) = CHOOSE v \in fits : \A w \in fits : v <= w
    BY DEF P95, UpTo
<1>7. P95(f) \in fits
    BY <1>4, <1>5, <1>6, FirstExists
<1>8. P95(f) \in Nat /\ Cardinality(UpTo(f, P95(f))) >= rank
    BY <1>4, <1>7
<1> HIDE DEF n, rank
<1> QED  BY <1>1, <1>2, <1>3, <1>8 DEF n

\* A cap that 5% of what it counts exceed at most.
Covers(f, max) == 20 * Cardinality(Over(f, max)) <= Cardinality(DOMAIN f)

\* The commands the checklist is made of.
Onboarding ==
    {<<"AB", "accept-single-impl">>, <<"BO", "add-domain-path">>, <<"CF", "add-config-path">>,
     <<"CR", "add-composition-root">>, <<"DA", "enable">>, <<"DC", "enable">>,
     <<"DG", "define-feature">>, <<"ER", "add-domain-path">>, <<"FL", "add-domain-path">>,
     <<"FO", "define-feature">>, <<"OB", "add-observer-path">>, <<"PA", "add-application-path">>,
     <<"RM", "add-domain-path">>, <<"RW", "accept-runtime-owner">>, <<"TA", "add-test-path">>,
     <<"UT", "add-utility-path">>, <<"MO", "set-default">>, <<"CX", "set-default">>,
     <<"RM", "set-default">>}

Onboards(ws, c) ==
    /\ IsCommand(c)
    /\ <<c.prefix, c.name>> \in Onboarding
    /\ Is(c, "MO", "set-default") => Covers(TypesPerFile(ws), c.max)
    /\ Is(c, "CX", "set-default") => Covers(LinesPerFunction(ws), c.max)
    /\ Is(c, "RM", "set-default") => Covers(KindsPerFunction(ws), c.max)

\* The commands a suggestion is made of.
LEMMA Suggested ==
    ASSUME NEW ws
    PROVE  /\ \A prefix, name, pattern :
                <<prefix, name>> \in TakesPattern \cap Onboarding /\ pattern \in Chunks =>
                    Onboards(ws, Adds(prefix, name, pattern)) /\ Adds(prefix, name, pattern).prefix = prefix
           /\ \A feature \in FeatureName, module \in Chunks, api \in Seq(Chunks) :
                /\ Onboards(ws, DefinesFeature("DG", feature, module, api, TRUE))
                /\ DefinesFeature("DG", feature, module, api, TRUE).prefix = "DG"
                /\ Onboards(ws, DefinesFeature("DG", feature, module, api, FALSE))
                /\ DefinesFeature("DG", feature, module, api, FALSE).prefix = "DG"
<1>1. ASSUME NEW prefix, NEW name, NEW pattern \in Chunks, <<prefix, name>> \in TakesPattern,
             <<prefix, name>> \in Onboarding
      PROVE  Onboards(ws, Adds(prefix, name, pattern)) /\ Adds(prefix, name, pattern).prefix = prefix
  <2>1. prefix \in {"BO", "PA", "CR", "RM", "UT", "AB", "DA", "TA", "DC", "CF", "OB", "RW", "ER", "FL", "DG"}
      BY <1>1 DEF TakesPattern
  <2>2. prefix \in Prefix /\ name # "set-default"
      BY <1>1, <2>1 DEF Prefix, EmptyLock, TakesPattern
  <2>3. <<prefix, name>>[2] = name
      OBVIOUS
  <2>4. name \in {names[2] : names \in TakesPattern}
      BY <1>1, <2>3
  <2>5. IsCommand(Adds(prefix, name, pattern))
      BY <1>1, <2>2, <2>4 DEF IsCommand, Adds
  <2>6. Adds(prefix, name, pattern).prefix = prefix /\ Adds(prefix, name, pattern).name = name
      BY DEF Adds
  <2> QED  BY <1>1, <2>2, <2>5, <2>6 DEF Onboards, Is
<1>2. ASSUME NEW feature \in FeatureName, NEW module \in Chunks, NEW api \in Seq(Chunks)
      PROVE  /\ Onboards(ws, DefinesFeature("DG", feature, module, api, TRUE))
             /\ DefinesFeature("DG", feature, module, api, TRUE).prefix = "DG"
             /\ Onboards(ws, DefinesFeature("DG", feature, module, api, FALSE))
             /\ DefinesFeature("DG", feature, module, api, FALSE).prefix = "DG"
  <2>1. ASSUME NEW force \in BOOLEAN
        PROVE  IsCommand(DefinesFeature("DG", feature, module, api, force))
      BY DEF IsCommand, DefinesFeature
  <2>2. ASSUME NEW force \in BOOLEAN
        PROVE  /\ DefinesFeature("DG", feature, module, api, force).prefix = "DG"
               /\ DefinesFeature("DG", feature, module, api, force).name = "define-feature"
      BY DEF DefinesFeature
  <2>3. ASSUME NEW force \in BOOLEAN
        PROVE  Onboards(ws, DefinesFeature("DG", feature, module, api, force))
      BY <2>1, <2>2 DEF Onboards, Onboarding, Is
  <2> QED  BY <2>2, <2>3
<1> QED  BY <1>1, <1>2

LEMMA LayerOnboards ==
    ASSUME NEW ws, NEW prefix, NEW name, <<prefix, name>> \in TakesPattern \cap Onboarding,
           NEW globs, globs \subseteq Chunks, NEW c \in {Adds(prefix, name, glob) : glob \in globs}
    PROVE  Onboards(ws, c) /\ c.prefix = prefix
<1>1. PICK glob \in globs : c = Adds(prefix, name, glob)
    OBVIOUS
<1> QED  BY <1>1, Suggested

\* A suggestion that can be followed.
Sensible(ws, s) ==
    /\ s.prefixes \subseteq Paradigms
    /\ s.skip \subseteq Paradigms
    /\ \A c \in s.commands : Onboards(ws, c) /\ c.prefix \in s.prefixes

LEMMA SensibleSuggestion ==
    ASSUME NEW ws, NEW prefixes, NEW commands, NEW skip,
           \A c \in commands : Onboards(ws, c) /\ c.prefix \in prefixes
    PROVE  Sensible(ws, Suggestion(prefixes, commands, skip))
BY DEF Sensible, Suggestion

\* The modules of a workspace, and the layers and top modules found in it.
LEMMA ModulesTyped ==
    ASSUME NEW ws, IsWorkspace(ws)
    PROVE  /\ ModulesIn(ws) \subseteq Chunks
           /\ \A segments : Layer(ws, segments) \subseteq Chunks
           /\ TopLevelModules(ws) \subseteq Text
<1>1. ModulesIn(ws) \subseteq Chunks
    BY DEF ModulesIn, IsWorkspace, AirFile
<1>2. ASSUME NEW segments, NEW glob \in Layer(ws, segments)
      PROVE  glob \in Chunks
  <2>1. PICK m \in ModulesIn(ws) : \E i \in DOMAIN m : glob = SubSeq(m, 1, i) \o <<Wild>>
      BY Zenon DEF Layer
  <2>2. PICK i \in DOMAIN m : glob = SubSeq(m, 1, i) \o <<Wild>>
      BY <2>1
  <2>3. m \in Seq(Text) /\ i \in Nat /\ i <= Len(m)
      BY <1>1, <2>1, <2>2 DEF Chunks
  <2>4. SubSeq(m, 1, i) \in Seq(Text)
      BY <2>3
  <2>5. <<Wild>> \in Seq(Text)
      BY TextAssumption
  <2> QED  BY <2>2, <2>4, <2>5 DEF Chunks
<1>3. TopLevelModules(ws) \subseteq Text
  <2>1. \A m \in Chunks : Len(m) >= 2 => m[2] \in Text
      BY DEF Chunks
  <2> QED  BY <1>1, <2>1 DEF TopLevelModules, IsWorkspace
<1> QED  BY <1>1, <1>2, <1>3

\* A cap that the checklist suggests: a tenth more than the 95th percentile.
LEMMA CapCovers ==
    ASSUME NEW f, IsFiniteSet(DOMAIN f), DOMAIN f # {}, \A x \in DOMAIN f : f[x] \in Nat
    PROVE  Raised(P95(f)) \in Nat /\ Covers(f, Raised(P95(f)))
<1>1. P95(f) \in Nat /\ 20 * Cardinality(Over(f, P95(f))) <= Cardinality(DOMAIN f)
    BY P95Covers
<1> DEFINE v == P95(f)
<1> HIDE DEF v
<1>2. Raised(v) \in Nat /\ Raised(v) >= v
    BY <1>1 DEF Raised, v
<1>3. Over(f, Raised(v)) \subseteq Over(f, v) /\ IsFiniteSet(Over(f, v))
  <2>1. v \in Nat
      BY <1>1 DEF v
  <2> QED  BY <1>2, <2>1, FS_Subset DEF Over
<1>4. /\ Cardinality(Over(f, Raised(v))) \in Nat /\ Cardinality(Over(f, v)) \in Nat
      /\ Cardinality(Over(f, Raised(v))) <= Cardinality(Over(f, v))
    BY <1>3, FS_Subset, FS_CardinalityType
<1>5. IsFiniteSet(DOMAIN f) /\ Cardinality(DOMAIN f) \in Nat
    BY FS_CardinalityType
<1> QED  BY <1>1, <1>2, <1>4, <1>5 DEF Covers, v

LEMMA CapSensible ==
    ASSUME NEW ws, NEW prefix, NEW f,
           \/ prefix = "MO" /\ f = TypesPerFile(ws)
           \/ prefix = "CX" /\ f = LinesPerFunction(ws)
           \/ prefix = "RM" /\ f = KindsPerFunction(ws),
           IsFiniteSet(DOMAIN f), DOMAIN f # {}, \A x \in DOMAIN f : f[x] \in Nat
    PROVE  \A s \in Cap(prefix, f) : Sensible(ws, s)
<1> DEFINE max == Raised(P95(f))
           c   == SetsDefault(prefix, max)
<1>1. max \in Nat /\ Covers(f, max)
    BY CapCovers
<1> HIDE DEF max
<1>2. c.prefix = prefix /\ c.name = "set-default" /\ c.max = max /\ IsCommand(c)
    BY <1>1 DEF IsCommand, SetsDefault
<1>3. Onboards(ws, c)
    BY <1>1, <1>2 DEF Onboards, Onboarding, Is
<1> HIDE DEF c
<1>4. \A d \in {c} : Onboards(ws, d) /\ d.prefix \in {prefix}
    BY <1>2, <1>3
<1>5. Sensible(ws, Suggestion({prefix}, {c}, {}))
    BY <1>4, SensibleSuggestion
<1> QED  BY <1>5 DEF Cap, c, max

\* What the caps count is finite.
LEMMA CountsTyped ==
    ASSUME NEW ws, IsWorkspace(ws)
    PROVE  /\ IsFiniteSet(DOMAIN TypesPerFile(ws))
           /\ \A f \in DOMAIN TypesPerFile(ws) : TypesPerFile(ws)[f] \in Nat
           /\ IsFiniteSet(DOMAIN LinesPerFunction(ws))
           /\ \A g \in DOMAIN LinesPerFunction(ws) : LinesPerFunction(ws)[g] \in Nat
           /\ IsFiniteSet(DOMAIN KindsPerFunction(ws))
           /\ \A g \in DOMAIN KindsPerFunction(ws) : KindsPerFunction(ws)[g] \in Nat
<1>1. /\ IsFiniteSet(DOMAIN ws.files) /\ IsFiniteSet(ws.types)
      /\ IsFiniteSet(ws.functions) /\ IsFiniteSet(ws.actions)
  <2>1. "types" \in Items /\ "functions" \in Items /\ "actions" \in Items
      BY DEF Items
  <2>2. /\ IsFiniteSet(DOMAIN ws.files)
        /\ \A kind \in Items : IsFiniteSet(ws[kind])
      BY DEF IsWorkspace
  <2>3. IsFiniteSet(ws["types"]) /\ IsFiniteSet(ws["functions"]) /\ IsFiniteSet(ws["actions"])
      BY <2>1, <2>2
  <2> QED  BY <2>2, <2>3
<1>2. ASSUME NEW f \in DOMAIN TypesPerFile(ws)
      PROVE  TypesPerFile(ws)[f] \in Nat
  <2>1. PublicTypes(ws, f) \in SUBSET ws.types
      BY DEF PublicTypes
  <2>2. Cardinality(PublicTypes(ws, f)) \in Nat
      BY <1>1, <2>1, FS_Subset, FS_CardinalityType
  <2> QED  BY <2>2 DEF TypesPerFile
<1>3. \A g \in DOMAIN LinesPerFunction(ws) : LinesPerFunction(ws)[g] \in Nat
    BY DEF LinesPerFunction, IsWorkspace, AirFunction
<1>4. IsFiniteSet(ActingFunctions(ws))
  <2> DEFINE all  == {a.function : a \in ws.actions}
             name == [a \in ws.actions |-> a.function]
  <2>1. name \in Surjection(ws.actions, all)
      BY DEF Surjection
  <2>2. IsFiniteSet(all)
      BY <1>1, <2>1, FS_Surjection
  <2>3. ActingFunctions(ws) \in SUBSET all
      BY DEF ActingFunctions
  <2> QED  BY <2>2, <2>3, FS_Subset
<1>5. ASSUME NEW g \in DOMAIN KindsPerFunction(ws)
      PROVE  KindsPerFunction(ws)[g] \in Nat
  <2> DEFINE done  == ActionsOf(ws, g, ActionKind)
             kinds == {a.action : a \in done}
             kind  == [a \in done |-> a.action]
  <2>1. IsFiniteSet(done)
      BY <1>1, FS_Subset DEF ActionsOf
  <2>2. kind \in Surjection(done, kinds)
      BY DEF Surjection
  <2>3. Cardinality(kinds) \in Nat
      BY <2>1, <2>2, FS_Surjection, FS_CardinalityType
  <2> QED  BY <2>3 DEF KindsPerFunction
<1> QED  BY <1>1, <1>2, <1>3, <1>4, <1>5 DEF TypesPerFile, LinesPerFunction, KindsPerFunction

\* Every suggestion of the checklist names commands of locus, each of a paradigm that
\* the suggestion is about.
LEMMA ChecklistSensible ==
    ASSUME NEW ws \in Workspaces, NEW l \in Lock, NEW known, NEW acked
    PROVE  \A s \in Checklist(ws, l, known, acked) : Sensible(ws, s)
<1>1. IsWorkspace(ws)
    BY WorkspacesAssumption
<1>2. ASSUME NEW s \in DomainLayer(ws, l)
      PROVE  Sensible(ws, s)
  <2> DEFINE prefixes == {"BO", "ER", "FL", "RM"}
             commands == {Adds(p, "add-domain-path", glob) : p \in prefixes, glob \in Domain(ws)}
  <2>1. Domain(ws) \subseteq Chunks
      BY <1>1, ModulesTyped DEF Domain
  <2>2. \A p \in prefixes : <<p, "add-domain-path">> \in TakesPattern \cap Onboarding
      BY DEF TakesPattern, Onboarding
  <2>3. ASSUME NEW c \in commands
        PROVE  Onboards(ws, c) /\ c.prefix \in prefixes
    <3>1. PICK p \in prefixes : c \in {Adds(p, "add-domain-path", glob) : glob \in Domain(ws)}
        OBVIOUS
    <3>2. <<p, "add-domain-path">> \in TakesPattern \cap Onboarding
        BY <2>2
    <3> QED  BY <2>1, <3>1, <3>2, LayerOnboards
  <2> HIDE DEF prefixes, commands
  <2>4. Sensible(ws, Suggestion(prefixes, commands, prefixes))
      BY <2>3, SensibleSuggestion
  <2> QED  BY <1>2, <2>4 DEF DomainLayer, prefixes, commands
<1>3. ASSUME NEW s \in FeaturePartition(ws, l)
      PROVE  Sensible(ws, s)
  <2> DEFINE commands == {DefinesFeature("DG", m, <<m, Wild>>, <<<<m, Wild>>>>, FALSE) : m \in TopLevelModules(ws)}
  <2>1. ASSUME NEW m \in TopLevelModules(ws)
        PROVE  m \in FeatureName /\ <<m, Wild>> \in Chunks /\ <<<<m, Wild>>>> \in Seq(Chunks)
    <3>1. m \in FeatureName /\ m \in Text /\ Wild \in Text
        BY FeaturesAssumption, FeatureNameAssumption, TextAssumption
    <3>2. <<m, Wild>> \in Chunks
        BY <3>1 DEF Chunks
    <3> QED  BY <3>1, <3>2
  <2>2. ASSUME NEW c \in commands
        PROVE  Onboards(ws, c) /\ c.prefix \in {"DG", "FO"}
    <3>1. PICK m \in TopLevelModules(ws) : c = DefinesFeature("DG", m, <<m, Wild>>, <<<<m, Wild>>>>, FALSE)
        OBVIOUS
    <3>2. Onboards(ws, c) /\ c.prefix = "DG"
        BY <2>1, <3>1, Suggested
    <3> QED  BY <3>2
  <2> HIDE DEF commands
  <2>3. Sensible(ws, Suggestion({"DG", "FO"}, commands, {"DG", "FO"}))
      BY <2>2, SensibleSuggestion
  <2> QED  BY <1>3, <2>3 DEF FeaturePartition, commands
<1>4. \A s \in SuggestMo(ws, l, acked) \cup SuggestCx(ws, l, acked) \cup SuggestRm(ws, l, acked) : Sensible(ws, s)
  <2>1. \A s \in SuggestMo(ws, l, acked) : Sensible(ws, s)
      BY <1>1, CountsTyped, CapSensible DEF SuggestMo
  <2>2. \A s \in SuggestCx(ws, l, acked) : Sensible(ws, s)
      BY <1>1, CountsTyped, CapSensible DEF SuggestCx, LinesPerFunction
  <2>3. \A s \in SuggestRm(ws, l, acked) : Sensible(ws, s)
      BY <1>1, CountsTyped, CapSensible DEF SuggestRm, KindsPerFunction
  <2> QED  BY <2>1, <2>2, <2>3
<1>5. ASSUME NEW prefix, NEW name, <<prefix, name>> \in TakesPattern \cap Onboarding, NEW globs, globs \subseteq Chunks,
             NEW declared
      PROVE  \A s \in SuggestLayer(prefix, name, globs, declared, acked) : Sensible(ws, s)
  <2> DEFINE commands == {Adds(prefix, name, glob) : glob \in globs}
  <2>1. \A c \in commands : Onboards(ws, c) /\ c.prefix \in {prefix}
      BY <1>5, LayerOnboards
  <2> HIDE DEF commands
  <2>2. Sensible(ws, Suggestion({prefix}, commands, {prefix}))
      BY <2>1, SensibleSuggestion
  <2> QED  BY <2>2 DEF SuggestLayer, commands
<1>6. /\ \A s \in SuggestLayer("CR", "add-composition-root", Composition(ws), l.CR.roots, acked) : Sensible(ws, s)
      /\ \A s \in SuggestLayer("TA", "add-test-path", Tests(ws), l.TA.test_paths, acked) : Sensible(ws, s)
      /\ \A s \in SuggestLayer("UT", "add-utility-path", Utilities(ws), l.UT.utility_paths, acked) : Sensible(ws, s)
      /\ \A s \in SuggestLayer("CF", "add-config-path", Config(ws), l.CF.config_paths, acked) : Sensible(ws, s)
  <2>1. /\ <<"CR", "add-composition-root">> \in TakesPattern \cap Onboarding /\ <<"TA", "add-test-path">> \in TakesPattern \cap Onboarding
        /\ <<"UT", "add-utility-path">> \in TakesPattern \cap Onboarding /\ <<"CF", "add-config-path">> \in TakesPattern \cap Onboarding
      BY DEF TakesPattern, Onboarding
  <2>2. /\ Composition(ws) \subseteq Chunks /\ Tests(ws) \subseteq Chunks
        /\ Utilities(ws) \subseteq Chunks /\ Config(ws) \subseteq Chunks
      BY <1>1, ModulesTyped DEF Composition, Tests, Utilities, Config
  <2> QED  BY <1>5, <2>1, <2>2
<1>7. ASSUME NEW s \in SuggestDensity(ws, l, acked)
      PROVE  Sensible(ws, s)
  <2>1. Sensible(ws, Suggestion({"CR"}, {}, {}))
      BY SensibleSuggestion
  <2> QED  BY <1>7, <2>1 DEF SuggestDensity
<1>8. ASSUME NEW s \in SuggestDg(ws, l)
      PROVE  Sensible(ws, s)
  <2>1. PICK name \in DG!Suggested(l.DG, ImportsOf(ws)) :
            s = LET i == CHOOSE i \in DG!Named(l.DG, name) : \A j \in DG!Named(l.DG, name) : i <= j
                    module == l.DG.features[i].module
                IN  Suggestion({"DG"}, {DefinesFeature("DG", name, module, <<api>>, TRUE) :
                                            api \in {DG!ApiSeed(module), module}}, {})
      BY <1>8 DEF SuggestDg
  <2> DEFINE i == CHOOSE i \in DG!Named(l.DG, name) : \A j \in DG!Named(l.DG, name) : i <= j
             module   == l.DG.features[i].module
             commands == {DefinesFeature("DG", name, module, <<api>>, TRUE) :
                            api \in {DG!ApiSeed(module), module}}
  <2>2. name \in FeatureName
      BY DEF DG!Suggested
  <2>3. l.DG.features \in Seq(DG!Feature)
      BY LockWith DEF DG!DgSection
  <2>4. DG!Named(l.DG, name) # {}
    <3>1. DG!ReachesByName(l.DG, ImportsOf(ws), name) # {}
      <4>1. DG!Cardinality({}) = Cardinality({})
          BY DEF DG!Cardinality, Cardinality
      <4>2. DG!Cardinality({}) = 0
          BY <4>1, FS_EmptySet
      <4>3. DG!Cardinality(DG!ReachesByName(l.DG, ImportsOf(ws), name)) >= 3
          BY DEF DG!Suggested, DG!COLLAPSE_THRESHOLD
      <4> QED  BY <4>2, <4>3
    <3> QED  BY <3>1 DEF DG!ReachesByName, DG!Named
  <2>5. i \in DOMAIN l.DG.features
    <3>1. DG!Named(l.DG, name) \subseteq Nat /\ DG!Named(l.DG, name) \subseteq DOMAIN l.DG.features
        BY <2>3 DEF DG!Named
    <3> QED  BY <2>4, <3>1, FirstExists
  <2> HIDE DEF i
  <2>6. module \in Chunks
    <3>1. l.DG.features[i] \in DG!Feature
        BY <2>3, <2>5, SeqItems
    <3> QED  BY <3>1 DEF DG!Feature, Chunks
  <2> HIDE DEF module
  <2>7. DG!ApiSeed(module) \in Chunks
    <3>1. <<"api", Wild>> \in Seq(Text)
        BY TextAssumption
    <3>2. SubSeq(module, 1, Len(module) - 1) \in Seq(Text)
        BY <2>6 DEF Chunks
    <3> QED  BY <2>6, <3>1, <3>2 DEF DG!ApiSeed, Chunks, Wild, DG!Wild
  <2>8. \A c \in commands : Onboards(ws, c) /\ c.prefix \in {"DG"}
    <3>1. <<module>> \in Seq(Chunks) /\ <<DG!ApiSeed(module)>> \in Seq(Chunks)
        BY <2>6, <2>7
    <3>2. ASSUME NEW api \in {DG!ApiSeed(module), module}
          PROVE  /\ Onboards(ws, DefinesFeature("DG", name, module, <<api>>, TRUE))
                 /\ DefinesFeature("DG", name, module, <<api>>, TRUE).prefix = "DG"
        BY <2>2, <2>6, <3>1, Suggested
    <3> QED  BY <3>2
  <2> HIDE DEF commands
  <2>9. Sensible(ws, Suggestion({"DG"}, commands, {}))
      BY <2>8, SensibleSuggestion
  <2> QED  BY <2>1, <2>9 DEF i, module, commands
<1>9. ASSUME NEW specific, NEW s \in VacancySeeds(known, acked, specific)
      PROVE  Sensible(ws, s)
  <2>1. PICK p \in DOMAIN SeedName : s = Suggestion({p}, {c \in Commands : Is(c, p, SeedName[p])}, {p})
      BY <1>9, Zenon DEF VacancySeeds
  <2>2. <<p, SeedName[p]>> \in Onboarding /\ SeedName[p] # "set-default"
      BY DEF SeedName, Onboarding
  <2>3. \A c \in {c \in Commands : Is(c, p, SeedName[p])} : Onboards(ws, c) /\ c.prefix \in {p}
      BY CommandsAssumption, <2>2 DEF Onboards, Is
  <2> QED  BY <2>1, <2>3, SensibleSuggestion
<1> QED  BY <1>2, <1>3, <1>4, <1>6, <1>7, <1>8, <1>9 DEF Checklist, Specific, CrossParadigm

-----------------------------------------------------------------------------
(* Types *)

\* The command that a step runs, of the developer or of the checklist.
LEMMA RunTyped ==
    ASSUME TypeOK, NEW c, IsCommand(c), Run(c)
    PROVE  /\ lock' = Saved(lock, c)
           /\ lock' \in Lock /\ code' \in Workspaces
           /\ written' \subseteq Prefix /\ acknowledged' \subseteq Prefix
BY SavedTyped DEF Run, Saved, TypeOK

LEMMA InitTyped == Init => TypeOK
BY StartsAssumption, MaxDecisionsAssumption DEF Init, TypeOK

LEMMA StepTyped == TypeOK /\ [Next]_vars => TypeOK'
<1> SUFFICES ASSUME TypeOK, [Next]_vars
             PROVE  TypeOK'
    OBVIOUS
<1>1. \A s \in Open : Sensible(code, s)
    BY ChecklistSensible DEF TypeOK, Open
<1>2. Decides => decisions' \in 0..MaxDecisions
    BY MaxDecisionsAssumption DEF Decides, TypeOK
<1>3. CASE Declare
  <2>1. PICK c \in Commands : Run(c)
      BY <1>3 DEF Declare
  <2>2. IsCommand(c)
      BY CommandsAssumption
  <2> QED  BY <1>2, <1>3, <2>1, <2>2, RunTyped DEF Declare, TypeOK
<1>4. CASE Acknowledge
    BY <1>2, <1>4, ParadigmsAssumption DEF Acknowledge, TypeOK
<1>5. CASE ChangeCode
    BY <1>2, <1>5 DEF ChangeCode, TypeOK
<1>6. CASE Follow
  <2>1. PICK s \in Open : \E c \in s.commands : Run(c)
      BY <1>6 DEF Follow
  <2>2. PICK c \in s.commands : Run(c)
      BY <2>1
  <2>3. IsCommand(c)
      BY <1>1, <2>1 DEF Sensible, Onboards
  <2> QED  BY <1>6, <2>2, <2>3, RunTyped DEF Follow, TypeOK
<1>7. CASE Skip
  <2>1. PICK s \in Open : acknowledged' = acknowledged \cup s.skip
      BY <1>7 DEF Skip
  <2>2. s.skip \subseteq Prefix
      BY <1>1, ParadigmsAssumption DEF Sensible, Onboards
  <2> QED  BY <1>7, <2>1, <2>2 DEF Skip, TypeOK
<1>8. CASE UNCHANGED vars
    BY <1>8 DEF vars, TypeOK
<1> QED  BY <1>3, <1>4, <1>5, <1>6, <1>7, <1>8 DEF Next

\* Whatever a developer runs, whatever the checklist suggests, and whatever lockfile was
\* there at first: every command, those that the checklist spells out too, writes a
\* well-formed section under the prefix of its paradigm.
THEOREM TypeCorrect == Spec => []TypeOK
<1> QED  BY InitTyped, StepTyped, PTL DEF Spec

-----------------------------------------------------------------------------
(* What a declaration does to the findings *)

\* A longer list matches whatever a shorter one does.
LEMMA MoreMatch ==
    /\ \A fewer, more, path : fewer \subseteq more => (In(fewer, path) => In(more, path))
    /\ \A fewer, more, path : fewer \subseteq more => (InByPrefix(fewer, path) => InByPrefix(more, path))
BY DEF In, InByPrefix

LEMMA FoundGrows ==
    ASSUME NEW rule, NEW items, NEW more, items \subseteq more
    PROVE  Found(rule, items) \subseteq Found(rule, more)
BY DEF Found

\* Boundary ownership: a domain path and a forbidden import restrict.
LEMMA BoRestricts ==
    ASSUME NEW ws, NEW l, NEW m, NEW x, l.BO \in BoSection,
           m.BO = AddBoDomainPath(l.BO, x) \/ m.BO = AddForbiddenImport(l.BO, x)
    PROVE  BoFindings(ws, l) \subseteq BoFindings(ws, m)
<1> DEFINE b == l.BO
           a == m.BO
<1>0. /\ a.domain_paths \in {b.domain_paths, b.domain_paths \cup {x}}
      /\ a.forbidden_in_domain \in {b.forbidden_in_domain, b.forbidden_in_domain \cup {x}}
      /\ a.persistence_types = b.persistence_types
      /\ a.canonical_paths = b.canonical_paths
      /\ a.forbidden_derives = b.forbidden_derives
    BY DEF BoSection, AddBoDomainPath, AddForbiddenImport
<1> HIDE DEF a, b
<1>1. /\ \A path : In(b.domain_paths, path) => In(a.domain_paths, path)
      /\ \A path : In(b.forbidden_in_domain, path) => In(a.forbidden_in_domain, path)
    BY <1>0, MoreMatch
<1>2. BO001(ws, b) \subseteq BO001(ws, a)
    BY <1>0, <1>1, FoundGrows DEF BO001
<1>3. BO002(ws, b) \subseteq BO002(ws, a)
    BY <1>0, <1>1, FoundGrows DEF BO002
<1>4. BO004(ws, b) = BO004(ws, a)
    BY <1>0 DEF BO004
<1>5. BO005(ws, b) \subseteq BO005(ws, a)
    BY <1>0, <1>1, FoundGrows DEF BO005, FactIn
<1> QED  BY <1>2, <1>3, <1>4, <1>5 DEF BoFindings, a, b

\* Ports and adapters: an application path restricts, an accepted port allows.
LEMMA PaRestricts ==
    ASSUME NEW ws, NEW l, NEW m, NEW x, l.PA \in PaSection, m.PA = AddApplicationPath(l.PA, x)
    PROVE  PaFindings(ws, l) \subseteq PaFindings(ws, m)
<1> DEFINE b == l.PA
           a == m.PA
<1>0. /\ a.application_paths = b.application_paths \cup {x}
      /\ a.accepted_colocated = b.accepted_colocated /\ a.concrete_adapters = b.concrete_adapters
      /\ a.adapter_types = b.adapter_types /\ a.construction_paths = b.construction_paths
    BY DEF PaSection, AddApplicationPath
<1> HIDE DEF a, b
<1>1. \A path : In(b.application_paths, path) => In(a.application_paths, path)
    BY <1>0, MoreMatch
<1>2. PA001(ws, b) = PA001(ws, a) /\ PA004(ws, b) = PA004(ws, a)
    BY <1>0 DEF PA001, PA004
<1>3. PA002(ws, b) \subseteq PA002(ws, a)
    BY <1>0, <1>1, FoundGrows DEF PA002
<1>4. PA003(ws, b) \subseteq PA003(ws, a)
    BY <1>1, FoundGrows DEF PA003, FactIn
<1> QED  BY <1>2, <1>3, <1>4 DEF PaFindings, a, b

LEMMA PaAllows ==
    ASSUME NEW ws, NEW l, NEW m, NEW x, l.PA \in PaSection, m.PA = AcceptColocated(l.PA, x)
    PROVE  PaFindings(ws, m) \subseteq PaFindings(ws, l)
<1> DEFINE b == l.PA
           a == m.PA
<1>1. /\ \A path : In(b.accepted_colocated, path) => In(a.accepted_colocated, path)
      /\ a.application_paths = b.application_paths /\ a.concrete_adapters = b.concrete_adapters
      /\ a.adapter_types = b.adapter_types /\ a.construction_paths = b.construction_paths
    BY MoreMatch DEF PaSection, AcceptColocated
<1> HIDE DEF a, b
<1>2. PA002(ws, b) = PA002(ws, a) /\ PA003(ws, b) = PA003(ws, a) /\ PA004(ws, b) = PA004(ws, a)
    BY <1>1 DEF PA002, PA003, PA004, FactIn
<1>3. PA001(ws, a) \subseteq PA001(ws, b)
    BY <1>1, FoundGrows DEF PA001
<1> QED  BY <1>2, <1>3 DEF PaFindings, a, b

\* Composition roots: the first one switches the rules on, another one is let off by
\* CR001, and may be too dense.
LEMMA CrOwns ==
    ASSUME NEW ws, NEW l, NEW m, NEW x, l.CR \in CrSection, m.CR = AddCompositionRoot(l.CR, x)
    PROVE  IF l.CR.roots = {} THEN CrFindings(ws, l) \subseteq CrFindings(ws, m)
           ELSE CrFindings(ws, m) \ InRoots(CrFindings(ws, m)) \subseteq CrFindings(ws, l)
<1> DEFINE b == l.CR
           a == m.CR
<1>1. CASE b.roots = {}
    BY <1>1 DEF CrFindings, CR001, CR002
<1>2. CASE b.roots # {}
  <2>1. /\ \A path : InByPrefix(b.roots, path) => InByPrefix(a.roots, path)
        /\ a.suffixes = b.suffixes /\ a.density = b.density
      BY MoreMatch DEF CrSection, AddCompositionRoot
  <2> HIDE DEF a, b
  <2>2. CR001(ws, a) \subseteq CR001(ws, b)
      BY <1>2, <2>1, FoundGrows DEF CR001, IsRoot, Suffixes
  <2>3. ASSUME NEW f \in CR002(ws, a)
        PROVE  f[1] = "CR002"
      BY <2>3 DEF CR002
  <2> QED  BY <1>2, <2>2, <2>3 DEF CrFindings, InRoots, a, b
<1> QED  BY <1>1, <1>2

\* Responsibilities: a domain path restricts, an exempt path allows.
LEMMA RmRestricts ==
    ASSUME NEW ws, NEW l, NEW m, NEW x, l.RM \in RmSection, m.RM = AddRmDomainPath(l.RM, x)
    PROVE  RmFindings(ws, l) \subseteq RmFindings(ws, m)
<1> DEFINE b == l.RM
           a == m.RM
<1>0. a.domain_paths = b.domain_paths \cup {x}
    BY DEF RmSection, AddRmDomainPath
<1>2. /\ RM001(ws, a) = RM001(ws, b) /\ RM002(ws, a) = RM002(ws, b) /\ RM003(ws, a) = RM003(ws, b)
      /\ RM004(ws, a) = RM004(ws, b) /\ RM005(ws, a) = RM005(ws, b)
    BY DEF RmSection, AddRmDomainPath, RM001, RM002, RM003, RM004, RM005
<1> HIDE DEF a, b
<1>1. \A path : In(b.domain_paths, path) => In(a.domain_paths, path)
    BY <1>0, MoreMatch
<1>3. RM006(ws, b) \subseteq RM006(ws, a)
    BY <1>1, FoundGrows DEF RM006, FactIn
<1> QED  BY <1>2, <1>3 DEF RmFindings, a, b

LEMMA RmAllows ==
    ASSUME NEW ws, NEW l, NEW m, NEW x, l.RM \in RmSection, m.RM = AddRmExemptPath(l.RM, x)
    PROVE  RmFindings(ws, m) \subseteq RmFindings(ws, l)
<1> DEFINE b == l.RM
           a == m.RM
<1>0. a.exempt_paths = b.exempt_paths \cup {x} /\ a.default = b.default
    BY DEF RmSection, AddRmExemptPath
<1>2. /\ RM002(ws, a) = RM002(ws, b) /\ RM003(ws, a) = RM003(ws, b)
      /\ RM004(ws, a) = RM004(ws, b) /\ RM005(ws, a) = RM005(ws, b) /\ RM006(ws, a) = RM006(ws, b)
    BY DEF RmSection, AddRmExemptPath, RM002, RM003, RM004, RM005, RM006
<1> HIDE DEF a, b
<1>1. \A path : In(b.exempt_paths, path) => In(a.exempt_paths, path)
    BY <1>0, MoreMatch
<1>3. RM001(ws, a) \subseteq RM001(ws, b)
    BY <1>0, <1>1 DEF RM001
<1> QED  BY <1>2, <1>3 DEF RmFindings, a, b

\* Utility modules: a utility path restricts.
LEMMA UtRestricts ==
    ASSUME NEW ws, NEW l, NEW m, NEW x, l.UT \in UtSection, m.UT = AddUtilityPath(l.UT, x)
    PROVE  UtFindings(ws, l) \subseteq UtFindings(ws, m)
<1> DEFINE b == l.UT
           a == m.UT
<1>0. /\ a.utility_paths = b.utility_paths \cup {x} /\ a.forbidden_imports = b.forbidden_imports
      /\ a.canonical_constructs = b.canonical_constructs
    BY DEF UtSection, AddUtilityPath
<1>1. UT003(ws, b) = UT003(ws, a)
    BY DEF UtSection, AddUtilityPath, UT003
<1> HIDE DEF a, b
<1>2. \A item : InUtility(ws, b, item) => InUtility(ws, a, item)
    BY <1>0, MoreMatch DEF InUtility
<1>3. UT001(ws, b) \subseteq UT001(ws, a) /\ UT002(ws, b) \subseteq UT002(ws, a)
    BY <1>0, <1>2, FoundGrows DEF UT001, UT002
<1>4. UT004(ws, b) \subseteq UT004(ws, a) /\ UT005(ws, b) \subseteq UT005(ws, a)
    BY <1>0, <1>2, FoundGrows DEF UT004, UT005
<1> QED  BY <1>1, <1>3, <1>4 DEF UtFindings, a, b

\* Abstractions: an accepted one allows.
LEMMA AbAllows ==
    ASSUME NEW ws, NEW l, NEW m, NEW x, l.AB \in AbSection, m.AB = AcceptAbSingleImpl(l.AB, x)
    PROVE  AbFindings(ws, m) \subseteq AbFindings(ws, l)
<1> DEFINE b == l.AB
           a == m.AB
<1>0. /\ a.accepted_single_impl = b.accepted_single_impl \cup {x}
      /\ a.suspect_names = b.suspect_names /\ a.accepted_names = b.accepted_names
    BY DEF AbSection, AcceptAbSingleImpl
<1> HIDE DEF a, b
<1>1. \A t : Accepted(b.accepted_single_impl, t) => Accepted(a.accepted_single_impl, t)
    BY <1>0, MoreMatch DEF Accepted
<1>2. \A t : Accepted(b.accepted_single_impl \cup b.accepted_names, t)
                => Accepted(a.accepted_single_impl \cup a.accepted_names, t)
  <2>1. b.accepted_single_impl \cup b.accepted_names \subseteq a.accepted_single_impl \cup a.accepted_names
      BY <1>0
  <2> QED  BY <2>1, MoreMatch DEF Accepted
<1>3. AB001(ws, a) \subseteq AB001(ws, b)
    BY <1>1, FoundGrows DEF AB001
<1>4. AB002(ws, a) \subseteq AB002(ws, b)
    BY <1>0, <1>2, FoundGrows DEF AB002
<1> QED  BY <1>3, <1>4 DEF AbFindings, a, b

\* Degenerate abstractions: an accepted one allows, and so does switching the rules off.
LEMMA DaAllows ==
    ASSUME NEW ws, NEW l, NEW m, NEW x, l.DA \in DaSection,
           m.DA = AcceptDaSingleImpl(l.DA, x) \/ m.DA = SetDaEnabled(l.DA, FALSE)
    PROVE  DaFindings(ws, m) \subseteq DaFindings(ws, l)
<1> DEFINE b == l.DA
           a == m.DA
<1>1. CASE a = SetDaEnabled(b, FALSE)
  <2>1. ~a.enabled
      BY <1>1 DEF DaSection, SetDaEnabled
  <2> QED  BY <2>1 DEF DaFindings, DA001, DA002, DA007
<1>2. CASE a = AcceptDaSingleImpl(b, x)
  <2>0. a.accepted_single_impl = b.accepted_single_impl \cup {x} /\ (a.enabled <=> b.enabled)
      BY <1>2 DEF DaSection, AcceptDaSingleImpl
  <2>1. DA002(ws, a) = DA002(ws, b) /\ DA007(ws, a) = DA007(ws, b)
      BY <1>2 DEF DaSection, AcceptDaSingleImpl, DA002, DA007
  <2> HIDE DEF a, b
  <2>2. \A t : Accepted(b.accepted_single_impl, t) => Accepted(a.accepted_single_impl, t)
      BY <2>0, MoreMatch DEF Accepted
  <2>3. DA001(ws, a) \subseteq DA001(ws, b)
      BY <2>0, <2>2, FoundGrows DEF DA001
  <2> QED  BY <2>1, <2>3 DEF DaFindings, a, b
<1> QED  BY <1>1, <1>2

\* ... and switching them on restricts.
LEMMA DaRestricts ==
    ASSUME NEW ws, NEW l, NEW m, l.DA \in DaSection, m.DA = SetDaEnabled(l.DA, TRUE)
    PROVE  DaFindings(ws, l) \subseteq DaFindings(ws, m)
<1>1. CASE l.DA.enabled
  <2>1. m.DA = l.DA
      BY <1>1 DEF DaSection, SetDaEnabled
  <2> QED  BY <2>1 DEF DaFindings
<1>2. CASE ~l.DA.enabled
    BY <1>2 DEF DaFindings, DA001, DA002, DA007
<1> QED  BY <1>1, <1>2

\* Test code: a test path restricts.
LEMMA TaRestricts ==
    ASSUME NEW ws, NEW l, NEW m, NEW x, l.TA \in TaSection, m.TA = AddTestPath(l.TA, x)
    PROVE  TaFindings(ws, l) \subseteq TaFindings(ws, m)
<1> DEFINE b == l.TA
           a == m.TA
<1>0. /\ a.test_paths = b.test_paths \cup {x} /\ a.canonical_names = b.canonical_names
      /\ a.field_sets = b.field_sets /\ a.port_traits = b.port_traits
      /\ a.accepted_adapters = b.accepted_adapters
    BY DEF TaSection, AddTestPath
<1> HIDE DEF a, b
<1>1. \A item : InTests(ws, b, item) => InTests(ws, a, item)
    BY <1>0, MoreMatch DEF InTests
<1>2. TA001(ws, b) \subseteq TA001(ws, a) /\ TA002(ws, b) \subseteq TA002(ws, a)
    BY <1>0, <1>1, FoundGrows DEF TA001, TA002
<1>3. TA003(ws, b) \subseteq TA003(ws, a)
    BY <1>0, <1>1, FoundGrows DEF TA003
<1>4. TA004(ws, b) \subseteq TA004(ws, a)
    BY <1>0, <1>1, FoundGrows DEF TA004
<1> QED  BY <1>2, <1>3, <1>4 DEF TaFindings, a, b

\* Documentation: an exempt path allows, and so does no longer requiring it.
LEMMA DcAllows ==
    ASSUME NEW ws, NEW l, NEW m, NEW x, l.DC \in DcSection,
           m.DC = AddDcExemptPath(l.DC, x) \/ m.DC = SetRequirePublicDocs(l.DC, FALSE)
    PROVE  DcFindings(ws, m) \subseteq DcFindings(ws, l)
<1> DEFINE b == l.DC
           a == m.DC
<1>1. DC002(ws, a) = DC002(ws, b) /\ DC004(ws, a) = DC004(ws, b)
    BY DEF DcSection, AddDcExemptPath, SetRequirePublicDocs, DC002, DC004
<1>2. CASE a = SetRequirePublicDocs(b, FALSE)
  <2>1. ~a.require_public_docs
      BY <1>2 DEF DcSection, SetRequirePublicDocs
  <2> QED  BY <1>1, <2>1 DEF DcFindings, DC001
<1>3. CASE a = AddDcExemptPath(b, x)
  <2>1. /\ a.exempt_paths = b.exempt_paths \cup {x}
        /\ a.require_public_docs <=> b.require_public_docs
      BY <1>3 DEF DcSection, AddDcExemptPath
  <2> HIDE DEF a, b
  <2>2. \A path : InByPrefix(b.exempt_paths, path) => InByPrefix(a.exempt_paths, path)
      BY <2>1, MoreMatch
  <2>3. DC001(ws, a) \subseteq DC001(ws, b)
      BY <2>1, <2>2, FoundGrows DEF DC001
  <2> QED  BY <1>1, <2>3 DEF DcFindings, a, b
<1> QED  BY <1>2, <1>3

\* ... and requiring it restricts.
LEMMA DcRestricts ==
    ASSUME NEW ws, NEW l, NEW m, l.DC \in DcSection, m.DC = SetRequirePublicDocs(l.DC, TRUE)
    PROVE  DcFindings(ws, l) \subseteq DcFindings(ws, m)
<1>1. CASE l.DC.require_public_docs
  <2>1. m.DC = l.DC
      BY <1>1 DEF DcSection, SetRequirePublicDocs
  <2> QED  BY <2>1 DEF DcFindings
<1>2. CASE ~l.DC.require_public_docs
  <2>1. DC002(ws, m.DC) = DC002(ws, l.DC) /\ DC004(ws, m.DC) = DC004(ws, l.DC)
      BY DEF DcSection, SetRequirePublicDocs, DC002, DC004
  <2> QED  BY <1>2, <2>1 DEF DcFindings, DC001
<1> QED  BY <1>1, <1>2

\* Configuration: the first config path switches the rules on, another one is let off.
LEMMA CfOwns ==
    ASSUME NEW ws, NEW l, NEW m, NEW x, l.CF \in CfSection, m.CF = AddConfigPath(l.CF, x)
    PROVE  IF l.CF.config_paths = {} THEN CfFindings(ws, l) \subseteq CfFindings(ws, m)
           ELSE CfFindings(ws, m) \subseteq CfFindings(ws, l)
<1> DEFINE b == l.CF
           a == m.CF
<1>1. CASE b.config_paths = {}
    BY <1>1 DEF CfFindings, CF001, CF002, CF003
<1>2. CASE b.config_paths # {}
  <2>1. /\ a.config_paths = b.config_paths \cup {x} /\ a.literal_kinds = b.literal_kinds
        /\ a.id_patterns = b.id_patterns
      BY DEF CfSection, AddConfigPath
  <2> HIDE DEF a, b
  <2>2. \A path : In(b.config_paths, path) => In(a.config_paths, path)
      BY <2>1, MoreMatch
  <2>3. CF001(ws, a) \subseteq CF001(ws, b)
      BY <1>2, <2>2, FoundGrows DEF CF001
  <2>4. CF002(ws, a) \subseteq CF002(ws, b) /\ CF003(ws, a) \subseteq CF003(ws, b)
      BY <1>2, <2>1, <2>2, FoundGrows DEF CF002, CF003, Outside
  <2> QED  BY <1>2, <2>3, <2>4 DEF CfFindings, a, b
<1> QED  BY <1>1, <1>2

\* Observability: so does an observer, and a forbidden target restricts.
LEMMA ObOwns ==
    ASSUME NEW ws, NEW l, NEW m, NEW x, l.OB \in ObSection, m.OB = AddObserverPath(l.OB, x)
    PROVE  IF l.OB.observer_paths = {} THEN ObFindings(ws, l) \subseteq ObFindings(ws, m)
           ELSE ObFindings(ws, m) \subseteq ObFindings(ws, l)
<1> DEFINE b == l.OB
           a == m.OB
<1>0. OB002(ws, a) = OB002(ws, b) /\ OB003(ws, a) = OB003(ws, b)
    BY DEF ObSection, AddObserverPath, OB002, OB003
<1>1. CASE b.observer_paths = {}
    BY <1>0, <1>1 DEF ObFindings, OB001
<1>2. CASE b.observer_paths # {}
  <2>1. a.observer_paths = b.observer_paths \cup {x} /\ a.log_targets = b.log_targets
      BY DEF ObSection, AddObserverPath
  <2> HIDE DEF a, b
  <2>2. \A path : In(b.observer_paths, path) => In(a.observer_paths, path)
      BY <2>1, MoreMatch
  <2>3. OB001(ws, a) \subseteq OB001(ws, b)
      BY <1>2, <2>1, <2>2, FoundGrows DEF OB001
  <2> QED  BY <1>0, <1>2, <2>3 DEF ObFindings, a, b
<1> QED  BY <1>1, <1>2

LEMMA ObRestricts ==
    ASSUME NEW ws, NEW l, NEW m, NEW x, l.OB \in ObSection, m.OB = AddForbiddenLogTarget(l.OB, x)
    PROVE  ObFindings(ws, l) \subseteq ObFindings(ws, m)
<1> DEFINE b == l.OB
           a == m.OB
<1>0. OB002(ws, a) = OB002(ws, b) /\ OB003(ws, a) = OB003(ws, b)
    BY DEF ObSection, AddForbiddenLogTarget, OB002, OB003
<1>1. a.log_targets = b.log_targets \cup {x} /\ a.observer_paths = b.observer_paths
    BY DEF ObSection, AddForbiddenLogTarget
<1> HIDE DEF a, b
<1>2. \A path : In(b.log_targets, path) => In(a.log_targets, path)
    BY <1>1, MoreMatch
<1>3. OB001(ws, b) \subseteq OB001(ws, a)
    BY <1>1, <1>2, FoundGrows DEF OB001
<1> QED  BY <1>0, <1>3 DEF ObFindings, a, b

\* Runtime work: so does a runtime owner.
LEMMA RwOwns ==
    ASSUME NEW ws, NEW l, NEW m, NEW x, l.RW \in RwSection, m.RW = AcceptRuntimeOwner(l.RW, x)
    PROVE  IF l.RW.owner_paths = {} THEN RwFindings(ws, l) \subseteq RwFindings(ws, m)
           ELSE RwFindings(ws, m) \subseteq RwFindings(ws, l)
<1> DEFINE b == l.RW
           a == m.RW
<1>1. CASE b.owner_paths = {}
    BY <1>1 DEF RwFindings, RW001, RW002, RW003, RW004, Unowned
<1>2. CASE b.owner_paths # {}
  <2>1. /\ a.owner_paths = b.owner_paths \cup {x} /\ a.state_types = b.state_types
        /\ a.singletons = b.singletons
      BY DEF RwSection, AcceptRuntimeOwner
  <2> HIDE DEF a, b
  <2>2. \A path : In(b.owner_paths, path) => In(a.owner_paths, path)
      BY <2>1, MoreMatch
  <2>3. RW001(ws, a) \subseteq RW001(ws, b) /\ RW002(ws, a) \subseteq RW002(ws, b)
      BY <1>2, <2>2, FoundGrows DEF RW001, RW002, Unowned, FactIn
  <2>4. RW003(ws, a) \subseteq RW003(ws, b)
      BY <1>2, <2>1, <2>2, FoundGrows DEF RW003, Outside, HasState
  <2>5. RW004(ws, a) \subseteq RW004(ws, b)
      BY <1>2, <2>1, <2>2, FoundGrows DEF RW004, Outside, HasState
  <2> QED  BY <1>2, <2>3, <2>4, <2>5 DEF RwFindings, a, b
<1> QED  BY <1>1, <1>2

\* Errors: a domain path restricts.
LEMMA ErRestricts ==
    ASSUME NEW ws, NEW l, NEW m, NEW x, l.ER \in ErSection, m.ER = AddErDomainPath(l.ER, x)
    PROVE  ErFindings(ws, l) \subseteq ErFindings(ws, m)
<1> DEFINE b == l.ER
           a == m.ER
<1>0. ER002(ws, a) = ER002(ws, b) /\ ER005(ws, a) = ER005(ws, b)
    BY DEF ErSection, AddErDomainPath, ER002, ER005
<1>1. a.domain_paths = b.domain_paths \cup {x} /\ a.boundary_errors = b.boundary_errors
    BY DEF ErSection, AddErDomainPath
<1> HIDE DEF a, b
<1>2. \A path : In(b.domain_paths, path) => In(a.domain_paths, path)
    BY <1>1, MoreMatch
<1>3. ER003(ws, b) \subseteq ER003(ws, a)
  <2> DEFINE Of(t)   == UNION {{<<"ER003", t.at, v.name, field>> :
                                   field \in {f \in v.fields : In(b.boundary_errors, f)}} : v \in t.variants}
             types(er) == {t \in ws.types : t.kind = "enum" /\ HasModule(ws, t) /\ In(er.domain_paths, ModuleOf(ws, t))}
  <2>1. types(b) \subseteq types(a)
      BY <1>2
  <2>2. ER003(ws, b) = UNION {Of(t) : t \in types(b)} /\ ER003(ws, a) = UNION {Of(t) : t \in types(a)}
      BY <1>1 DEF ER003
  <2> HIDE DEF Of, types
  <2> QED  BY <2>1, <2>2
<1> QED  BY <1>0, <1>3 DEF ErFindings, a, b

\* Failures: a domain path and a boundary error restrict.
LEMMA FlRestricts ==
    ASSUME NEW ws, NEW l, NEW m, NEW x, l.FL \in FlSection,
           m.FL = AddFlDomainPath(l.FL, x) \/ m.FL = AddBoundaryError(l.FL, x)
    PROVE  FlFindings(ws, l) \subseteq FlFindings(ws, m)
<1> DEFINE b == l.FL
           a == m.FL
<1>1. /\ a.domain_paths \in {b.domain_paths, b.domain_paths \cup {x}}
      /\ a.boundary_errors \in {b.boundary_errors, b.boundary_errors \cup {x}}
      /\ a.forbidden_callees = b.forbidden_callees /\ a.invariant_owners = b.invariant_owners
      /\ a.discard_callees = b.discard_callees /\ a.allowed_callees = b.allowed_callees
      /\ a.retry_owners = b.retry_owners
    BY DEF FlSection, AddFlDomainPath, AddBoundaryError
<1> HIDE DEF a, b
<1>2. /\ \A path : In(b.domain_paths, path) => In(a.domain_paths, path)
      /\ \A path : In(b.boundary_errors, path) => In(a.boundary_errors, path)
    BY <1>1, MoreMatch
<1>3. FL001(ws, b) \subseteq FL001(ws, a)
    BY <1>2, FoundGrows DEF FL001
<1>4. /\ FL002(ws, b) = FL002(ws, a) /\ FL003(ws, b) = FL003(ws, a) /\ FL004(ws, b) = FL004(ws, a)
      /\ FL005(ws, b) = FL005(ws, a) /\ FL006(ws, b) = FL006(ws, a) /\ FL007(ws, b) = FL007(ws, a)
      /\ FL010(ws, b) = FL010(ws, a) /\ FL011(ws, b) = FL011(ws, a) /\ FL012(ws, b) = FL012(ws, a)
      /\ FL013(ws, b) = FL013(ws, a)
    BY <1>1 DEF FL002, FL003, FL004, FL005, FL006, FL007, FL010, FL011, FL012, FL013
<1> QED  BY <1>3, <1>4 DEF FlFindings, a, b

\* The first entry that matches, and what another entry at the end changes about it.
LEMMA FirstEntryIs ==
    ASSUME NEW T, NEW entries \in Seq(T), NEW path
    PROVE  /\ FirstEntry(entries, path) \in 0..Len(entries)
           /\ FirstEntry(entries, path) # 0 =>
                /\ Matches(entries[FirstEntry(entries, path)].module, path)
                /\ \A j \in 1..Len(entries) :
                    j < FirstEntry(entries, path) => ~Matches(entries[j].module, path)
           /\ FirstEntry(entries, path) = 0 =>
                \A j \in 1..Len(entries) : ~Matches(entries[j].module, path)
<1> DEFINE hits == {i \in DOMAIN entries : Matches(entries[i].module, path)}
<1>1. hits \subseteq Nat /\ DOMAIN entries = 1..Len(entries) /\ Len(entries) \in Nat
    OBVIOUS
<1>2. CASE hits = {}
    BY <1>1, <1>2 DEF FirstEntry
<1>3. CASE hits # {}
  <2> DEFINE first == CHOOSE i \in hits : \A j \in hits : i <= j
  <2>1. first \in hits /\ \A j \in hits : first <= j
      BY <1>1, <1>3, FirstExists
  <2>2. FirstEntry(entries, path) = first
      BY <1>3 DEF FirstEntry
  <2> HIDE DEF first
  <2> QED  BY <1>1, <2>1, <2>2
<1> QED  BY <1>2, <1>3

LEMMA FirstEntryAppended ==
    ASSUME NEW T, NEW entries \in Seq(T), NEW e \in T, NEW path
    PROVE  /\ FirstEntry(entries, path) # 0 => FirstEntry(Append(entries, e), path) = FirstEntry(entries, path)
           /\ FirstEntry(entries, path) = 0 => FirstEntry(Append(entries, e), path) \in {0, Len(entries) + 1}
<1> DEFINE more == Append(entries, e)
           old  == FirstEntry(entries, path)
           new  == FirstEntry(more, path)
<1>1. /\ more \in Seq(T) /\ Len(more) = Len(entries) + 1 /\ Len(entries) \in Nat
      /\ \A j \in 1..Len(entries) : more[j] = entries[j]
    OBVIOUS
<1>2. /\ old \in 0..Len(entries)
      /\ old # 0 => /\ Matches(entries[old].module, path)
                    /\ \A j \in 1..Len(entries) : j < old => ~Matches(entries[j].module, path)
      /\ old = 0 => \A j \in 1..Len(entries) : ~Matches(entries[j].module, path)
    BY FirstEntryIs
<1> HIDE DEF more
<1>3. /\ new \in 0..Len(more)
      /\ new # 0 => /\ Matches(more[new].module, path)
                    /\ \A j \in 1..Len(more) : j < new => ~Matches(more[j].module, path)
      /\ new = 0 => \A j \in 1..Len(more) : ~Matches(more[j].module, path)
    BY <1>1, FirstEntryIs
<1> HIDE DEF old, new
<1>4. ASSUME old # 0
      PROVE  new = old
  <2>1. old \in 1..Len(entries) /\ old \in 1..Len(more) /\ more[old] = entries[old]
      BY <1>1, <1>2, <1>4
  <2>2. new # 0 /\ ~(old < new)
      BY <1>2, <1>3, <1>4, <2>1
  <2>3. ~(new < old)
    <3>1. ASSUME new < old
          PROVE  FALSE
      <4>1. new \in 1..Len(entries) /\ more[new] = entries[new]
          BY <1>1, <1>2, <1>3, <2>1, <2>2, <3>1
      <4> QED  BY <1>2, <1>3, <1>4, <2>2, <3>1, <4>1
    <3> QED  BY <3>1
  <2> QED  BY <1>1, <1>2, <1>3, <2>2, <2>3
<1>5. ASSUME old = 0
      PROVE  new \in {0, Len(entries) + 1}
  <2>1. ASSUME new \in 1..Len(entries)
        PROVE  FALSE
      BY <1>1, <1>2, <1>3, <1>5, <2>1
  <2> QED  BY <1>1, <1>3, <2>1
<1> QED  BY <1>4, <1>5 DEF old, new, more

\* What was scanned first.
LEMMA FirstOfIs ==
    ASSUME NEW items, items # {}, \A x \in items : x.at \in Nat
    PROVE  FirstOf(items) \in items /\ \A y \in items : FirstOf(items).at <= y.at
<1>1. PICK n \in {x.at : x \in items} : \A k \in {x.at : x \in items} : n <= k
    BY LeastNatural
<1>2. \E x \in items : \A y \in items : x.at <= y.at
    BY <1>1
<1> QED  BY <1>2 DEF FirstOf

\* Feature ownership: a feature of a new name restricts.  A type that was reported stays
\* reported, though another one, of the new feature, may take the place of the first.
LEMMA FoRestricts ==
    ASSUME NEW ws, IsWorkspace(ws), NEW l, NEW m, l.FO \in FoSection, NEW name \in FeatureName,
           NEW module \in Chunks, CanDefineFoFeature(l.FO, name, module, FALSE),
           m.FO = DefineFoFeature(l.FO, name, module)
    PROVE  FoFindings(ws, l) \subseteq FoFindings(ws, m)
<1> DEFINE b == l.FO
           a == m.FO
           T == [name : Text, module : Chunks]
           e == [name |-> name, module |-> module]
<1>1. /\ b.features \in Seq(T) /\ e \in T
      /\ a.features = Append(b.features, e) /\ a.shared_paths = b.shared_paths
    BY FeatureNameAssumption DEF FoSection, DefineFoFeature, CanDefineFoFeature
<1> HIDE DEF a, b, T, e
<1>2. ASSUME NEW path
      PROVE  /\ OwningFeature(b, path) \in 0..Len(b.features) /\ Len(b.features) \in Nat
             /\ OwningFeature(b, path) # 0 => OwningFeature(a, path) = OwningFeature(b, path)
             /\ OwningFeature(b, path) = 0 => OwningFeature(a, path) \in {0, Len(b.features) + 1}
    BY <1>1, FirstEntryIs, FirstEntryAppended DEF OwningFeature
<1> DEFINE Owned(fo) == {t \in ws.types : /\ HasModule(ws, t)
                                          /\ t.visibility = "public"
                                          /\ OwningFeature(fo, ModuleOf(ws, t)) # 0}
           FeatureOf(fo, t) == OwningFeature(fo, ModuleOf(ws, t))
           Rivals(fo, t) == {u \in Owned(fo) : u.name = t.name}
           Strays(fo) == {t \in Owned(fo) : FeatureOf(fo, t) # FeatureOf(fo, FirstOf(Rivals(fo, t)))}
<1>3. \A fo : FO001(ws, fo) = Found("FO001", Strays(fo))
    BY DEF FO001
<1>4. /\ \A x \in ws.types : x.at \in Nat
      /\ \A x, y \in ws.types : x.at = y.at => x = y
  <2>1. "types" \in Items
      BY DEF Items
  <2>2. \A x, y \in ws["types"] : x.at = y.at => x = y
      BY <2>1 DEF IsWorkspace
  <2> QED  BY <2>2 DEF IsWorkspace, AirType
<1>5. ASSUME NEW t \in Owned(b), FeatureOf(b, t) # FeatureOf(b, FirstOf(Rivals(b, t)))
      PROVE  t \in Owned(a) /\ FeatureOf(a, t) # FeatureOf(a, FirstOf(Rivals(a, t)))
  <2>1. Owned(b) \subseteq Owned(a) /\ Rivals(b, t) \subseteq Rivals(a, t) /\ t \in Rivals(b, t)
      BY <1>2
  <2> DEFINE first == FirstOf(Rivals(b, t))
             now   == FirstOf(Rivals(a, t))
  <2>2. first \in Rivals(b, t) /\ \A y \in Rivals(b, t) : first.at <= y.at
      BY <1>4, <2>1, FirstOfIs
  <2>3. now \in Rivals(a, t) /\ \A y \in Rivals(a, t) : now.at <= y.at
      BY <1>4, <2>1, FirstOfIs
  <2> HIDE DEF first, now
  <2>4. CASE now \in Owned(b)
    <3>1. now \in Rivals(b, t) /\ now.at = first.at
        BY <1>4, <2>1, <2>2, <2>3, <2>4
    <3>2. now = first
        BY <1>4, <2>2, <2>3, <3>1
    <3> QED  BY <1>2, <1>5, <2>1, <2>2, <3>2 DEF first, now
  <2>5. CASE now \notin Owned(b)
    <3>1. FeatureOf(b, now) = 0 /\ FeatureOf(a, now) # 0
        BY <2>3, <2>5
    <3>2. FeatureOf(a, now) = Len(b.features) + 1
        BY <1>2, <3>1
    <3>3. FeatureOf(a, t) \in 0..Len(b.features)
        BY <1>2
    <3> QED  BY <1>2, <2>1, <3>2, <3>3 DEF now
  <2> QED  BY <2>4, <2>5
<1>6. FO001(ws, b) \subseteq FO001(ws, a)
  <2>1. Strays(b) \subseteq Strays(a)
      BY <1>5
  <2> HIDE DEF Strays
  <2> QED  BY <1>3, <2>1, FoundGrows
<1>7. FO004(ws, b) \subseteq FO004(ws, a)
  <2>1. ASSUME NEW f \in FO004(ws, b)
        PROVE  f \in FO004(ws, a)
    <3>1. PICK t \in {t \in ws.types : HasModule(ws, t) /\ In(b.shared_paths, ModuleOf(ws, t))} :
            f \in {<<"FO004", t.at, field.name>> : field \in
                    {x \in t.fields : \E token \in x.tokens : OwningFeature(b, token) # 0}}
        BY <2>1 DEF FO004
    <3>2. f \in {<<"FO004", t.at, field.name>> : field \in
                    {x \in t.fields : \E token \in x.tokens : OwningFeature(a, token) # 0}}
        BY <1>2, <3>1
    <3>3. t \in {u \in ws.types : HasModule(ws, u) /\ In(a.shared_paths, ModuleOf(ws, u))}
        BY <1>1
    <3> QED  BY <3>2, <3>3 DEF FO004
  <2> QED  BY <2>1
<1> QED  BY <1>6, <1>7 DEF FoFindings, a, b

\* Dependencies: whatever is put at the end of a list of the section leaves every finding,
\* although features go by the first that matches.
LEMMA DgGrows ==
    ASSUME NEW s \in DG!DgSection, NEW t \in DG!DgSection, NEW imports,
           Len(s.forbidden_edges) <= Len(t.forbidden_edges),
           \A i \in 1..Len(s.forbidden_edges) : t.forbidden_edges[i] = s.forbidden_edges[i],
           Len(s.features) <= Len(t.features),
           \A i \in 1..Len(s.features) : t.features[i] = s.features[i],
           Len(s.shared_paths) <= Len(t.shared_paths),
           \A i \in 1..Len(s.shared_paths) : t.shared_paths[i] = s.shared_paths[i]
    PROVE  /\ DG!DG001(s, imports) \subseteq DG!DG001(t, imports)
           /\ DG!DG003(s, imports) \subseteq DG!DG003(t, imports)
           /\ DG!DG004(s, imports) \subseteq DG!DG004(t, imports)
<1>1. /\ DOMAIN s.forbidden_edges = 1..Len(s.forbidden_edges) /\ Len(s.forbidden_edges) \in Nat
      /\ DOMAIN t.forbidden_edges = 1..Len(t.forbidden_edges) /\ Len(t.forbidden_edges) \in Nat
      /\ DOMAIN s.features = 1..Len(s.features) /\ Len(s.features) \in Nat
      /\ DOMAIN t.features = 1..Len(t.features) /\ Len(t.features) \in Nat
      /\ DOMAIN s.shared_paths = 1..Len(s.shared_paths) /\ Len(s.shared_paths) \in Nat
      /\ DOMAIN t.shared_paths = 1..Len(t.shared_paths) /\ Len(t.shared_paths) \in Nat
    BY DEF DG!DgSection
<1>2. ASSUME NEW i, NEW path, DG!Owns(s, i, path)
      PROVE  i \in 1..Len(s.features) /\ DG!Owns(t, i, path)
  <2>1. i \in 1..Len(s.features) /\ i \in 1..Len(t.features)
      BY <1>1, <1>2 DEF DG!Owns, DG!IsFirst, DG!FeatureModules
  <2>2. \A j \in 1..i : DG!FeatureModules(t)[j] = DG!FeatureModules(s)[j]
      BY <1>1, <2>1 DEF DG!FeatureModules
  <2>3. DOMAIN DG!FeatureModules(t) = 1..Len(t.features) /\ DOMAIN DG!FeatureModules(s) = 1..Len(s.features)
      BY <1>1 DEF DG!FeatureModules
  <2> QED  BY <1>1, <1>2, <2>1, <2>2, <2>3 DEF DG!Owns, DG!IsFirst
<1>3. DG!DG001(s, imports) \subseteq DG!DG001(t, imports)
  <2>1. \A i \in DOMAIN s.forbidden_edges :
            i \in DOMAIN t.forbidden_edges /\ t.forbidden_edges[i] = s.forbidden_edges[i]
      BY <1>1
  <2> QED  BY <2>1 DEF DG!DG001
<1>4. ASSUME NEW m, NEW target, DG!ReachesInto(s, m, target)
      PROVE  target \in DOMAIN t.features /\ DG!ReachesInto(t, m, target)
  <2>1. /\ Len(s.features) >= 2
        /\ DG!Owns(s, target, m.path)
        /\ ~DG!AnyMatches(s.features[target].public_api, m.path)
      BY <1>4 DEF DG!ReachesInto
  <2>2. PICK i \in DOMAIN s.features : i # target /\ DG!Owns(s, i, m.module)
      BY <1>4 DEF DG!ReachesInto
  <2>3. /\ i \in DOMAIN t.features /\ DG!Owns(t, i, m.module)
        /\ target \in DOMAIN t.features /\ DG!Owns(t, target, m.path)
        /\ t.features[target] = s.features[target]
      BY <1>1, <1>2, <2>1, <2>2
  <2>4. Len(t.features) >= 2
      BY <1>1, <2>1
  <2> QED  BY <2>1, <2>2, <2>3, <2>4 DEF DG!ReachesInto
<1>5. DG!DG003(s, imports) \subseteq DG!DG003(t, imports)
    BY <1>4 DEF DG!DG003
<1>6. DG!DG004(s, imports) \subseteq DG!DG004(t, imports)
  <2>1. \A path : DG!AnyMatches(s.shared_paths, path) => DG!AnyMatches(t.shared_paths, path)
      BY <1>1 DEF DG!AnyMatches
  <2>2. \A i, path : DG!Owns(s, i, path) => i \in DOMAIN t.features /\ DG!Owns(t, i, path)
      BY <1>1, <1>2
  <2> QED  BY <2>1, <2>2 DEF DG!DG004
<1> QED  BY <1>3, <1>5, <1>6

LEMMA DgRestricts ==
    ASSUME NEW ws, NEW l, NEW m, l.DG \in DG!DgSection,
           \/ \E from, to \in Chunks : m.DG = DG!ForbidEdge(l.DG, from, to)
           \/ \E pattern \in Chunks : m.DG = DG!AddSharedPath(l.DG, pattern)
           \/ \E name \in FeatureName, module \in Chunks, api \in Seq(Chunks) :
                /\ DG!CanDefineFeature(l.DG, name, module, FALSE)
                /\ m.DG = DG!DefineFeature(l.DG, name, module, api)
    PROVE  DgFindings(ws, l) \subseteq DgFindings(ws, m)
<1> DEFINE s == l.DG
           t == m.DG
           imports == ImportsOf(ws)
<1>1. t \in DG!DgSection
    BY DgTyped
<1>2. /\ s.forbidden_edges \in Seq(DG!Edge) /\ s.features \in Seq(DG!Feature)
      /\ s.shared_paths \in Seq(Chunks)
    BY DEF DG!DgSection
<1>3. /\ t.forbidden_edges = s.forbidden_edges
            \/ (\E edge \in DG!Edge : t.forbidden_edges = Append(s.forbidden_edges, edge))
      /\ t.features = s.features \/ (\E feature \in DG!Feature : t.features = Append(s.features, feature))
      /\ t.shared_paths = s.shared_paths
            \/ (\E pattern \in Chunks : t.shared_paths = Append(s.shared_paths, pattern))
  <2>1. CASE \E from, to \in Chunks : t = DG!ForbidEdge(s, from, to)
    <3>1. PICK from \in Chunks, to \in Chunks : t = DG!ForbidEdge(s, from, to)
        BY <2>1
    <3>2. [from |-> from, to |-> to] \in DG!Edge
        BY DEF DG!Edge
    <3> QED  BY <3>1, <3>2 DEF DG!ForbidEdge, DG!DgSection
  <2>2. CASE \E pattern \in Chunks : t = DG!AddSharedPath(s, pattern)
      BY <2>2 DEF DG!AddSharedPath, DG!DgSection
  <2>3. CASE \E name \in FeatureName, module \in Chunks, api \in Seq(Chunks) :
                /\ DG!CanDefineFeature(s, name, module, FALSE)
                /\ t = DG!DefineFeature(s, name, module, api)
    <3>1. PICK name \in FeatureName, module \in Chunks, api \in Seq(Chunks) :
                /\ DG!CanDefineFeature(s, name, module, FALSE)
                /\ t = DG!DefineFeature(s, name, module, api)
        BY <2>3
    <3> DEFINE feature == [name |-> name, module |-> module, public_api |-> api]
    <3>2. feature \in DG!Feature
        BY DEF DG!Feature, Chunks
    <3>3. DG!Named(s, name) = {}
        BY <3>1 DEF DG!CanDefineFeature
    <3>4. t = [s EXCEPT !.features = Append(s.features, feature)]
        BY <3>1, <3>3 DEF DG!DefineFeature, DG!DgSection
    <3> HIDE DEF feature
    <3> QED  BY <3>2, <3>4 DEF DG!DgSection
  <2> QED  BY <2>1, <2>2, <2>3
<1> HIDE DEF s, t, imports
<1>4. /\ DG!DG001(s, imports) \subseteq DG!DG001(t, imports)
      /\ DG!DG003(s, imports) \subseteq DG!DG003(t, imports)
      /\ DG!DG004(s, imports) \subseteq DG!DG004(t, imports)
  <2>1. /\ Len(s.forbidden_edges) <= Len(t.forbidden_edges)
        /\ \A i \in 1..Len(s.forbidden_edges) : t.forbidden_edges[i] = s.forbidden_edges[i]
      BY <1>2, <1>3
  <2>2. /\ Len(s.features) <= Len(t.features)
        /\ \A i \in 1..Len(s.features) : t.features[i] = s.features[i]
      BY <1>2, <1>3
  <2>3. /\ Len(s.shared_paths) <= Len(t.shared_paths)
        /\ \A i \in 1..Len(s.shared_paths) : t.shared_paths[i] = s.shared_paths[i]
      BY <1>2, <1>3
  <2> QED  BY <1>1, <2>1, <2>2, <2>3, DgGrows DEF s
<1>5. \A any : DgFindings(ws, any) = Found("DG001", DG!DG001(any.DG, ImportsOf(ws)))
                                          \cup Found("DG003", DG!DG003(any.DG, ImportsOf(ws)))
                                          \cup Found("DG004", DG!DG004(any.DG, ImportsOf(ws)))
    BY DEF DgFindings, DG!Findings
<1>6. /\ Found("DG001", DG!DG001(s, imports)) \subseteq Found("DG001", DG!DG001(t, imports))
      /\ Found("DG003", DG!DG003(s, imports)) \subseteq Found("DG003", DG!DG003(t, imports))
      /\ Found("DG004", DG!DG004(s, imports)) \subseteq Found("DG004", DG!DG004(t, imports))
    BY <1>4, FoundGrows
<1> QED  BY <1>5, <1>6 DEF s, t, imports

\* The section a command saves, and the others, which it leaves alone.
LEMMA SavedSection ==
    ASSUME NEW l \in Lock, NEW c, c.prefix \in Prefix, NEW p \in Prefix
    PROVE  /\ c.prefix = p => Saved(l, c)[p] = Edited(c, l[p])
           /\ c.prefix # p => Saved(l, c)[p] = l[p]
BY DEF Saved, Lock, Prefix, EmptyLock

LEMMA SavedIn ==
    ASSUME NEW l \in Lock, NEW c, c.prefix \in Prefix
    PROVE  LET m == Saved(l, c)
           IN  /\ c.prefix = "MO" => m.MO = Edited(c, l.MO)
               /\ c.prefix = "CX" => m.CX = Edited(c, l.CX)
               /\ c.prefix = "BO" => m.BO = Edited(c, l.BO)
               /\ c.prefix = "PA" => m.PA = Edited(c, l.PA)
               /\ c.prefix = "FO" => m.FO = Edited(c, l.FO)
               /\ c.prefix = "CR" => m.CR = Edited(c, l.CR)
               /\ c.prefix = "RM" => m.RM = Edited(c, l.RM)
               /\ c.prefix = "UT" => m.UT = Edited(c, l.UT)
               /\ c.prefix = "AB" => m.AB = Edited(c, l.AB)
               /\ c.prefix = "DA" => m.DA = Edited(c, l.DA)
               /\ c.prefix = "TA" => m.TA = Edited(c, l.TA)
               /\ c.prefix = "DC" => m.DC = Edited(c, l.DC)
               /\ c.prefix = "CF" => m.CF = Edited(c, l.CF)
               /\ c.prefix = "OB" => m.OB = Edited(c, l.OB)
               /\ c.prefix = "RW" => m.RW = Edited(c, l.RW)
               /\ c.prefix = "ER" => m.ER = Edited(c, l.ER)
               /\ c.prefix = "FL" => m.FL = Edited(c, l.FL)
               /\ c.prefix = "DG" => m.DG = Edited(c, l.DG)
BY SavedSection DEF Prefix, EmptyLock

\* The paradigm whose rules speak under a prefix.
LEMMA FindingsBy ==
    ASSUME NEW ws, NEW l
    PROVE  /\ FindingsOf(ws, l, "MO") = MoFindings(ws, l) /\ FindingsOf(ws, l, "CX") = CxFindings(ws, l)
           /\ FindingsOf(ws, l, "BO") = BoFindings(ws, l) /\ FindingsOf(ws, l, "PA") = PaFindings(ws, l)
           /\ FindingsOf(ws, l, "FO") = FoFindings(ws, l) /\ FindingsOf(ws, l, "CR") = CrFindings(ws, l)
           /\ FindingsOf(ws, l, "RM") = RmFindings(ws, l) /\ FindingsOf(ws, l, "UT") = UtFindings(ws, l)
           /\ FindingsOf(ws, l, "AB") = AbFindings(ws, l) /\ FindingsOf(ws, l, "DA") = DaFindings(ws, l)
           /\ FindingsOf(ws, l, "TA") = TaFindings(ws, l) /\ FindingsOf(ws, l, "DC") = DcFindings(ws, l)
           /\ FindingsOf(ws, l, "CF") = CfFindings(ws, l) /\ FindingsOf(ws, l, "OB") = ObFindings(ws, l)
           /\ FindingsOf(ws, l, "RW") = RwFindings(ws, l) /\ FindingsOf(ws, l, "ER") = ErFindings(ws, l)
           /\ FindingsOf(ws, l, "FL") = FlFindings(ws, l) /\ FindingsOf(ws, l, "DG") = DgFindings(ws, l)
BY DEF FindingsOf

\* What a command of another paradigm, or of none of these, asked for.
LEMMA AcceptedBy ==
    ASSUME NEW c, NEW section, Accepts(c, section)
    PROVE  /\ Is(c, "FO", "define-feature") => CanDefineFoFeature(section, c.feature, c.module, c.force)
           /\ Is(c, "DG", "define-feature") => DG!CanDefineFeature(section, c.feature, c.module, c.force)
           /\ c.name = "add-override" => CanOverride(section, c.module, c.force)
BY DEF Accepts, Is

\* To accept or to exempt never adds a finding.
LEMMA AllowingAllows ==
    ASSUME NEW ws, NEW l \in Lock, NEW c, IsCommand(c), Allows(c)
    PROVE  FindingsOf(ws, Saved(l, c), c.prefix) \subseteq FindingsOf(ws, l, c.prefix)
<1> DEFINE m == Saved(l, c)
<1>1. c.prefix \in Prefix
    BY SavedTyped
<1>2. CASE Is(c, "PA", "accept-colocated")
  <2>1. m.PA = AcceptColocated(l.PA, c.pattern)
      BY <1>1, <1>2, SavedIn, EditedBy DEF Is
  <2>2. PaFindings(ws, m) \subseteq PaFindings(ws, l)
      BY <2>1, LockWith, PaAllows
  <2> QED  BY <1>2, <2>2, FindingsBy DEF Is
<1>3. CASE Is(c, "RM", "add-exempt-path")
  <2>1. m.RM = AddRmExemptPath(l.RM, c.pattern)
      BY <1>1, <1>3, SavedIn, EditedBy DEF Is
  <2>2. RmFindings(ws, m) \subseteq RmFindings(ws, l)
      BY <2>1, LockWith, RmAllows
  <2> QED  BY <1>3, <2>2, FindingsBy DEF Is
<1>4. CASE Is(c, "AB", "accept-single-impl")
  <2>1. m.AB = AcceptAbSingleImpl(l.AB, c.pattern)
      BY <1>1, <1>4, SavedIn, EditedBy DEF Is
  <2>2. AbFindings(ws, m) \subseteq AbFindings(ws, l)
      BY <2>1, LockWith, AbAllows
  <2> QED  BY <1>4, <2>2, FindingsBy DEF Is
<1>5. CASE Is(c, "DA", "accept-single-impl")
  <2>1. m.DA = AcceptDaSingleImpl(l.DA, c.pattern)
      BY <1>1, <1>5, SavedIn, EditedBy DEF Is
  <2>2. DaFindings(ws, m) \subseteq DaFindings(ws, l)
      BY <2>1, LockWith, DaAllows
  <2> QED  BY <1>5, <2>2, FindingsBy DEF Is
<1>6. CASE Is(c, "DA", "disable")
  <2>0. m.DA = Edited(c, l.DA)
      BY <1>1, <1>6, SavedIn DEF Is
  <2>1. m.DA = SetDaEnabled(l.DA, FALSE)
      BY <1>6, <2>0 DEF Edited, Is, SetDaEnabled
  <2>2. DaFindings(ws, m) \subseteq DaFindings(ws, l)
      BY <2>1, LockWith, DaAllows
  <2> QED  BY <1>6, <2>2, FindingsBy DEF Is
<1>7. CASE Is(c, "DC", "add-exempt-path")
  <2>1. m.DC = AddDcExemptPath(l.DC, c.pattern)
      BY <1>1, <1>7, SavedIn, EditedBy DEF Is
  <2>2. DcFindings(ws, m) \subseteq DcFindings(ws, l)
      BY <2>1, LockWith, DcAllows
  <2> QED  BY <1>7, <2>2, FindingsBy DEF Is
<1>8. CASE Is(c, "DC", "disable")
  <2>0. m.DC = Edited(c, l.DC)
      BY <1>1, <1>8, SavedIn DEF Is
  <2>1. m.DC = SetRequirePublicDocs(l.DC, FALSE)
      BY <1>8, <2>0 DEF Edited, Is, SetRequirePublicDocs
  <2>2. DcFindings(ws, m) \subseteq DcFindings(ws, l)
      BY <2>1, LockWith, DcAllows
  <2> QED  BY <1>8, <2>2, FindingsBy DEF Is
<1> QED  BY <1>2, <1>3, <1>4, <1>5, <1>6, <1>7, <1>8 DEF Allows, Is

\* To restrict never hides a finding.
LEMMA RestrictingRestricts ==
    ASSUME NEW ws, IsWorkspace(ws), NEW l \in Lock, NEW c, IsCommand(c), Restricts(c),
           Accepts(c, l[c.prefix])
    PROVE  FindingsOf(ws, l, c.prefix) \subseteq FindingsOf(ws, Saved(l, c), c.prefix)
<1> DEFINE m == Saved(l, c)
<1>1. c.prefix \in Prefix
    BY SavedTyped
<1>2. CASE Is(c, "BO", "add-domain-path")
  <2>1. m.BO = AddBoDomainPath(l.BO, c.pattern)
      BY <1>1, <1>2, SavedIn, EditedBy DEF Is
  <2>2. BoFindings(ws, l) \subseteq BoFindings(ws, m)
      BY <2>1, LockWith, BoRestricts
  <2> QED  BY <1>2, <2>2, FindingsBy DEF Is
<1>3. CASE Is(c, "BO", "add-forbidden-import")
  <2>1. m.BO = AddForbiddenImport(l.BO, c.pattern)
      BY <1>1, <1>3, SavedIn, EditedBy DEF Is
  <2>2. BoFindings(ws, l) \subseteq BoFindings(ws, m)
      BY <2>1, LockWith, BoRestricts
  <2> QED  BY <1>3, <2>2, FindingsBy DEF Is
<1>4. CASE Is(c, "PA", "add-application-path")
  <2>1. m.PA = AddApplicationPath(l.PA, c.pattern)
      BY <1>1, <1>4, SavedIn, EditedBy DEF Is
  <2>2. PaFindings(ws, l) \subseteq PaFindings(ws, m)
      BY <2>1, LockWith, PaRestricts
  <2> QED  BY <1>4, <2>2, FindingsBy DEF Is
<1>5. CASE Is(c, "RM", "add-domain-path")
  <2>1. m.RM = AddRmDomainPath(l.RM, c.pattern)
      BY <1>1, <1>5, SavedIn, EditedBy DEF Is
  <2>2. RmFindings(ws, l) \subseteq RmFindings(ws, m)
      BY <2>1, LockWith, RmRestricts
  <2> QED  BY <1>5, <2>2, FindingsBy DEF Is
<1>6. CASE Is(c, "UT", "add-utility-path")
  <2>1. m.UT = AddUtilityPath(l.UT, c.pattern)
      BY <1>1, <1>6, SavedIn, EditedBy DEF Is
  <2>2. UtFindings(ws, l) \subseteq UtFindings(ws, m)
      BY <2>1, LockWith, UtRestricts
  <2> QED  BY <1>6, <2>2, FindingsBy DEF Is
<1>7. CASE Is(c, "TA", "add-test-path")
  <2>1. m.TA = AddTestPath(l.TA, c.pattern)
      BY <1>1, <1>7, SavedIn, EditedBy DEF Is
  <2>2. TaFindings(ws, l) \subseteq TaFindings(ws, m)
      BY <2>1, LockWith, TaRestricts
  <2> QED  BY <1>7, <2>2, FindingsBy DEF Is
<1>8. CASE Is(c, "OB", "add-forbidden-log-target")
  <2>1. m.OB = AddForbiddenLogTarget(l.OB, c.pattern)
      BY <1>1, <1>8, SavedIn, EditedBy DEF Is
  <2>2. ObFindings(ws, l) \subseteq ObFindings(ws, m)
      BY <2>1, LockWith, ObRestricts
  <2> QED  BY <1>8, <2>2, FindingsBy DEF Is
<1>9. CASE Is(c, "ER", "add-domain-path")
  <2>1. m.ER = AddErDomainPath(l.ER, c.pattern)
      BY <1>1, <1>9, SavedIn, EditedBy DEF Is
  <2>2. ErFindings(ws, l) \subseteq ErFindings(ws, m)
      BY <2>1, LockWith, ErRestricts
  <2> QED  BY <1>9, <2>2, FindingsBy DEF Is
<1>10. CASE Is(c, "FL", "add-domain-path")
  <2>1. m.FL = AddFlDomainPath(l.FL, c.pattern)
      BY <1>1, <1>10, SavedIn, EditedBy DEF Is
  <2>2. FlFindings(ws, l) \subseteq FlFindings(ws, m)
      BY <2>1, LockWith, FlRestricts
  <2> QED  BY <1>10, <2>2, FindingsBy DEF Is
<1>11. CASE Is(c, "FL", "add-boundary-error")
  <2>1. m.FL = AddBoundaryError(l.FL, c.pattern)
      BY <1>1, <1>11, SavedIn, EditedBy DEF Is
  <2>2. FlFindings(ws, l) \subseteq FlFindings(ws, m)
      BY <2>1, LockWith, FlRestricts
  <2> QED  BY <1>11, <2>2, FindingsBy DEF Is
<1>12. CASE Is(c, "DA", "enable")
  <2>0. m.DA = Edited(c, l.DA)
      BY <1>1, <1>12, SavedIn DEF Is
  <2>1. m.DA = SetDaEnabled(l.DA, TRUE)
      BY <1>12, <2>0 DEF Edited, Is, SetDaEnabled
  <2>2. DaFindings(ws, l) \subseteq DaFindings(ws, m)
      BY <2>1, LockWith, DaRestricts
  <2> QED  BY <1>12, <2>2, FindingsBy DEF Is
<1>13. CASE Is(c, "DC", "enable")
  <2>0. m.DC = Edited(c, l.DC)
      BY <1>1, <1>13, SavedIn DEF Is
  <2>1. m.DC = SetRequirePublicDocs(l.DC, TRUE)
      BY <1>13, <2>0 DEF Edited, Is, SetRequirePublicDocs
  <2>2. DcFindings(ws, l) \subseteq DcFindings(ws, m)
      BY <2>1, LockWith, DcRestricts
  <2> QED  BY <1>13, <2>2, FindingsBy DEF Is
<1>14. CASE Is(c, "DG", "forbid-edge")
  <2>1. m.DG = DG!ForbidEdge(l.DG, c.from, c.to) /\ c.from \in Chunks /\ c.to \in Chunks
      BY <1>1, <1>14, EditedBy, SavedIn, CommandsOf DEF Is, TakesPattern
  <2>2. DgFindings(ws, l) \subseteq DgFindings(ws, m)
      BY <2>1, LockWith, DgRestricts
  <2> QED  BY <1>14, <2>2, FindingsBy DEF Is
<1>15. CASE Is(c, "DG", "add-shared-path")
  <2>1. m.DG = DG!AddSharedPath(l.DG, c.pattern) /\ c.pattern \in Chunks
      BY <1>1, <1>15, EditedBy, SavedIn, CommandsOf DEF Is, TakesPattern
  <2>2. DgFindings(ws, l) \subseteq DgFindings(ws, m)
      BY <2>1, LockWith, DgRestricts
  <2> QED  BY <1>15, <2>2, FindingsBy DEF Is
<1>16. CASE c.name = "define-feature" /\ ~c.force
  <2>1. /\ c.prefix = "DG" \/ c.prefix = "FO"
        /\ c.feature \in FeatureName /\ c.module \in Chunks /\ c.api \in Seq(Chunks)
      BY <1>16, CommandsOf DEF TakesPattern
  <2>2. CASE c.prefix = "DG"
    <3>1. DG!CanDefineFeature(l.DG, c.feature, c.module, c.force)
        BY <1>16, <2>2, AcceptedBy DEF Is
    <3>2. DG!CanDefineFeature(l.DG, c.feature, c.module, FALSE)
        BY <1>16, <3>1 DEF DG!CanDefineFeature
    <3>3. m.DG = DG!DefineFeature(l.DG, c.feature, c.module, c.api)
        BY <1>1, <1>16, <2>2, EditedBy, SavedIn DEF Is
    <3>4. DgFindings(ws, l) \subseteq DgFindings(ws, m)
        BY <2>1, <3>2, <3>3, LockWith, DgRestricts
    <3> QED  BY <2>2, <3>4, FindingsBy
  <2>3. CASE c.prefix = "FO"
    <3>1. CanDefineFoFeature(l.FO, c.feature, c.module, c.force)
        BY <1>16, <2>3, AcceptedBy DEF Is
    <3>2. CanDefineFoFeature(l.FO, c.feature, c.module, FALSE)
        BY <1>16, <3>1 DEF CanDefineFoFeature
    <3>3. m.FO = DefineFoFeature(l.FO, c.feature, c.module)
        BY <1>1, <1>16, <2>3, EditedBy, SavedIn DEF Is
    <3>4. FoFindings(ws, l) \subseteq FoFindings(ws, m)
        BY <2>1, <3>2, <3>3, LockWith, FoRestricts
    <3> QED  BY <2>3, <3>4, FindingsBy
  <2> QED  BY <2>1, <2>2, <2>3
<1> QED  BY <1>2, <1>3, <1>4, <1>5, <1>6, <1>7, <1>8, <1>9, <1>10, <1>11, <1>12, <1>13, <1>14,
            <1>15, <1>16 DEF Restricts, Is

\* The first owner switches its rules on, another one is let off.
LEMMA OwningOwns ==
    ASSUME NEW ws, NEW l \in Lock, NEW c, IsCommand(c), OwnsMore(c)
    PROVE  LET before == FindingsOf(ws, l, c.prefix)
               after  == FindingsOf(ws, Saved(l, c), c.prefix)
           IN  IF l[c.prefix][Owners[c.prefix]] = {} THEN before \subseteq after
               ELSE after \ InRoots(after) \subseteq before
<1> DEFINE m == Saved(l, c)
<1>1. c.prefix \in Prefix
    BY SavedTyped
<1>2. CASE Is(c, "CF", "add-config-path")
  <2>1. m.CF = AddConfigPath(l.CF, c.pattern)
      BY <1>1, <1>2, SavedIn, EditedBy DEF Is
  <2>2. IF l.CF.config_paths = {} THEN CfFindings(ws, l) \subseteq CfFindings(ws, m)
        ELSE CfFindings(ws, m) \subseteq CfFindings(ws, l)
      BY <2>1, LockWith, CfOwns
  <2>3. l[c.prefix][Owners[c.prefix]] = l.CF.config_paths
      BY <1>2 DEF Is, Owners
  <2> QED  BY <1>2, <2>2, <2>3, FindingsBy DEF Is
<1>3. CASE Is(c, "OB", "add-observer-path")
  <2>1. m.OB = AddObserverPath(l.OB, c.pattern)
      BY <1>1, <1>3, SavedIn, EditedBy DEF Is
  <2>2. IF l.OB.observer_paths = {} THEN ObFindings(ws, l) \subseteq ObFindings(ws, m)
        ELSE ObFindings(ws, m) \subseteq ObFindings(ws, l)
      BY <2>1, LockWith, ObOwns
  <2>3. l[c.prefix][Owners[c.prefix]] = l.OB.observer_paths
      BY <1>3 DEF Is, Owners
  <2> QED  BY <1>3, <2>2, <2>3, FindingsBy DEF Is
<1>4. CASE Is(c, "RW", "accept-runtime-owner")
  <2>1. m.RW = AcceptRuntimeOwner(l.RW, c.pattern)
      BY <1>1, <1>4, SavedIn, EditedBy DEF Is
  <2>2. IF l.RW.owner_paths = {} THEN RwFindings(ws, l) \subseteq RwFindings(ws, m)
        ELSE RwFindings(ws, m) \subseteq RwFindings(ws, l)
      BY <2>1, LockWith, RwOwns
  <2>3. l[c.prefix][Owners[c.prefix]] = l.RW.owner_paths
      BY <1>4 DEF Is, Owners
  <2> QED  BY <1>4, <2>2, <2>3, FindingsBy DEF Is
<1>5. CASE Is(c, "CR", "add-composition-root")
  <2>1. m.CR = AddCompositionRoot(l.CR, c.pattern)
      BY <1>1, <1>5, SavedIn, EditedBy DEF Is
  <2>2. IF l.CR.roots = {} THEN CrFindings(ws, l) \subseteq CrFindings(ws, m)
        ELSE CrFindings(ws, m) \ InRoots(CrFindings(ws, m)) \subseteq CrFindings(ws, l)
      BY <2>1, LockWith, CrOwns
  <2>3. l[c.prefix][Owners[c.prefix]] = l.CR.roots
      BY <1>5 DEF Is, Owners
  <2> QED  BY <1>5, <2>2, <2>3, FindingsBy DEF Is
<1> QED  BY <1>2, <1>3, <1>4, <1>5 DEF OwnsMore, Is

\* What a developer declares moves the findings of its paradigm one way, whatever is
\* declared already, in whichever order, and whatever a scan finds.
THEOREM DeclarationsMoveOneWay == Spec => DeclaringMovesOneWay
<1> DEFINE Moves(c) ==
        LET before == FindingsOf(code, lock, c.prefix)
            after  == FindingsOf(code, lock', c.prefix)
        IN  /\ Allows(c) => after \subseteq before
            /\ Restricts(c) => before \subseteq after
            /\ OwnsMore(c) => IF lock[c.prefix][Owners[c.prefix]] = {} THEN before \subseteq after
                              ELSE after \ InRoots(after) \subseteq before
<1>1. ASSUME TypeOK, NEW c \in Commands, Run(c)
      PROVE  Moves(c)
  <2>1. IsCommand(c) /\ lock \in Lock /\ IsWorkspace(code)
      BY <1>1, CommandsAssumption, WorkspacesAssumption DEF TypeOK
  <2>2. lock' = Saved(lock, c) /\ Accepts(c, lock[c.prefix])
      BY <1>1 DEF Run, Saved
  <2> QED  BY <2>1, <2>2, AllowingAllows, RestrictingRestricts, OwningOwns
<1>2. TypeOK /\ [Next]_vars => [\A c \in Commands : Run(c) => Moves(c)]_vars
    BY <1>1
<1> QED  BY <1>2, TypeCorrect, PTL DEF Spec, DeclaringMovesOneWay

-----------------------------------------------------------------------------
(* Budgets *)

\* An entry that matches stays the first one when the list is left alone or grows.
LEMMA EntryKept ==
    ASSUME NEW T, NEW entries \in Seq(T), NEW more,
           more = entries \/ (\E e \in T : more = Append(entries, e)),
           NEW path, FirstEntry(entries, path) # 0
    PROVE  /\ FirstEntry(more, path) = FirstEntry(entries, path)
           /\ more[FirstEntry(entries, path)] = entries[FirstEntry(entries, path)]
<1>1. FirstEntry(entries, path) \in 1..Len(entries)
    BY FirstEntryIs
<1>2. CASE more = entries
    BY <1>2
<1>3. CASE \E e \in T : more = Append(entries, e)
  <2>1. PICK e \in T : more = Append(entries, e)
      BY <1>3
  <2>2. FirstEntry(more, path) = FirstEntry(entries, path)
      BY <2>1, FirstEntryAppended
  <2> QED  BY <1>1, <2>1, <2>2
<1> QED  BY <1>2, <1>3

\* The findings that a budget decides about are those of one rule.
LEMMA BudgetRules ==
    ASSUME NEW ws, NEW l, NEW f
    PROVE  /\ f \in MoFindings(ws, l) /\ f[1] \in {"MO001", "CX001"} <=> f \in MO001(ws, l.MO)
           /\ f \in CxFindings(ws, l) /\ f[1] \in {"MO001", "CX001"} <=> f \in CX001(ws, l.CX)
<1>1. /\ f \in MO001(ws, l.MO) => f[1] = "MO001"
      /\ f \in MO002(ws, l.MO) => f[1] = "MO002"
      /\ f \in MO003(ws) => f[1] = "MO003"
      /\ f \in MO004(ws, l.MO) => f[1] = "MO004"
    BY DEF MO001, MO002, MO003, MO004
<1>2. f \in MO005(ws, l.MO) => f[1] = "MO005"
    BY FoundRule DEF MO005
<1>3. f \in CX001(ws, l.CX) => f[1] = "CX001"
    BY FoundRule DEF CX001
<1>4. /\ f \in CX002(ws, l.CX) => f[1] = "CX002"
      /\ f \in CX007(ws, l.CX) => f[1] = "CX007"
  <2>1. /\ \E files : CX002(ws, l.CX) = {<<"CX002", x>> : x \in files}
        /\ \E files : CX007(ws, l.CX) = {<<"CX007", x>> : x \in files}
      BY DEF CX002, CX007
  <2> QED  BY <2>1
<1>5. f \in CX008(ws, l.CX) => f[1] = "CX008"
  <2>1. \E items : CX008(ws, l.CX) \in {{}, Found("CX008", items)}
      BY DEF CX008
  <2> QED  BY <2>1, FoundRule
<1> QED  BY <1>1, <1>2, <1>3, <1>4, <1>5 DEF MoFindings, CxFindings

\* A command that sets a default, or adds an override for another module.
LEMMA OverridesGrow ==
    ASSUME NEW l \in Lock, NEW c, IsCommand(c), c.name \in {"set-default", "add-override"},
           c.prefix \in {"MO", "CX"},
           c.name = "add-override" => OverrideOf(l[c.prefix], c.module) = {}
    PROVE  LET entries == l[c.prefix].overrides
               more    == Saved(l, c)[c.prefix].overrides
           IN  /\ entries \in Seq([module : Chunks, max : Nat])
               /\ more = entries \/ (\E e \in [module : Chunks, max : Nat] : more = Append(entries, e))
<1> DEFINE Entry == [module : Chunks, max : Nat]
<1>1. /\ c.max \in Nat
      /\ c.name = "add-override" => c.module \in Chunks
    BY CommandsOf DEF TakesPattern
<1>2. c.name = "add-override" => [module |-> c.module, max |-> c.max] \in Entry
    BY <1>1
<1>3. /\ l["MO"] \in MoSection /\ l["CX"] \in CxSection
    BY LockWith
<1>4. CASE c.prefix = "MO"
  <2>1. Saved(l, c)["MO"] = Edited(c, l["MO"])
      BY <1>4, SavedSection, SavedTyped
  <2>2. CASE c.name = "set-default"
    <3>1. Saved(l, c)["MO"] = SetMoDefault(l["MO"], c.max)
        BY <1>4, <2>1, <2>2, EditedBy DEF Is
    <3> QED  BY <1>3, <1>4, <3>1 DEF SetMoDefault, MoSection
  <2>3. CASE c.name = "add-override"
    <3>1. Saved(l, c)["MO"] = AddMoOverride(l["MO"], c.module, c.max)
        BY <1>4, <2>1, <2>3, EditedBy DEF Is
    <3>2. OverrideOf(l["MO"], c.module) = {}
        BY <1>4, <2>3
    <3> QED  BY <1>2, <1>3, <1>4, <2>3, <3>1, <3>2 DEF AddMoOverride, MoSection
  <2> QED  BY <2>2, <2>3
<1>5. CASE c.prefix = "CX"
  <2>1. Saved(l, c)["CX"] = Edited(c, l["CX"])
      BY <1>5, SavedSection, SavedTyped
  <2>2. CASE c.name = "set-default"
    <3>1. Saved(l, c)["CX"] = SetCxDefault(l["CX"], c.max)
        BY <1>5, <2>1, <2>2, EditedBy DEF Is
    <3> QED  BY <1>3, <1>5, <3>1 DEF SetCxDefault, CxSection
  <2>3. CASE c.name = "add-override"
    <3>1. Saved(l, c)["CX"] = AddCxOverride(l["CX"], c.module, c.max)
        BY <1>5, <2>1, <2>3, EditedBy DEF Is
    <3>2. OverrideOf(l["CX"], c.module) = {}
        BY <1>5, <2>3
    <3> QED  BY <1>2, <1>3, <1>5, <2>3, <3>1, <3>2 DEF AddCxOverride, AddMoOverride, CxSection
  <2> QED  BY <2>2, <2>3
<1> QED  BY <1>4, <1>5

\* A budget that is given to a module stays, however the modules that overrides name lie
\* within each other.
THEOREM BudgetsStay == Spec => EarlierOverridesWin
<1> DEFINE Of(prefix, findings) == {f \in findings : f[1] \in {"MO001", "CX001"} /\ f[2] \in Budgeted(prefix)}
<1>1. ASSUME TypeOK, NEW c \in Commands, c.name \in {"set-default", "add-override"},
             c.prefix \in {"MO", "CX"}, Run(c),
             c.name = "add-override" => OverrideOf(lock[c.prefix], c.module) = {}
      PROVE  Of(c.prefix, FindingsOf(code, lock', c.prefix)) = Of(c.prefix, FindingsOf(code, lock, c.prefix))
  <2> DEFINE m       == Saved(lock, c)
             entries == lock[c.prefix].overrides
             more    == m[c.prefix].overrides
  <2>1. IsCommand(c) /\ lock \in Lock /\ IsWorkspace(code) /\ lock' = m
      BY <1>1, CommandsAssumption, WorkspacesAssumption DEF TypeOK, Run, Saved
  <2>2. ASSUME NEW module, FirstEntry(entries, module) # 0
        PROVE  /\ FirstEntry(more, module) = FirstEntry(entries, module)
               /\ more[FirstEntry(entries, module)] = entries[FirstEntry(entries, module)]
    <3> DEFINE Entry == [module : Chunks, max : Nat]
    <3>1. entries \in Seq(Entry) /\ (more = entries \/ (\E e \in Entry : more = Append(entries, e)))
        BY <1>1, <2>1, OverridesGrow
    <3> HIDE DEF entries, more, Entry
    <3> QED  BY <2>2, <3>1, EntryKept
  <2> HIDE DEF m
  <2>3. CASE c.prefix = "MO"
    <3>1. /\ FindingsOf(code, lock, "MO") = MoFindings(code, lock)
          /\ FindingsOf(code, m, "MO") = MoFindings(code, m)
        BY FindingsBy
    <3>2. ASSUME NEW f, f[2] \in Budgeted("MO")
          PROVE  f \in MO001(code, m.MO) <=> f \in MO001(code, lock.MO)
      <4> DEFINE module == code.files[f[2]].module
      <4>1. FirstEntry(lock.MO.overrides, module) # 0
          BY <3>2 DEF Budgeted
      <4>2. Budget(m.MO, module) = Budget(lock.MO, module)
          BY <2>2, <2>3, <4>1 DEF Budget
      <4> QED  BY <4>2 DEF MO001
    <3> QED  BY <2>1, <2>3, <3>1, <3>2, BudgetRules
  <2>4. CASE c.prefix = "CX"
    <3>1. /\ FindingsOf(code, lock, "CX") = CxFindings(code, lock)
          /\ FindingsOf(code, m, "CX") = CxFindings(code, m)
        BY FindingsBy
    <3>2. \A x, y \in code.functions : x.at = y.at => x = y
      <4>1. "functions" \in Items
          BY DEF Items
      <4>2. \A x, y \in code["functions"] : x.at = y.at => x = y
          BY <2>1, <4>1 DEF IsWorkspace
      <4> QED  BY <4>2
    <3>3. ASSUME NEW g \in code.functions, g.at \in Budgeted("CX")
          PROVE  LineBudget(m.CX.overrides, Or(m.CX.default, 50), ModuleOf(code, g))
                    = LineBudget(lock.CX.overrides, Or(lock.CX.default, 50), ModuleOf(code, g))
      <4>1. PICK h \in code.functions : h.at = g.at /\ FirstEntry(lock["CX"].overrides, ModuleOf(code, h)) # 0
          BY <3>3 DEF Budgeted
      <4>2. FirstEntry(lock.CX.overrides, ModuleOf(code, g)) # 0
          BY <3>2, <4>1
      <4> QED  BY <2>2, <2>4, <4>2 DEF LineBudget
    <3>4. ASSUME NEW f, f[2] \in Budgeted("CX")
          PROVE  f \in CX001(code, m.CX) <=> f \in CX001(code, lock.CX)
      <4>1. \A cx : f \in CX001(code, cx) <=>
                \E g \in code.functions :
                    /\ f = <<"CX001", g.at>>
                    /\ HasModule(code, g)
                    /\ g.lines > LineBudget(cx.overrides, Or(cx.default, 50), ModuleOf(code, g))
          BY DEF CX001, Found
      <4>2. \A g : f = <<"CX001", g.at>> => g.at \in Budgeted("CX")
          BY <3>4
      <4> QED  BY <3>3, <4>1, <4>2
    <3> QED  BY <2>1, <2>4, <3>1, <3>4, BudgetRules
  <2> QED  BY <1>1, <2>3, <2>4
<1>2. TypeOK /\ [Next]_vars =>
        [\A c \in {c \in Commands : c.name \in {"set-default", "add-override"} /\ c.prefix \in {"MO", "CX"}} :
            Run(c) /\ (c.name = "add-override" => OverrideOf(lock[c.prefix], c.module) = {}) =>
                LET Kept(findings) == {f \in findings : /\ f[1] \in {"MO001", "CX001"}
                                                        /\ f[2] \in Budgeted(c.prefix)}
                IN  Kept(FindingsOf(code, lock', c.prefix)) = Kept(FindingsOf(code, lock, c.prefix))]_vars
    BY <1>1
<1> QED  BY <1>2, TypeCorrect, PTL DEF Spec, EarlierOverridesWin

-----------------------------------------------------------------------------
(* The checklist *)

\* What another section leaves open.  Q are the paradigms whose sections change; whatever
\* else is suggested then was suggested before.
LEMMA SpecificShrinks ==
    ASSUME NEW ws, NEW l, NEW m, NEW acked, NEW more, acked \subseteq more, NEW Q,
           \A p \in Prefix \ Q : m[p] = l[p],
           DomainPathsSet(l) => DomainPathsSet(m), FeaturesSet(l) => FeaturesSet(m)
    PROVE  \A s \in Specific(ws, m, more) : s \in Specific(ws, l, acked) \/ s.prefixes \subseteq Q
<1>0. /\ "MO" \notin Q => m.MO = l.MO
      /\ "CX" \notin Q => m.CX = l.CX
      /\ "RM" \notin Q => m.RM = l.RM
      /\ "CR" \notin Q => m.CR = l.CR
      /\ "TA" \notin Q => m.TA = l.TA
      /\ "UT" \notin Q => m.UT = l.UT
      /\ "CF" \notin Q => m.CF = l.CF
      /\ "DG" \notin Q => m.DG = l.DG
  <2>1. {"MO", "CX", "RM", "CR", "TA", "UT", "CF", "DG"} \subseteq Prefix
      BY DEF Prefix, EmptyLock
  <2> QED  BY <2>1
<1>1. \A prefixes, commands, skip : Suggestion(prefixes, commands, skip).prefixes \subseteq prefixes
    BY DEF Suggestion
<1>2. CrossParadigm(ws, m) \subseteq CrossParadigm(ws, l)
  <2>1. DomainLayer(ws, m) \subseteq DomainLayer(ws, l)
    <3>1. CASE DomainPathsSet(m)
        BY <3>1 DEF DomainLayer
    <3>2. CASE ~DomainPathsSet(m)
      <4>1. DomainLayer(ws, m) = DomainLayer(ws, l)
          BY <3>2 DEF DomainLayer
      <4> QED  BY <4>1
    <3> QED  BY <3>1, <3>2
  <2>2. FeaturePartition(ws, m) \subseteq FeaturePartition(ws, l)
    <3>1. CASE FeaturesSet(m)
        BY <3>1 DEF FeaturePartition
    <3>2. CASE ~FeaturesSet(m)
      <4>1. FeaturePartition(ws, m) = FeaturePartition(ws, l)
          BY <3>2 DEF FeaturePartition
      <4> QED  BY <4>1
    <3> QED  BY <3>1, <3>2
  <2> QED  BY <2>1, <2>2 DEF CrossParadigm
<1>3. ASSUME NEW prefix, NEW f, NEW s \in Cap(prefix, f)
      PROVE  s.prefixes \subseteq {prefix}
    BY <1>1, <1>3 DEF Cap
<1>4. ASSUME NEW s \in SuggestMo(ws, m, more)
      PROVE  s \in SuggestMo(ws, l, acked) \/ s.prefixes \subseteq Q
  <2>1. s \in Cap("MO", TypesPerFile(ws)) /\ ~Capped(m, more, "MO")
      BY <1>4 DEF SuggestMo
  <2>2. CASE "MO" \in Q
      BY <1>3, <2>1, <2>2
  <2>3. CASE "MO" \notin Q
    <3>1. ~Capped(l, acked, "MO")
        BY <1>0, <2>1, <2>3 DEF Capped
    <3> QED  BY <1>4, <2>1, <3>1 DEF SuggestMo
  <2> QED  BY <2>2, <2>3
<1>5. ASSUME NEW s \in SuggestCx(ws, m, more)
      PROVE  s \in SuggestCx(ws, l, acked) \/ s.prefixes \subseteq Q
  <2>1. s \in Cap("CX", LinesPerFunction(ws)) /\ ~Capped(m, more, "CX")
      BY <1>5 DEF SuggestCx
  <2>2. CASE "CX" \in Q
      BY <1>3, <2>1, <2>2
  <2>3. CASE "CX" \notin Q
    <3>1. ~Capped(l, acked, "CX")
        BY <1>0, <2>1, <2>3 DEF Capped
    <3> QED  BY <1>5, <2>1, <3>1 DEF SuggestCx
  <2> QED  BY <2>2, <2>3
<1>6. ASSUME NEW s \in SuggestRm(ws, m, more)
      PROVE  s \in SuggestRm(ws, l, acked) \/ s.prefixes \subseteq Q
  <2>1. s \in Cap("RM", KindsPerFunction(ws)) /\ ~Capped(m, more, "RM")
      BY <1>6 DEF SuggestRm
  <2>2. CASE "RM" \in Q
      BY <1>3, <2>1, <2>2
  <2>3. CASE "RM" \notin Q
    <3>1. ~Capped(l, acked, "RM")
        BY <1>0, <2>1, <2>3 DEF Capped
    <3> QED  BY <1>6, <2>1, <3>1 DEF SuggestRm
  <2> QED  BY <2>2, <2>3
<1>7. ASSUME NEW s \in SuggestDg(ws, m)
      PROVE  s \in SuggestDg(ws, l) \/ s.prefixes \subseteq Q
  <2>1. CASE "DG" \in Q
    <3>1. \E commands : s = Suggestion({"DG"}, commands, {})
        BY <1>7, Zenon DEF SuggestDg
    <3> QED  BY <1>1, <2>1, <3>1
  <2>2. CASE "DG" \notin Q
    <3> DEFINE Of(dg) ==
            {LET i == CHOOSE i \in DG!Named(dg, name) : \A j \in DG!Named(dg, name) : i <= j
                 module == dg.features[i].module
             IN  Suggestion({"DG"}, {DefinesFeature("DG", name, module, <<api>>, TRUE) :
                                        api \in {DG!ApiSeed(module), module}}, {}) :
             name \in DG!Suggested(dg, ImportsOf(ws))}
    <3>1. SuggestDg(ws, m) = Of(m.DG) /\ SuggestDg(ws, l) = Of(l.DG)
        BY Zenon DEF SuggestDg
    <3> HIDE DEF Of
    <3> QED  BY <1>0, <1>7, <2>2, <3>1
  <2> QED  BY <2>1, <2>2
<1>8. ASSUME NEW prefix, NEW name, NEW globs, NEW before, NEW after, prefix \notin Q => after = before,
             NEW s \in SuggestLayer(prefix, name, globs, after, more)
      PROVE  s \in SuggestLayer(prefix, name, globs, before, acked) \/ s.prefixes \subseteq Q
  <2>1. s = Suggestion({prefix}, {Adds(prefix, name, glob) : glob \in globs}, {prefix})
      BY <1>8 DEF SuggestLayer
  <2>2. CASE prefix \in Q
      BY <1>1, <2>1, <2>2
  <2>3. CASE prefix \notin Q
      BY <1>8, <2>3 DEF SuggestLayer
  <2> QED  BY <2>2, <2>3
<1>9. ASSUME NEW s \in SuggestDensity(ws, m, more)
      PROVE  s \in SuggestDensity(ws, l, acked) \/ s.prefixes \subseteq Q
  <2>1. s = Suggestion({"CR"}, {}, {})
      BY <1>9 DEF SuggestDensity
  <2>2. CASE "CR" \in Q
      BY <1>1, <2>1, <2>2
  <2>3. CASE "CR" \notin Q
      BY <1>0, <1>9, <2>3 DEF SuggestDensity
  <2> QED  BY <2>2, <2>3
<1>10. ASSUME NEW s \in SuggestLayer("CR", "add-composition-root", Composition(ws), m.CR.roots, more)
                        \cup SuggestLayer("TA", "add-test-path", Tests(ws), m.TA.test_paths, more)
                        \cup SuggestLayer("UT", "add-utility-path", Utilities(ws), m.UT.utility_paths, more)
                        \cup SuggestLayer("CF", "add-config-path", Config(ws), m.CF.config_paths, more)
       PROVE  \/ s \in SuggestLayer("CR", "add-composition-root", Composition(ws), l.CR.roots, acked)
                        \cup SuggestLayer("TA", "add-test-path", Tests(ws), l.TA.test_paths, acked)
                        \cup SuggestLayer("UT", "add-utility-path", Utilities(ws), l.UT.utility_paths, acked)
                        \cup SuggestLayer("CF", "add-config-path", Config(ws), l.CF.config_paths, acked)
              \/ s.prefixes \subseteq Q
    BY <1>0, <1>8, <1>10
<1> QED  BY <1>2, <1>4, <1>5, <1>6, <1>7, <1>9, <1>10 DEF Specific

\* No paradigm comes to the checklist but one whose section changes.
LEMMA OpenShrinks ==
    ASSUME NEW ws, NEW l, NEW m, NEW acked, NEW more, acked \subseteq more,
           NEW known, NEW latest, known \subseteq latest, NEW Q,
           \A p \in Prefix \ Q : m[p] = l[p],
           DomainPathsSet(l) => DomainPathsSet(m), FeaturesSet(l) => FeaturesSet(m)
    PROVE  UNION {s.prefixes : s \in Checklist(ws, m, latest, more)}
                \subseteq (UNION {s.prefixes : s \in Checklist(ws, l, known, acked)}) \cup Q
<1> DEFINE before == Specific(ws, l, acked)
           after  == Specific(ws, m, more)
<1>1. ASSUME NEW s \in after
      PROVE  s.prefixes \subseteq (UNION {t.prefixes : t \in Checklist(ws, l, known, acked)}) \cup Q
  <2>1. s \in before \/ s.prefixes \subseteq Q
      BY <1>1, SpecificShrinks
  <2>2. before \subseteq Checklist(ws, l, known, acked)
      BY DEF Checklist
  <2> HIDE DEF before, after
  <2> QED  BY <2>1, <2>2
<1>2. ASSUME NEW s \in VacancySeeds(latest, more, after)
      PROVE  s.prefixes \subseteq UNION {t.prefixes : t \in Checklist(ws, l, known, acked)}
  <2> DEFINE Seed(p) == Suggestion({p}, {c \in Commands : Is(c, p, SeedName[p])}, {p})
  <2>1. PICK p \in (DOMAIN SeedName \cap Paradigms) \ (latest \cup more \cup UNION {t.prefixes : t \in after}) :
            s = Seed(p)
      BY <1>2, Zenon DEF VacancySeeds
  <2>2. Seed(p).prefixes = {p}
      BY <2>1 DEF Suggestion
  <2>3. CASE p \in UNION {t.prefixes : t \in before}
      BY <2>1, <2>2, <2>3 DEF Checklist
  <2>4. CASE p \notin UNION {t.prefixes : t \in before}
    <3>1. Seed(p) \in VacancySeeds(known, acked, before)
        BY <2>1, <2>4 DEF VacancySeeds
    <3>2. Seed(p) \in Checklist(ws, l, known, acked)
        BY <3>1 DEF Checklist
    <3> QED  BY <2>1, <2>2, <3>2
  <2> QED  BY <2>3, <2>4
<1> QED  BY <1>1, <1>2 DEF Checklist

\* A feature is there once it is defined.
LEMMA DgDefines ==
    ASSUME NEW dg \in DG!DgSection, NEW name, NEW module, NEW api
    PROVE  DG!DefineFeature(dg, name, module, api).features # <<>>
<1> DEFINE t == DG!DefineFeature(dg, name, module, api)
<1>1. dg.features \in Seq(DG!Feature)
    BY DEF DG!DgSection
<1>2. CASE DG!Named(dg, name) = {}
  <2> DEFINE feature == [name |-> name, module |-> module, public_api |-> api]
  <2>1. t.features = Append(dg.features, feature)
      BY <1>2 DEF DG!DefineFeature, DG!DgSection
  <2> HIDE DEF t, feature
  <2> QED  BY <1>1, <2>1 DEF t
<1>3. CASE DG!Named(dg, name) # {}
  <2>1. DOMAIN dg.features # {}
      BY <1>3 DEF DG!Named
  <2>2. DOMAIN t.features = DOMAIN dg.features
      BY <1>3 DEF DG!DefineFeature, DG!DgSection
  <2> QED  BY <2>1, <2>2
<1> QED  BY <1>2, <1>3

LEMMA FoDefines ==
    ASSUME NEW fo \in FoSection, NEW name, NEW module
    PROVE  DefineFoFeature(fo, name, module).features # <<>>
<1> DEFINE t == DefineFoFeature(fo, name, module)
<1>1. fo.features \in Seq([name : Text, module : Chunks])
    BY DEF FoSection
<1>2. CASE FeatureNamed(fo, name) = {}
  <2> DEFINE feature == [name |-> name, module |-> module]
  <2>1. t.features = Append(fo.features, feature)
      BY <1>2 DEF DefineFoFeature, FoSection
  <2> HIDE DEF t, feature
  <2> QED  BY <1>1, <2>1 DEF t
<1>3. CASE FeatureNamed(fo, name) # {}
  <2>1. DOMAIN fo.features # {}
      BY <1>3 DEF FeatureNamed
  <2>2. DOMAIN t.features = DOMAIN fo.features
      BY <1>3 DEF DefineFoFeature, FoSection
  <2> QED  BY <2>1, <2>2
<1> QED  BY <1>2, <1>3

\* A command of the checklist leaves something declared in its paradigm.
LEMMA OnboardingDeclares ==
    ASSUME NEW l \in Lock, NEW c, IsCommand(c), <<c.prefix, c.name>> \in Onboarding
    PROVE  c.prefix \notin Vacant(Saved(l, c))
<1> DEFINE m == Saved(l, c)
<1>1. c.prefix \in Prefix
    BY SavedTyped
<1>2. CASE c.prefix \in {"MO", "CX", "AB", "DC", "OB"}
    BY <1>2 DEF Vacant
<1>3. CASE c.prefix = "BO"
  <2>0. c.name = "add-domain-path"
      BY <1>3 DEF Onboarding
  <2>1. m.BO = AddBoDomainPath(l.BO, c.pattern)
      BY <1>1, <1>3, <2>0, SavedIn, EditedBy DEF Is
  <2>2. c.pattern \in m.BO.domain_paths
      BY <2>1, LockWith DEF AddBoDomainPath, BoSection
  <2>3. ~BoVacant(m.BO)
      BY <2>2 DEF BoVacant
  <2> QED  BY <1>3, <2>3 DEF Vacant
<1>4. CASE c.prefix = "CF"
  <2>0. c.name = "add-config-path"
      BY <1>4 DEF Onboarding
  <2>1. m.CF = AddConfigPath(l.CF, c.pattern)
      BY <1>1, <1>4, <2>0, SavedIn, EditedBy DEF Is
  <2>2. c.pattern \in m.CF.config_paths
      BY <2>1, LockWith DEF AddConfigPath, CfSection
  <2>3. ~CfVacant(m.CF)
      BY <2>2 DEF CfVacant
  <2> QED  BY <1>4, <2>3 DEF Vacant
<1>5. CASE c.prefix = "CR"
  <2>0. c.name = "add-composition-root"
      BY <1>5 DEF Onboarding
  <2>1. m.CR = AddCompositionRoot(l.CR, c.pattern)
      BY <1>1, <1>5, <2>0, SavedIn, EditedBy DEF Is
  <2>2. c.pattern \in m.CR.roots
      BY <2>1, LockWith DEF AddCompositionRoot, CrSection
  <2>3. ~CrVacant(m.CR)
      BY <2>2 DEF CrVacant
  <2> QED  BY <1>5, <2>3 DEF Vacant
<1>6. CASE c.prefix = "ER"
  <2>0. c.name = "add-domain-path"
      BY <1>6 DEF Onboarding
  <2>1. m.ER = AddErDomainPath(l.ER, c.pattern)
      BY <1>1, <1>6, <2>0, SavedIn, EditedBy DEF Is
  <2>2. c.pattern \in m.ER.domain_paths
      BY <2>1, LockWith DEF AddErDomainPath, ErSection
  <2>3. ~ErVacant(m.ER)
      BY <2>2 DEF ErVacant
  <2> QED  BY <1>6, <2>3 DEF Vacant
<1>7. CASE c.prefix = "FL"
  <2>0. c.name = "add-domain-path"
      BY <1>7 DEF Onboarding
  <2>1. m.FL = AddFlDomainPath(l.FL, c.pattern)
      BY <1>1, <1>7, <2>0, SavedIn, EditedBy DEF Is
  <2>2. c.pattern \in m.FL.domain_paths
      BY <2>1, LockWith DEF AddFlDomainPath, FlSection
  <2>3. ~FlVacant(m.FL)
      BY <2>2 DEF FlVacant
  <2> QED  BY <1>7, <2>3 DEF Vacant
<1>8. CASE c.prefix = "PA"
  <2>0. c.name = "add-application-path"
      BY <1>8 DEF Onboarding
  <2>1. m.PA = AddApplicationPath(l.PA, c.pattern)
      BY <1>1, <1>8, <2>0, SavedIn, EditedBy DEF Is
  <2>2. c.pattern \in m.PA.application_paths
      BY <2>1, LockWith DEF AddApplicationPath, PaSection
  <2>3. ~PaVacant(m.PA)
      BY <2>2 DEF PaVacant
  <2> QED  BY <1>8, <2>3 DEF Vacant
<1>9. CASE c.prefix = "RW"
  <2>0. c.name = "accept-runtime-owner"
      BY <1>9 DEF Onboarding
  <2>1. m.RW = AcceptRuntimeOwner(l.RW, c.pattern)
      BY <1>1, <1>9, <2>0, SavedIn, EditedBy DEF Is
  <2>2. c.pattern \in m.RW.owner_paths
      BY <2>1, LockWith DEF AcceptRuntimeOwner, RwSection
  <2>3. ~RwVacant(m.RW)
      BY <2>2 DEF RwVacant
  <2> QED  BY <1>9, <2>3 DEF Vacant
<1>10. CASE c.prefix = "TA"
  <2>0. c.name = "add-test-path"
      BY <1>10 DEF Onboarding
  <2>1. m.TA = AddTestPath(l.TA, c.pattern)
      BY <1>1, <1>10, <2>0, SavedIn, EditedBy DEF Is
  <2>2. c.pattern \in m.TA.test_paths
      BY <2>1, LockWith DEF AddTestPath, TaSection
  <2>3. ~TaVacant(m.TA)
      BY <2>2 DEF TaVacant
  <2> QED  BY <1>10, <2>3 DEF Vacant
<1>11. CASE c.prefix = "UT"
  <2>0. c.name = "add-utility-path"
      BY <1>11 DEF Onboarding
  <2>1. m.UT = AddUtilityPath(l.UT, c.pattern)
      BY <1>1, <1>11, <2>0, SavedIn, EditedBy DEF Is
  <2>2. c.pattern \in m.UT.utility_paths
      BY <2>1, LockWith DEF AddUtilityPath, UtSection
  <2>3. ~UtVacant(m.UT)
      BY <2>2 DEF UtVacant
  <2> QED  BY <1>11, <2>3 DEF Vacant
<1>12. CASE c.prefix = "RM"
  <2>1. CASE c.name = "set-default"
    <3>1. m.RM = SetRmDefault(l.RM, c.max) /\ c.max \in Nat
        BY <1>1, <1>12, <2>1, SavedIn, EditedBy, CommandsOf DEF Is, TakesPattern
    <3>2. m.RM.default # Unset
        BY <3>1, LockWith DEF SetRmDefault, RmSection, Unset
    <3> QED  BY <1>12, <3>2 DEF Vacant, RmVacant
  <2>2. CASE c.name = "add-domain-path"
    <3>1. m.RM = AddRmDomainPath(l.RM, c.pattern)
        BY <1>1, <1>12, <2>2, SavedIn, EditedBy DEF Is
    <3>2. c.pattern \in m.RM.domain_paths
        BY <3>1, LockWith DEF AddRmDomainPath, RmSection
    <3> QED  BY <1>12, <3>2 DEF Vacant, RmVacant
  <2> QED  BY <1>12, <2>1, <2>2 DEF Onboarding
<1>13. CASE c.prefix = "DA"
  <2>1. m.DA = Edited(c, l.DA)
      BY <1>1, <1>13, SavedIn
  <2>2. m.DA = SetDaEnabled(l.DA, TRUE)
      BY <1>13, <2>1 DEF Edited, Is, SetDaEnabled, Onboarding
  <2>3. m.DA.enabled
      BY <2>2, LockWith DEF SetDaEnabled, DaSection
  <2> QED  BY <1>13, <2>3 DEF Vacant, DaVacant
<1>14. CASE c.prefix = "FO"
  <2>0. c.name = "define-feature"
      BY <1>14 DEF Onboarding
  <2>1. m.FO = DefineFoFeature(l.FO, c.feature, c.module)
      BY <1>1, <1>14, <2>0, SavedIn, EditedBy DEF Is
  <2>2. m.FO.features # <<>>
      BY <2>1, LockWith, FoDefines
  <2> QED  BY <1>14, <2>2 DEF Vacant, FoVacant
<1>15. CASE c.prefix = "DG"
  <2>0. c.name = "define-feature"
      BY <1>15 DEF Onboarding
  <2>1. m.DG = DG!DefineFeature(l.DG, c.feature, c.module, c.api)
      BY <1>1, <1>15, <2>0, SavedIn, EditedBy DEF Is
  <2>2. m.DG.features # <<>>
      BY <2>1, LockWith, DgDefines
  <2> QED  BY <1>15, <2>2 DEF Vacant, DgVacant, DG!EmptySection
<1> QED  BY <1>2, <1>3, <1>4, <1>5, <1>6, <1>7, <1>8, <1>9, <1>10, <1>11, <1>12, <1>13, <1>14, <1>15 DEF Onboarding

\* Domain paths and features stay, whatever command is run.
LEMMA DeclaredStays ==
    ASSUME NEW l \in Lock, NEW c, IsCommand(c)
    PROVE  /\ DomainPathsSet(l) => DomainPathsSet(Saved(l, c))
           /\ FeaturesSet(l) => FeaturesSet(Saved(l, c))
<1> DEFINE m == Saved(l, c)
<1>1. c.prefix \in Prefix
    BY SavedTyped
<1>2. /\ c.prefix # "BO" => m.BO = l.BO
      /\ c.prefix # "ER" => m.ER = l.ER
      /\ c.prefix # "FL" => m.FL = l.FL
      /\ c.prefix # "RM" => m.RM = l.RM
      /\ c.prefix # "DG" => m.DG = l.DG
      /\ c.prefix # "FO" => m.FO = l.FO
  <2>1. {"BO", "ER", "FL", "RM", "DG", "FO"} \subseteq Prefix
      BY DEF Prefix, EmptyLock
  <2> QED  BY <1>1, <2>1, SavedSection
<1>3. l.BO.domain_paths \subseteq m.BO.domain_paths
  <2>1. CASE c.prefix = "BO"
    <3>0. c.name \in {"add-domain-path", "add-forbidden-import"}
        BY <2>1, CommandsOf DEF TakesPattern
    <3>1. m.BO = Edited(c, l.BO)
        BY <1>1, <2>1, SavedIn
    <3>2. m.BO = AddBoDomainPath(l.BO, c.pattern) \/ m.BO = AddForbiddenImport(l.BO, c.pattern)
        BY <2>1, <3>0, <3>1, EditedBy DEF Is
    <3> QED  BY <3>2, LockWith DEF AddBoDomainPath, AddForbiddenImport, BoSection
  <2> QED  BY <1>2, <2>1
<1>4. l.ER.domain_paths \subseteq m.ER.domain_paths
  <2>1. CASE c.prefix = "ER"
    <3>0. c.name \in {"add-domain-path"}
        BY <2>1, CommandsOf DEF TakesPattern
    <3>1. m.ER = Edited(c, l.ER)
        BY <1>1, <2>1, SavedIn
    <3>2. m.ER = AddErDomainPath(l.ER, c.pattern)
        BY <2>1, <3>0, <3>1, EditedBy DEF Is
    <3> QED  BY <3>2, LockWith DEF AddErDomainPath, ErSection
  <2> QED  BY <1>2, <2>1
<1>5. l.FL.domain_paths \subseteq m.FL.domain_paths
  <2>1. CASE c.prefix = "FL"
    <3>0. c.name \in {"add-domain-path", "add-boundary-error"}
        BY <2>1, CommandsOf DEF TakesPattern
    <3>1. m.FL = Edited(c, l.FL)
        BY <1>1, <2>1, SavedIn
    <3>2. m.FL = AddFlDomainPath(l.FL, c.pattern) \/ m.FL = AddBoundaryError(l.FL, c.pattern)
        BY <2>1, <3>0, <3>1, EditedBy DEF Is
    <3> QED  BY <3>2, LockWith DEF AddFlDomainPath, AddBoundaryError, FlSection
  <2> QED  BY <1>2, <2>1
<1>6. l.RM.domain_paths \subseteq m.RM.domain_paths
  <2>1. CASE c.prefix = "RM"
    <3>0. c.name \in {"set-default", "add-exempt-path", "add-domain-path"}
        BY <2>1, CommandsOf DEF TakesPattern
    <3>1. m.RM = Edited(c, l.RM)
        BY <1>1, <2>1, SavedIn
    <3>2. \/ m.RM = SetRmDefault(l.RM, c.max)
          \/ m.RM = AddRmExemptPath(l.RM, c.pattern)
          \/ m.RM = AddRmDomainPath(l.RM, c.pattern)
        BY <2>1, <3>0, <3>1, EditedBy DEF Is
    <3> QED  BY <3>2, LockWith DEF SetRmDefault, AddRmExemptPath, AddRmDomainPath, RmSection
  <2> QED  BY <1>2, <2>1
<1>7. l.DG.features # <<>> => m.DG.features # <<>>
  <2>1. CASE c.prefix = "DG"
    <3>0. c.name \in {"define-feature", "forbid-edge", "add-shared-path"}
        BY <2>1, CommandsOf DEF TakesPattern
    <3>1. m.DG = Edited(c, l.DG)
        BY <1>1, <2>1, SavedIn
    <3>2. \/ m.DG = DG!DefineFeature(l.DG, c.feature, c.module, c.api)
          \/ m.DG = DG!ForbidEdge(l.DG, c.from, c.to)
          \/ m.DG = DG!AddSharedPath(l.DG, c.pattern)
        BY <2>1, <3>0, <3>1, EditedBy DEF Is
    <3>4. CASE m.DG = DG!DefineFeature(l.DG, c.feature, c.module, c.api)
        BY <3>4, LockWith, DgDefines
    <3>3. CASE m.DG = DG!ForbidEdge(l.DG, c.from, c.to) \/ m.DG = DG!AddSharedPath(l.DG, c.pattern)
        BY <3>3, LockWith DEF DG!ForbidEdge, DG!AddSharedPath, DG!DgSection
    <3> QED  BY <3>2, <3>3, <3>4
  <2> QED  BY <1>2, <2>1
<1>8. l.FO.features # <<>> => m.FO.features # <<>>
  <2>1. CASE c.prefix = "FO"
    <3>1. c.name = "define-feature"
        BY <2>1, CommandsOf DEF TakesPattern
    <3>2. m.FO = DefineFoFeature(l.FO, c.feature, c.module)
        BY <1>1, <2>1, <3>1, SavedIn, EditedBy DEF Is
    <3> QED  BY <3>2, LockWith, FoDefines
  <2> QED  BY <1>2, <2>1
<1> QED  BY <1>3, <1>4, <1>5, <1>6, <1>7, <1>8 DEF DomainPathsSet, FeaturesSet

\* A command writes the default of its own section only, and only set-default does so.
LEMMA DefaultBy ==
    ASSUME NEW l \in Lock, NEW c, IsCommand(c), <<c.prefix, c.name>> \in Onboarding,
           NEW p \in {"MO", "CX", "RM"}, Saved(l, c)[p].default # l[p].default
    PROVE  Is(c, p, "set-default") /\ Saved(l, c)[p].default = c.max
<1> DEFINE m == Saved(l, c)
<1>1. c.prefix \in Prefix /\ p \in Prefix
    BY SavedTyped DEF Prefix, EmptyLock
<1>2. c.prefix = p /\ m[p] = Edited(c, l[p])
    BY <1>1, SavedSection
<1>3. CASE p = "MO"
  <2>1. c.name = "set-default"
      BY <1>2, <1>3 DEF Onboarding
  <2>2. m["MO"] = SetMoDefault(l["MO"], c.max)
      BY <1>2, <1>3, <2>1, EditedBy DEF Is
  <2> QED  BY <1>2, <1>3, <2>1, <2>2, LockWith DEF Is, SetMoDefault, MoSection
<1>4. CASE p = "CX"
  <2>1. c.name = "set-default"
      BY <1>2, <1>4 DEF Onboarding
  <2>2. m["CX"] = SetCxDefault(l["CX"], c.max)
      BY <1>2, <1>4, <2>1, EditedBy DEF Is
  <2> QED  BY <1>2, <1>4, <2>1, <2>2, LockWith DEF Is, SetCxDefault, CxSection
<1>5. CASE p = "RM"
  <2>1. CASE c.name = "set-default"
    <3>1. m["RM"] = SetRmDefault(l["RM"], c.max)
        BY <1>2, <1>5, <2>1, EditedBy DEF Is
    <3> QED  BY <1>2, <1>5, <2>1, <3>1, LockWith DEF Is, SetRmDefault, RmSection
  <2>2. CASE c.name = "add-domain-path"
    <3>1. m["RM"] = AddRmDomainPath(l["RM"], c.pattern)
        BY <1>2, <1>5, <2>2, EditedBy DEF Is
    <3>2. m["RM"].default = l["RM"].default
        BY <3>1, LockWith DEF AddRmDomainPath, RmSection
    <3> QED  BY <1>5, <3>2
  <2> QED  BY <1>2, <1>5, <2>1, <2>2 DEF Onboarding
<1> QED  BY <1>3, <1>4, <1>5

\* A step that takes no decision of the developer's own follows the checklist, skips, or
\* stutters.
LEMMA FollowingSteps ==
    ASSUME TypeOK, [Next]_vars, UNCHANGED decisions
    PROVE  \/ /\ \E s \in Open : \E c \in s.commands :
                    /\ Run(c)
                    /\ Onboards(code, c) /\ c.prefix \in s.prefixes
           \/ /\ UNCHANGED <<code, lock, written>>
              /\ acknowledged \subseteq acknowledged'
<1>1. ~Decides
    BY DEF Decides, TypeOK
<1>2. \A s \in Open : Sensible(code, s)
    BY ChecklistSensible DEF TypeOK, Open
<1>3. CASE Follow
  <2>1. PICK s \in Open : \E c \in s.commands : Run(c)
      BY <1>3 DEF Follow
  <2> QED  BY <1>2, <2>1 DEF Sensible
<1>4. CASE Skip
    BY <1>4 DEF Skip
<1>5. CASE UNCHANGED vars
    BY <1>5 DEF vars
<1> QED  BY <1>1, <1>3, <1>4, <1>5 DEF Next, Declare, Acknowledge, ChangeCode

\* The checklist shrinks as it is followed: the command settles its own paradigm and opens
\* no other one, whatever the lockfile held at first.
THEOREM FollowingOpensNothing == Spec => FollowingShrinks
<1> DEFINE Shrinks ==
        /\ OpenPrefixes' \subseteq OpenPrefixes
        /\ \A p \in Paradigms : lock'[p] # lock[p] => p \notin Nudged(lock, acknowledged)'
<1>1. ASSUME TypeOK, [Next]_vars, UNCHANGED decisions
      PROVE  Shrinks
  <2>1. CASE \E s \in Open : \E c \in s.commands :
                    /\ Run(c)
                    /\ Onboards(code, c) /\ c.prefix \in s.prefixes
    <3>s. PICK s \in Open : \E c \in s.commands :
                    /\ Run(c)
                    /\ Onboards(code, c) /\ c.prefix \in s.prefixes
        BY <2>1
    <3>1. PICK c \in s.commands : /\ Run(c)
                                  /\ Onboards(code, c) /\ c.prefix \in s.prefixes
        BY <3>s
    <3>2. /\ lock \in Lock /\ IsCommand(c) /\ <<c.prefix, c.name>> \in Onboarding
          /\ lock' = Saved(lock, c) /\ written' = written \cup {c.prefix}
          /\ code' = code /\ acknowledged' = acknowledged
        BY <1>1, <3>1 DEF TypeOK, Onboards, Run, Saved
    <3>3. c.prefix \in Prefix /\ \A p \in Prefix \ {c.prefix} : lock'[p] = lock[p]
        BY <3>2, SavedTyped, SavedSection
    <3>4. (DomainPathsSet(lock) => DomainPathsSet(lock')) /\ (FeaturesSet(lock) => FeaturesSet(lock'))
        BY <3>2, DeclaredStays
    <3>5. UNION {t.prefixes : t \in Checklist(code, lock', written', acknowledged')}
                \subseteq (UNION {t.prefixes : t \in Checklist(code, lock, written, acknowledged)}) \cup {c.prefix}
      <4> DEFINE Q == {c.prefix}
      <4>1. /\ written \subseteq written' /\ acknowledged \subseteq acknowledged'
            /\ \A p \in Prefix \ Q : lock'[p] = lock[p]
          BY <3>2, <3>3
      <4> HIDE DEF Q
      <4>2. UNION {t.prefixes : t \in Checklist(code, lock', written', acknowledged')}
                \subseteq (UNION {t.prefixes : t \in Checklist(code, lock, written, acknowledged)}) \cup Q
          BY <3>4, <4>1, OpenShrinks
      <4> QED  BY <4>2 DEF Q
    <3>6. OpenPrefixes' \subseteq OpenPrefixes \cup {c.prefix}
        BY <3>2, <3>5 DEF OpenPrefixes, Open
    <3>7. c.prefix \in OpenPrefixes
        BY <3>s, <3>1 DEF OpenPrefixes
    <3>8. c.prefix \notin Nudged(lock, acknowledged)'
        BY <3>2, OnboardingDeclares DEF Nudged
    <3> QED  BY <3>3, <3>6, <3>7, <3>8, ParadigmsAssumption
  <2>2. CASE UNCHANGED <<code, lock, written>> /\ acknowledged \subseteq acknowledged'
    <3>1. UNION {t.prefixes : t \in Checklist(code, lock, written, acknowledged')}
                \subseteq (UNION {t.prefixes : t \in Checklist(code, lock, written, acknowledged)}) \cup {}
        BY <2>2, OpenShrinks
    <3>2. OpenPrefixes' \subseteq OpenPrefixes
        BY <2>2, <3>1 DEF OpenPrefixes, Open
    <3> QED  BY <2>2, <3>2
  <2> QED  BY <1>1, <2>1, <2>2, FollowingSteps
<1>2. TypeOK /\ [Next]_vars => [UNCHANGED decisions => Shrinks]_vars
    BY <1>1
<1> QED  BY <1>2, TypeCorrect, PTL DEF Spec, FollowingShrinks

\* A cap that the checklist suggests fits what a scan counts, for every number of files and
\* functions: 5% exceed it at most.
THEOREM CapsFit == Spec => CapFitsMost
<1>1. ASSUME TypeOK, [Next]_vars, UNCHANGED decisions, NEW p \in {"MO", "CX", "RM"},
             lock'[p].default # lock[p].default
      PROVE  Covers(Counted(p), lock'[p].default)
  <2>s. PICK s \in Open : \E c \in s.commands :
                /\ Run(c)
                /\ Onboards(code, c) /\ c.prefix \in s.prefixes
      BY <1>1, FollowingSteps
  <2>1. PICK c \in s.commands : /\ Run(c)
                                /\ Onboards(code, c) /\ c.prefix \in s.prefixes
      BY <2>s
  <2>2. lock \in Lock /\ IsCommand(c) /\ <<c.prefix, c.name>> \in Onboarding /\ lock' = Saved(lock, c)
      BY <1>1, <2>1 DEF TypeOK, Onboards, Run, Saved
  <2>3. Is(c, p, "set-default") /\ lock'[p].default = c.max
      BY <1>1, <2>2, DefaultBy
  <2> QED  BY <2>1, <2>3 DEF Onboards, Counted
<1>2. ASSUME NEW f, NEW v
      PROVE  Covers(f, v) <=> 20 * Cardinality({x \in DOMAIN f : f[x] > v}) <= Cardinality(DOMAIN f)
    BY DEF Covers, Over
<1>3. TypeOK /\ [Next]_vars =>
        [\A p \in {"MO", "CX", "RM"} :
            UNCHANGED decisions /\ lock'[p].default # lock[p].default =>
                LET counted == Counted(p)
                IN  20 * Cardinality({x \in DOMAIN counted : counted[x] > lock'[p].default})
                        <= Cardinality(DOMAIN counted)]_vars
    BY <1>1, <1>2
<1> QED  BY <1>3, TypeCorrect, PTL DEF Spec, CapFitsMost
=============================================================================
