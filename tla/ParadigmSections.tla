--------------------------- MODULE ParadigmSections ---------------------------
(***************************************************************************)
(* The sections of all the paradigms a developer declares in, the commands *)
(* that do it, the findings of their rules, and the nudge (LOCUS002) for a *)
(* paradigm in which nothing is declared.  OT and DG002 have modules of    *)
(* their own, OneTruthRules and CrateCycles.                               *)
(***************************************************************************)
EXTENDS OwnershipRules, DesignRules, RuntimeRules, FailureRules

CONSTANT FeatureName      \* names given to features

ASSUME FeatureNameAssumption == FeatureName \subseteq Text

DG == INSTANCE DependencySection
        WITH Segment <- Text, Pattern <- Chunks, Name <- FeatureName, Module <- Chunks, Path <- Chunks

Lock == [MO : MoSection, CX : CxSection, BO : BoSection, PA : PaSection, FO : FoSection,
         CR : CrSection, CL : ClSection, RM : RmSection, UT : UtSection, AB : AbSection,
         DA : DaSection, TA : TaSection, DC : DcSection, CF : CfSection, OB : ObSection,
         RW : RwSection, ER : ErSection, FL : FlSection, DG : DG!DgSection]

EmptyLock == [MO |-> EmptyMo, CX |-> EmptyCx, BO |-> EmptyBo, PA |-> EmptyPa, FO |-> EmptyFo,
              CR |-> EmptyCr, CL |-> EmptyCl, RM |-> EmptyRm, UT |-> EmptyUt, AB |-> EmptyAb,
              DA |-> EmptyDa, TA |-> EmptyTa, DC |-> EmptyDc, CF |-> EmptyCf, OB |-> EmptyOb,
              RW |-> EmptyRw, ER |-> EmptyEr, FL |-> EmptyFl, DG |-> DG!EmptySection]

Prefix == DOMAIN EmptyLock

-----------------------------------------------------------------------------
(* The commands: `locus <prefix> <name> ...` *)

\* Commands of one pattern, of none, of a number, and the others.
Adds(prefix, name, pattern) == [prefix |-> prefix, name |-> name, pattern |-> pattern]
Turns(prefix, name)         == [prefix |-> prefix, name |-> name]
SetsDefault(prefix, max)    == [prefix |-> prefix, name |-> "set-default", max |-> max]
Overrides(prefix, module, max, force) ==
    [prefix |-> prefix, name |-> "add-override", module |-> module, max |-> max, force |-> force]
DefinesFeature(prefix, feature, module, api, force) ==
    [prefix |-> prefix, name |-> "define-feature", feature |-> feature, module |-> module,
     api |-> api, force |-> force]
ForbidsEdge(from, to) == [prefix |-> "DG", name |-> "forbid-edge", from |-> from, to |-> to]

\* The commands that add a pattern to a list.
TakesPattern ==
    {<<"BO", "add-domain-path">>, <<"BO", "add-forbidden-import">>, <<"PA", "accept-colocated">>,
     <<"PA", "add-application-path">>, <<"CR", "add-composition-root">>, <<"RM", "add-exempt-path">>,
     <<"RM", "add-domain-path">>, <<"UT", "add-utility-path">>, <<"AB", "accept-single-impl">>,
     <<"DA", "accept-single-impl">>, <<"TA", "add-test-path">>, <<"DC", "add-exempt-path">>,
     <<"CF", "add-config-path">>, <<"OB", "add-observer-path">>, <<"OB", "add-forbidden-log-target">>,
     <<"RW", "accept-runtime-owner">>, <<"ER", "add-domain-path">>, <<"FL", "add-domain-path">>,
     <<"FL", "add-boundary-error">>, <<"DG", "add-shared-path">>}

\* A budget is a u32.
IsCommand(c) ==
    \/ /\ c \in [prefix : Prefix, name : {names[2] : names \in TakesPattern}, pattern : Chunks]
       /\ <<c.prefix, c.name>> \in TakesPattern
    \/ c \in [prefix : {"DA", "DC"}, name : {"enable", "disable"}]
    \/ c \in [prefix : {"MO", "CX", "RM"}, name : {"set-default"}, max : Nat]
    \/ c \in [prefix : {"MO", "CX"}, name : {"add-override"}, module : Chunks, max : Nat, force : BOOLEAN]
    \/ c \in [prefix : {"DG", "FO"}, name : {"define-feature"}, feature : FeatureName, module : Chunks,
              api : Seq(Chunks), force : BOOLEAN]
    \/ c \in [prefix : {"DG"}, name : {"forbid-edge"}, from : Chunks, to : Chunks]

Is(c, prefix, name) == c.prefix = prefix /\ c.name = name

\* What a command refuses.
Accepts(c, section) ==
    /\ c.name = "add-override" => CanOverride(section, c.module, c.force)
    /\ Is(c, "FO", "define-feature") => CanDefineFoFeature(section, c.feature, c.module, c.force)
    /\ Is(c, "DG", "define-feature") => DG!CanDefineFeature(section, c.feature, c.module, c.force)
    /\ Is(c, "DG", "forbid-edge") => DG!CanForbidEdge(section, c.from, c.to, FALSE)
    /\ <<c.prefix, c.name>> \in TakesPattern => CanAdd(c.pattern)

\* The section a command writes back.
Edited(c, section) ==
    CASE Is(c, "MO", "set-default") -> SetMoDefault(section, c.max)
      [] Is(c, "MO", "add-override") -> AddMoOverride(section, c.module, c.max)
      [] Is(c, "CX", "set-default") -> SetCxDefault(section, c.max)
      [] Is(c, "CX", "add-override") -> AddCxOverride(section, c.module, c.max)
      [] Is(c, "BO", "add-domain-path") -> AddBoDomainPath(section, c.pattern)
      [] Is(c, "BO", "add-forbidden-import") -> AddForbiddenImport(section, c.pattern)
      [] Is(c, "PA", "accept-colocated") -> AcceptColocated(section, c.pattern)
      [] Is(c, "PA", "add-application-path") -> AddApplicationPath(section, c.pattern)
      [] Is(c, "FO", "define-feature") -> DefineFoFeature(section, c.feature, c.module)
      [] Is(c, "CR", "add-composition-root") -> AddCompositionRoot(section, c.pattern)
      [] Is(c, "RM", "set-default") -> SetRmDefault(section, c.max)
      [] Is(c, "RM", "add-exempt-path") -> AddRmExemptPath(section, c.pattern)
      [] Is(c, "RM", "add-domain-path") -> AddRmDomainPath(section, c.pattern)
      [] Is(c, "UT", "add-utility-path") -> AddUtilityPath(section, c.pattern)
      [] Is(c, "AB", "accept-single-impl") -> AcceptAbSingleImpl(section, c.pattern)
      [] Is(c, "DA", "enable") -> SetDaEnabled(section, TRUE)
      [] Is(c, "DA", "disable") -> SetDaEnabled(section, FALSE)
      [] Is(c, "DA", "accept-single-impl") -> AcceptDaSingleImpl(section, c.pattern)
      [] Is(c, "TA", "add-test-path") -> AddTestPath(section, c.pattern)
      [] Is(c, "DC", "enable") -> SetRequirePublicDocs(section, TRUE)
      [] Is(c, "DC", "disable") -> SetRequirePublicDocs(section, FALSE)
      [] Is(c, "DC", "add-exempt-path") -> AddDcExemptPath(section, c.pattern)
      [] Is(c, "CF", "add-config-path") -> AddConfigPath(section, c.pattern)
      [] Is(c, "OB", "add-observer-path") -> AddObserverPath(section, c.pattern)
      [] Is(c, "OB", "add-forbidden-log-target") -> AddForbiddenLogTarget(section, c.pattern)
      [] Is(c, "RW", "accept-runtime-owner") -> AcceptRuntimeOwner(section, c.pattern)
      [] Is(c, "ER", "add-domain-path") -> AddErDomainPath(section, c.pattern)
      [] Is(c, "FL", "add-domain-path") -> AddFlDomainPath(section, c.pattern)
      [] Is(c, "FL", "add-boundary-error") -> AddBoundaryError(section, c.pattern)
      [] Is(c, "DG", "forbid-edge") -> DG!ForbidEdge(section, c.from, c.to)
      [] Is(c, "DG", "define-feature") -> DG!DefineFeature(section, c.feature, c.module, c.api)
      [] Is(c, "DG", "add-shared-path") -> DG!AddSharedPath(section, c.pattern)

-----------------------------------------------------------------------------
(* The findings, and the nudge *)

\* The imports DG looks at, one for every item.
ImportsOf(ws) ==
    {[module |-> ModuleOf(ws, i), path |-> i.path, at |-> i.at] : i \in {x \in ws.imports : HasModule(ws, x)}}

DgFindings(ws, lock) ==
    LET found == DG!Findings(lock.DG, ImportsOf(ws))
    IN  UNION {Found(rule, found[rule]) : rule \in DOMAIN found}

FindingsOf(ws, lock, prefix) ==
    CASE prefix = "MO" -> MoFindings(ws, lock) [] prefix = "CX" -> CxFindings(ws, lock)
      [] prefix = "BO" -> BoFindings(ws, lock) [] prefix = "PA" -> PaFindings(ws, lock)
      [] prefix = "FO" -> FoFindings(ws, lock) [] prefix = "CR" -> CrFindings(ws, lock)
      [] prefix = "CL" -> ClFindings(ws, lock) [] prefix = "RM" -> RmFindings(ws, lock)
      [] prefix = "UT" -> UtFindings(ws, lock) [] prefix = "AB" -> AbFindings(ws, lock)
      [] prefix = "DA" -> DaFindings(ws, lock) [] prefix = "TA" -> TaFindings(ws, lock)
      [] prefix = "DC" -> DcFindings(ws, lock) [] prefix = "CF" -> CfFindings(ws, lock)
      [] prefix = "OB" -> ObFindings(ws, lock) [] prefix = "RW" -> RwFindings(ws, lock)
      [] prefix = "ER" -> ErFindings(ws, lock) [] prefix = "FL" -> FlFindings(ws, lock)
      [] prefix = "DG" -> DgFindings(ws, lock)

DgVacant(dg) == dg = DG!EmptySection

\* The paradigms that nudge, and in which nothing is declared.
Vacant(lock) ==
    {p \in {"BO", "PA", "FO", "CR", "RM", "UT", "DA", "TA", "CF", "RW", "ER", "FL", "DG"} :
        CASE p = "BO" -> BoVacant(lock.BO) [] p = "PA" -> PaVacant(lock.PA)
          [] p = "FO" -> FoVacant(lock.FO) [] p = "CR" -> CrVacant(lock.CR)
          [] p = "RM" -> RmVacant(lock.RM) [] p = "UT" -> UtVacant(lock.UT)
          [] p = "DA" -> DaVacant(lock.DA) [] p = "TA" -> TaVacant(lock.TA)
          [] p = "CF" -> CfVacant(lock.CF) [] p = "RW" -> RwVacant(lock.RW)
          [] p = "ER" -> ErVacant(lock.ER) [] p = "FL" -> FlVacant(lock.FL)
          [] p = "DG" -> DgVacant(lock.DG)}

\* LOCUS002
Nudged(lock, acknowledged) == Vacant(lock) \ acknowledged
=============================================================================
