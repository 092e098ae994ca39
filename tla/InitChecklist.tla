----------------------------- MODULE InitChecklist -----------------------------
(***************************************************************************)
(* The checklist that `locus init` prints: which paradigms are open for a  *)
(* workspace and a lockfile, and the commands that settle each of them.    *)
(*                                                                         *)
(* Placeholders in a command, such as <glob>, stand for what the developer *)
(* puts there.  Suggestions for OT are left out: the workspaces have no    *)
(* concept clusters.                                                       *)
(***************************************************************************)
EXTENDS ParadigmSections

CONSTANTS
    Paradigms,    \* the paradigms whose suggestions are looked at
    Commands      \* the commands a developer may think of

ASSUME ParadigmsAssumption == Paradigms \subseteq Prefix
ASSUME CommandsAssumption == \A c \in Commands : IsCommand(c)

\* The commands that onboard, and the prefixes that `locus init --acknowledge-empty`
\* may skip instead.  A suggestion has one or the other, some have both.
Suggestion(prefixes, commands, skip) ==
    [prefixes |-> prefixes \cap Paradigms,
     commands |-> {c \in commands : c.prefix \in Paradigms},
     skip     |-> skip \cap Paradigms]

ModulesIn(ws) == {ws.files[f].module : f \in DOMAIN ws.files} \ {NoModule}

\* "x::domain::*" for every module with such a segment, up to where it first stands.
Layer(ws, segments) ==
    UNION {{SubSeq(m, 1, i) \o <<Wild>> : i \in
                {i \in DOMAIN m : m[i] \in segments /\ \A j \in 1..(i - 1) : m[j] # m[i]}} :
           m \in ModulesIn(ws)}

Domain(ws)      == Layer(ws, {"domain", "core", "model", "models"})
Composition(ws) == Layer(ws, {"composition", "wiring", "bin", "main"})
Tests(ws)       == Layer(ws, {"tests", "test_support", "fixtures"})
Utilities(ws)   == Layer(ws, {"util", "utils", "common", "helpers"})
Config(ws)      == Layer(ws, {"config", "settings"})

\* The packages, or the modules below the root of the only one.
TopLevelModules(ws) ==
    IF Cardinality(ws.packages) > 1 THEN ws.packages
    ELSE {m[2] : m \in {m \in ModulesIn(ws) : Len(m) >= 2}}

-----------------------------------------------------------------------------
(* What all paradigms ask, acknowledged or not *)

DomainPathsSet(lock) ==
    {} # lock.BO.domain_paths \cup lock.ER.domain_paths \cup lock.FL.domain_paths \cup lock.RM.domain_paths

FeaturesSet(lock) == lock.DG.features # <<>> \/ lock.FO.features # <<>>

DomainLayer(ws, lock) ==
    IF Domain(ws) = {} \/ DomainPathsSet(lock) THEN {}
    ELSE LET prefixes == {"BO", "ER", "FL", "RM"}
         IN  {Suggestion(prefixes,
                         {Adds(p, "add-domain-path", glob) : p \in prefixes, glob \in Domain(ws)},
                         prefixes)}

FeaturePartition(ws, lock) ==
    IF TopLevelModules(ws) = {} \/ FeaturesSet(lock) THEN {}
    ELSE {Suggestion({"DG", "FO"},
                     {DefinesFeature("DG", m, <<m, Wild>>, <<<<m, Wild>>>>, FALSE) : m \in TopLevelModules(ws)},
                     {"DG", "FO"})}

CrossParadigm(ws, lock) == DomainLayer(ws, lock) \cup FeaturePartition(ws, lock)

-----------------------------------------------------------------------------
(* What a paradigm asks on its own *)

\* A slip of P95: the rank is rounded down.
MutP95(f) ==
    LET rank == (95 * Cardinality(DOMAIN f)) \div 100
        fits == {v \in {f[x] : x \in DOMAIN f} : Cardinality({x \in DOMAIN f : f[x] <= v}) >= rank}
    IN  CHOOSE v \in fits : \A w \in fits : v <= w

\* The 95th percentile of the values of a function that is not empty: the least
\* value that 95% of the arguments do not exceed.
P95(f) ==
    LET rank == (95 * Cardinality(DOMAIN f) + 99) \div 100
        fits == {v \in {f[x] : x \in DOMAIN f} : Cardinality({x \in DOMAIN f : f[x] <= v}) >= rank}
    IN  CHOOSE v \in fits : \A w \in fits : v <= w

\* A tenth more, rounded up.
Raised(v) == (11 * v + 9) \div 10

Cap(prefix, f) == {Suggestion({prefix}, {SetsDefault(prefix, Raised(P95(f)))}, {})}

TypesPerFile(ws) == [f \in DOMAIN ws.files |-> Cardinality(PublicTypes(ws, f))]
KindsPerFunction(ws) ==
    [g \in ActingFunctions(ws) |-> Cardinality({a.action : a \in ActionsOf(ws, g, ActionKind)})]
\* The suggestion measures the span of a function, CX001 reads its line_count: the
\* adapter, the only one to build functions, derives the one from the other
\* (visitor.rs:226).
LinesPerFunction(ws) == [g \in ws.functions |-> g.lines]
ConstructsPerFunction(ws) ==
    [g \in {a.function : a \in Constructs(ws)} \ {NoFunction} |-> Cardinality(ActionsOf(ws, g, {"construct"}))]

\* A slip of Capped: only an acknowledgement ends the questions.
MutCapped(lock, acknowledged, prefix) == prefix \in acknowledged

\* A cap that is set, or a paradigm that is acknowledged, is asked about no more.
Capped(lock, acknowledged, prefix) == lock[prefix].default # Unset \/ prefix \in acknowledged

SuggestMo(ws, lock, acknowledged) ==
    IF Capped(lock, acknowledged, "MO") \/ DOMAIN TypesPerFile(ws) = {} THEN {}
    ELSE IF 2 * P95(TypesPerFile(ws)) > 3 * 5 THEN Cap("MO", TypesPerFile(ws)) ELSE {}

SuggestCx(ws, lock, acknowledged) ==
    IF Capped(lock, acknowledged, "CX") \/ ws.functions = {} THEN {}
    ELSE LET p95 == P95(LinesPerFunction(ws))
         IN  IF 2 * p95 > 3 * 50 \/ 3 * p95 < 2 * 50 THEN Cap("CX", LinesPerFunction(ws)) ELSE {}

SuggestRm(ws, lock, acknowledged) ==
    IF Capped(lock, acknowledged, "RM") \/ ActingFunctions(ws) = {} THEN {}
    ELSE IF P95(KindsPerFunction(ws)) > 3 THEN Cap("RM", KindsPerFunction(ws)) ELSE {}

\* A layer whose paradigm has none declared.
SuggestLayer(prefix, name, globs, declared, acknowledged) ==
    IF declared # {} \/ prefix \in acknowledged \/ globs = {} THEN {}
    ELSE {Suggestion({prefix}, {Adds(prefix, name, glob) : glob \in globs}, {prefix})}

\* The command that this suggests, cr set-wiring-density-threshold, is none of locus.
SuggestDensity(ws, lock, acknowledged) ==
    IF "CR" \in acknowledged \/ DOMAIN ConstructsPerFunction(ws) = {} THEN {}
    ELSE IF 2 * P95(ConstructsPerFunction(ws)) > 3 * lock.CR.density
         THEN {Suggestion({"CR"}, {}, {})} ELSE {}

\* A feature many imports reach into: the two options of DependencySection.
SuggestDg(ws, lock) ==
    {LET i == CHOOSE i \in DG!Named(lock.DG, name) : \A j \in DG!Named(lock.DG, name) : i <= j
         module == lock.DG.features[i].module
     IN  Suggestion({"DG"}, {DefinesFeature("DG", name, module, <<api>>, TRUE) :
                                api \in {DG!ApiSeed(module), module}}, {}) :
     name \in DG!Suggested(lock.DG, ImportsOf(ws))}

Specific(ws, lock, acknowledged) ==
    CrossParadigm(ws, lock)
        \cup SuggestMo(ws, lock, acknowledged) \cup SuggestCx(ws, lock, acknowledged)
        \cup SuggestRm(ws, lock, acknowledged) \cup SuggestDg(ws, lock)
        \cup SuggestLayer("CR", "add-composition-root", Composition(ws), lock.CR.roots, acknowledged)
        \cup SuggestDensity(ws, lock, acknowledged)
        \cup SuggestLayer("TA", "add-test-path", Tests(ws), lock.TA.test_paths, acknowledged)
        \cup SuggestLayer("UT", "add-utility-path", Utilities(ws), lock.UT.utility_paths, acknowledged)
        \cup SuggestLayer("CF", "add-config-path", Config(ws), lock.CF.config_paths, acknowledged)

-----------------------------------------------------------------------------
(* What is left: a seed for every paradigm without a section *)

SeedName == [AB |-> "accept-single-impl", BO |-> "add-domain-path", CF |-> "add-config-path",
             CR |-> "add-composition-root", DA |-> "enable", DC |-> "enable", DG |-> "define-feature",
             ER |-> "add-domain-path", FL |-> "add-domain-path", FO |-> "define-feature",
             OB |-> "add-observer-path", PA |-> "add-application-path", RM |-> "add-domain-path",
             RW |-> "accept-runtime-owner", TA |-> "add-test-path", UT |-> "add-utility-path"]

VacancySeeds(written, acknowledged, specific) ==
    {Suggestion({p}, {c \in Commands : Is(c, p, SeedName[p])}, {p}) : p \in
        (DOMAIN SeedName \cap Paradigms) \ (written \cup acknowledged \cup UNION {s.prefixes : s \in specific})}

\* A slip of Checklist: the seeds wait until nothing else is left.
MutChecklist(ws, lock, written, acknowledged) ==
    LET specific == Specific(ws, lock, acknowledged)
    IN  IF specific = {} THEN VacancySeeds(written, acknowledged, specific) ELSE specific

\* `written` are the sections in the file: a command writes all of a section, and a
\* whole one is not empty to section_is_empty.
Checklist(ws, lock, written, acknowledged) ==
    LET specific == Specific(ws, lock, acknowledged)
    IN  specific \cup VacancySeeds(written, acknowledged, specific)
=============================================================================
