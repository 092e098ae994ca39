------------------------------ MODULE DesignRules ------------------------------
(***************************************************************************)
(* The paradigms about the shape of a design: responsibilities mixed in a  *)
(* function (RM), utility modules (UT), abstractions (AB and, on demand,   *)
(* DA), test code (TA) and documentation (DC).  For each: its section of   *)
(* the lockfile, its rules, and the commands that declare in it.           *)
(***************************************************************************)
EXTENDS Air

CONSTANTS
    Capitalised,    \* the segments that begin with an upper-case letter
    Rank(_)         \* the place of a symbol in the order of their texts

-----------------------------------------------------------------------------
(* RM: how many kinds of work a function does *)

RmSection == [default : Nat \cup {Unset}, exempt_paths : SUBSET Chunks,
              converter_paths : SUBSET Chunks, handler_paths : SUBSET Chunks,
              max_handler : Nat \cup {Unset}, repository_paths : SUBSET Chunks,
              max_repository : Nat \cup {Unset}, validator_paths : SUBSET Chunks,
              domain_paths : SUBSET Chunks]
EmptyRm == [default |-> Unset, exempt_paths |-> {}, converter_paths |-> {}, handler_paths |-> {},
            max_handler |-> Unset, repository_paths |-> {}, max_repository |-> Unset,
            validator_paths |-> {}, domain_paths |-> {}]
RmVacant(rm) == /\ rm.default = Unset
                /\ {} = rm.converter_paths \cup rm.handler_paths \cup rm.repository_paths
                            \cup rm.validator_paths \cup rm.domain_paths

\* The functions named by truth actions; they need not be declared in a file.
ActingFunctions(ws) == {a.function : a \in ws.actions} \ {NoFunction}
ActionsOf(ws, function, kinds) ==
    {a \in ws.actions : a.function = function /\ a.action \in kinds}

\* The file of a function, or of its first action.
AnchorFile(ws, function) ==
    LET declared == {f \in ws.functions : f.symbol = function}
    IN  IF declared # {} THEN FirstOf(declared).file
        ELSE FirstOf(ActionsOf(ws, function, ActionKind)).file

RM001(ws, rm) ==
    IF rm.default = Unset THEN {}
    ELSE {<<"RM001", g>> : g \in {g \in ActingFunctions(ws) :
            /\ Cardinality({a.action : a \in ActionsOf(ws, g, ActionKind)}) > rm.default
            /\ LET module == ws.files[AnchorFile(ws, g)].module
               IN  ~(module # NoModule /\ In(rm.exempt_paths, module))}}

RM002(ws, rm) ==
    Found("RM002", {fact \in FactsAbout(ws, {"spawned_work", "logging", "config_read"}) :
                        In(rm.converter_paths, HomeOf(ws, fact.symbol))})

\* RM003 and RM004: more decisions in a declared function than the cap allows.
Density(ws, rule, paths, cap) ==
    {<<rule, g>> : g \in {g \in ActingFunctions(ws) :
        /\ Cardinality(ActionsOf(ws, g, {"string_compare", "discriminated_match"})) > cap
        /\ HomeOf(ws, g) # NoModule
        /\ In(paths, HomeOf(ws, g))}}

RM003(ws, rm) == Density(ws, "RM003", rm.handler_paths, Or(rm.max_handler, 3))
RM004(ws, rm) == Density(ws, "RM004", rm.repository_paths, Or(rm.max_repository, 3))

RM005(ws, rm) ==
    Found("RM005", {fact \in FactsAbout(ws, {"external_io", "persistence_write"}) :
                        FactIn(ws, fact, rm.validator_paths)})

\* A segment between the first and the last names a type.
LooksLikeMethod(symbol) == \E i \in 2..(Len(symbol) - 1) : symbol[i] \in Capitalised

RM006(ws, rm) ==
    Found("RM006", {fact \in FactsAbout(ws, {"persistence_write"}) :
                        LooksLikeMethod(fact.symbol) /\ FactIn(ws, fact, rm.domain_paths)})

RmFindings(ws, lock) == RM001(ws, lock.RM) \cup RM002(ws, lock.RM) \cup RM003(ws, lock.RM)
                            \cup RM004(ws, lock.RM) \cup RM005(ws, lock.RM) \cup RM006(ws, lock.RM)

SetRmDefault(rm, max) == [rm EXCEPT !.default = max]
AddRmExemptPath(rm, pattern) == [rm EXCEPT !.exempt_paths = @ \cup {pattern}]
AddRmDomainPath(rm, pattern) == [rm EXCEPT !.domain_paths = @ \cup {pattern}]

-----------------------------------------------------------------------------
(* UT: utility modules own no concepts *)

UtSection == [utility_paths : SUBSET Chunks, forbidden_imports : SUBSET Chunks,
              generic_patterns : SUBSET Chunks, accepted_paths : SUBSET Chunks,
              canonical_constructs : SUBSET Chunks]
EmptyUt == [utility_paths |-> {}, forbidden_imports |-> {}, generic_patterns |-> {},
            accepted_paths |-> {}, canonical_constructs |-> {}]
UtVacant(ut) == ut.utility_paths = {} /\ ut.generic_patterns = {}

InUtility(ws, ut, item) == HasModule(ws, item) /\ In(ut.utility_paths, ModuleOf(ws, item))

UT001(ws, ut) ==
    Found("UT001", {t \in ws.types : InUtility(ws, ut, t) /\ t.visibility = "public"})

UT002(ws, ut) ==
    Found("UT002", {i \in ws.imports : InUtility(ws, ut, i) /\ In(ut.forbidden_imports, i.path)})

UT003(ws, ut) ==
    {<<"UT003", f>> : f \in {f \in DOMAIN ws.files :
        /\ ws.files[f].module # NoModule
        /\ In(ut.generic_patterns, ws.files[f].module)
        /\ ~In(ut.accepted_paths, ws.files[f].module)}}

\* A declared canonical concept is UT004's, other policy is UT005's.
UT004(ws, ut) ==
    Found("UT004", {a \in ws.actions : /\ InUtility(ws, ut, a)
                                       /\ In(ut.canonical_constructs, a.target)
                                       /\ a.action \in {"validate", "normalize", "construct"}})

UT005(ws, ut) ==
    Found("UT005", {a \in ws.actions : /\ InUtility(ws, ut, a)
                                       /\ a.action \in {"validate", "normalize"}
                                       /\ ~In(ut.canonical_constructs, a.target)})

UtFindings(ws, lock) == UT001(ws, lock.UT) \cup UT002(ws, lock.UT) \cup UT003(ws, lock.UT)
                            \cup UT004(ws, lock.UT) \cup UT005(ws, lock.UT)

AddUtilityPath(ut, pattern) == [ut EXCEPT !.utility_paths = @ \cup {pattern}]

-----------------------------------------------------------------------------
(* AB and DA: traits with one implementation, and names that promise too much *)

AbSection == [accepted_single_impl : SUBSET Chunks, suspect_names : SUBSET Chunks,
              accepted_names : SUBSET Chunks]
EmptyAb == [accepted_single_impl |-> {},
            suspect_names |-> {<<Wild, name>> : name \in
                {"Manager", "Service", "Processor", "Coordinator", "Orchestrator", "Engine",
                 "Handler", "Helper", "Util"}},
            accepted_names |-> {}]

Traits(ws) == {t \in ws.types : t.kind = "trait"}
Impls(ws) == {i \in ws.impls : i.interface # NoInterface}
ShortName(path) == <<LastSegment(path)>>

\* An impl that writes out a trait's symbol counts for that trait, another one by
\* its short name, unless several traits have it.
BySymbol(ws, symbol) == {i \in Impls(ws) : i.interface = symbol}
ByShort(ws, name) ==
    {i \in Impls(ws) : /\ \A t \in Traits(ws) : t.symbol # i.interface
                       /\ ShortName(i.interface) = name}
Ambiguous(ws, name) == Cardinality({t \in Traits(ws) : t.name = name}) > 1

\* A trait found under its symbol is not looked up by its short name any more.
AbCount(ws, t) ==
    IF BySymbol(ws, t.symbol) # {} \/ Ambiguous(ws, t.name)
    THEN Cardinality(BySymbol(ws, t.symbol))
    ELSE Cardinality(ByShort(ws, t.name))

Accepted(patterns, t) == InByPrefix(patterns, t.symbol) \/ InByPrefix(patterns, t.name)

AB001(ws, ab) ==
    Found("AB001", {t \in Traits(ws) : AbCount(ws, t) = 1 /\ ~Accepted(ab.accepted_single_impl, t)})

\* A wildcard in front only.
SuffixMatches(pattern, name) ==
    \/ pattern = <<Wild>>
    \/ pattern = name
    \/ LeadingWild(pattern) /\ Matches(pattern, name)

AB002(ws, ab) ==
    Found("AB002", {t \in ws.types :
        /\ t.kind \in {"trait", "struct"}
        /\ \E pattern \in ab.suspect_names : SuffixMatches(pattern, t.name)
        /\ ~Accepted(ab.accepted_single_impl \cup ab.accepted_names, t)})

AbFindings(ws, lock) == AB001(ws, lock.AB) \cup AB002(ws, lock.AB)

AcceptAbSingleImpl(ab, pattern) == [ab EXCEPT !.accepted_single_impl = @ \cup {pattern}]

DaSection == [enabled : BOOLEAN, accepted_single_impl : SUBSET Chunks,
              factory_names : SUBSET Chunks, strategy_names : SUBSET Chunks]
EmptyDa == [enabled |-> FALSE, accepted_single_impl |-> {},
            factory_names |-> {<<"create", Wild>>, <<"make", Wild>>, <<Wild, "factory">>, <<"build", Wild>>},
            strategy_names |-> {<<Wild, name>> : name \in {"Strategy", "Mode", "Policy"}}]
DaVacant(da) == ~da.enabled

\* An impl counts for the first trait, in the order of symbols, that has its path
\* or its short name.
Charged(ws, i) ==
    LET resolved == {t \in Traits(ws) : i.interface = t.symbol \/ ShortName(i.interface) = t.name}
    IN  {t \in resolved : \A u \in resolved : Rank(t.symbol) <= Rank(u.symbol)}

DA001(ws, da) ==
    IF ~da.enabled THEN {}
    ELSE Found("DA001", {t \in Traits(ws) :
            /\ Cardinality({i \in Impls(ws) : t \in Charged(ws, i)}) = 1
            /\ ~Accepted(da.accepted_single_impl, t)})

DA002(ws, da) ==
    IF ~da.enabled THEN {}
    ELSE Found("DA002", {g \in ws.functions :
            /\ In(da.factory_names, g.name)
            /\ Cardinality(ActionsOf(ws, g.symbol, {"construct"})) = 1})

DA007(ws, da) ==
    IF ~da.enabled THEN {}
    ELSE Found("DA007", {t \in ws.types : /\ t.kind = "enum"
                                          /\ In(da.strategy_names, t.name)
                                          /\ Cardinality(t.variants) = 1})

DaFindings(ws, lock) == DA001(ws, lock.DA) \cup DA002(ws, lock.DA) \cup DA007(ws, lock.DA)

SetDaEnabled(da, enabled) == [da EXCEPT !.enabled = enabled]
AcceptDaSingleImpl(da, pattern) == [da EXCEPT !.accepted_single_impl = @ \cup {pattern}]

-----------------------------------------------------------------------------
(* TA: test code declares no concepts of its own *)

TaSection == [test_paths : SUBSET Chunks, canonical_names : SUBSET Chunks,
              field_sets : SUBSET SUBSET Chunks, port_traits : SUBSET Chunks,
              accepted_adapters : SUBSET Chunks]
EmptyTa == [test_paths |-> {}, canonical_names |-> {}, field_sets |-> {}, port_traits |-> {},
            accepted_adapters |-> {}]
TaVacant(ta) == ta.test_paths = {}

InTests(ws, ta, item) == HasModule(ws, item) /\ In(ta.test_paths, ModuleOf(ws, item))

TA001(ws, ta) ==
    Found("TA001", {t \in ws.types : InTests(ws, ta, t) /\ t.visibility = "public"})

TA002(ws, ta) ==
    Found("TA002", {t \in ws.types : InTests(ws, ta, t) /\ In(ta.canonical_names, t.name)})

\* The text of a pattern between its wildcards stands anywhere in the name.
NameContains(pattern, name) ==
    LET NotWild(piece) == piece # Wild
        core == SelectSeq(pattern, NotWild)
    IN  core # <<>> /\ core # Empty /\ Matches(<<Wild>> \o core \o <<Wild>>, name)

FieldNames(t) == {field.name : field \in t.fields}

\* At least half of the fields of either are fields of both.
Overlaps(fields, canonical) ==
    /\ canonical # {}
    /\ 2 * Cardinality(fields \cap canonical) >= Cardinality(fields \cup canonical)

TA003(ws, ta) ==
    Found("TA003", {t \in ws.types :
        /\ InTests(ws, ta, t)
        /\ t.kind = "struct"
        /\ \E pattern \in ta.canonical_names : NameContains(pattern, t.name)
        /\ t.fields # {}
        /\ \E canonical \in ta.field_sets : Overlaps(FieldNames(t), canonical)})

TA004(ws, ta) ==
    Found("TA004", {i \in Impls(ws) :
        /\ InTests(ws, ta, i)
        /\ ~In(ta.accepted_adapters, ModuleOf(ws, i))
        /\ In(ta.port_traits, i.interface) \/ In(ta.port_traits, ShortName(i.interface))})

TaFindings(ws, lock) ==
    TA001(ws, lock.TA) \cup TA002(ws, lock.TA) \cup TA003(ws, lock.TA) \cup TA004(ws, lock.TA)

AddTestPath(ta, pattern) == [ta EXCEPT !.test_paths = @ \cup {pattern}]

-----------------------------------------------------------------------------
(* DC: documentation is there, and says nothing it should not *)

\* The forbidden phrases with a confidence of a half or more, and the markers, by
\* the tokens of a text they are found in.
DcSection == [require_public_docs : BOOLEAN, exempt_paths : SUBSET Chunks,
              phrases : SUBSET {"phrase", "marker"}, markers : BOOLEAN]
\* The markers are among the phrases the list starts with.
DefaultPhrases == {"phrase", "marker"}
EmptyDc == [require_public_docs |-> FALSE, exempt_paths |-> {},
            phrases |-> DefaultPhrases, markers |-> TRUE]

PublicItems(ws) == {x \in ws.types \cup ws.functions : x.visibility = "public"}

DC001(ws, dc) ==
    IF ~dc.require_public_docs THEN {}
    ELSE Found("DC001", {x \in PublicItems(ws) :
            /\ x.doc = <<>>
            /\ ~(HasModule(ws, x) /\ InByPrefix(dc.exempt_paths, ModuleOf(ws, x)))})

\* A marker with an owner contains the marker.
Tokens(phrase) == IF phrase = "marker" THEN {"marker", "owned_marker"} ELSE {phrase}

DC002(ws, dc) ==
    UNION {{<<"DC002", x.at, phrase>> : phrase \in
                {p \in dc.phrases : \E i \in DOMAIN x.doc : x.doc[i] \in Tokens(p)}} :
           x \in PublicItems(ws)}

DC004(ws, dc) ==
    IF ~dc.markers THEN {}
    ELSE UNION {{<<"DC004", x.at, i>> : i \in {i \in DOMAIN x.doc : x.doc[i] = "marker"}} :
                x \in PublicItems(ws)}

DcFindings(ws, lock) == DC001(ws, lock.DC) \cup DC002(ws, lock.DC) \cup DC004(ws, lock.DC)

SetRequirePublicDocs(dc, value) == [dc EXCEPT !.require_public_docs = value]
AddDcExemptPath(dc, pattern) == [dc EXCEPT !.exempt_paths = @ \cup {pattern}]
=============================================================================
