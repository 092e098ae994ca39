--------------------------- MODULE MCParadigmReview ---------------------------
(***************************************************************************)
(* Workspaces in which every rule has something to find, for the commands; *)
(* workspaces that are asked about everything, for the checklist.          *)
(***************************************************************************)
EXTENDS ParadigmReview

MCText == STRING

Core  == <<"app", "core">>
Infra == <<"app", "infra">>
Util  == <<"app", "util">>
Trials == <<"app", "tests">>
Under(module) == module \o <<Wild>>

File(module) == [module |-> module, stem |-> "file", lines |-> 10, hints |-> {}]
Bare == [packages |-> {"app"},
         files |-> [core  |-> File(Core), infra |-> File(Infra), util |-> File(Util),
                    tests |-> File(Trials), none |-> File(NoModule)],
         types |-> {}, functions |-> {}, impls |-> {}, conversions |-> {}, actions |-> {},
         calls |-> {}, discards |-> {}, partials |-> {}, arms |-> {}, closures |-> {},
         fallbacks |-> {}, loops |-> {}, literals |-> {}, imports |-> {}, facts |-> {}]

Struct(at, file, name) ==
    [at |-> at, file |-> file, kind |-> "struct", name |-> <<name>>,
     symbol |-> Bare.files[file].module \o <<name>>, visibility |-> "public", fields |-> {},
     variants |-> {}, decorators |-> {}, doc |-> <<"word">>]
Trait(at, file, name) == [Struct(at, file, name) EXCEPT !.kind = "trait"]
Enum(at, file, name, variants) ==
    [Struct(at, file, name) EXCEPT !.kind = "enum", !.variants = variants]
Field(name, type) == [name |-> <<name>>, text |-> <<type>>, tokens |-> {<<type>>}, visibility |-> "private"]
Fun(at, file, name) ==
    [at |-> at, file |-> file, name |-> <<name>>, symbol |-> Bare.files[file].module \o <<name>>,
     visibility |-> "public", params |-> <<{<<"u8">>}>>, returns |-> {<<"()">>}, result |-> <<>>,
     lines |-> 10, decorators |-> {}, doc |-> <<"word">>]
Impl(at, file, interface, target) ==
    [at |-> at, file |-> file, interface |-> interface, target |-> target, methods |-> {"run"},
     dispatch |-> "static", lines |-> 10]
Act(at, file, action, target, function) ==
    [at |-> at, file |-> file, action |-> action, target |-> target, function |-> function]
Call(at, file, kind, callee, function) ==
    [at |-> at, file |-> file, kind |-> kind, callee |-> callee, function |-> function]
Import(at, file, path) == [at |-> at, file |-> file, path |-> path, visibility |-> "private"]
Fact(at, kind, symbol, evidence) ==
    [at |-> at, kind |-> kind, scope |-> "function", symbol |-> symbol, file |-> "core",
     evidence |-> evidence]

-----------------------------------------------------------------------------
(* Ownership: MO, CX, BO, PA, FO, CR, CL and DG *)

Save == Core \o <<"save">>
Wire == Infra \o <<"wire">>

Ownership ==
    [Bare EXCEPT
        !.files["core"].hints = {"canonical", "boundary"},
        !.files["core"].lines = 500,
        !.files["infra"].stem = "mod",
        !.types = {[Struct(1, "core", "User") EXCEPT
                        !.decorators = {[source |-> "derive", name |-> <<"serde", "Serialize">>, args |-> {}]},
                        !.doc = <<"url">>],
                   Struct(2, "core", "Order"), Struct(3, "infra", "User"),
                   [Struct(4, "util", "Shared") EXCEPT !.fields = {Field("user", "x") ,
                       [Field("order", "Order") EXCEPT !.tokens = {Core \o <<"Order">>}]}],
                   Trait(5, "core", "Port"), Struct(6, "none", "Loose")},
        !.impls = {Impl(7, "core", Core \o <<"Port">>, Core \o <<"Order">>)},
        !.functions = {[Fun(8, "core", "save") EXCEPT !.params = <<{<<"sqlx", "Row">>}>>, !.lines = 80],
                       [Fun(9, "core", "handler") EXCEPT !.name = <<"user_", "handler">>],
                       [Fun(10, "infra", "wire") EXCEPT !.lines = 60]},
        !.imports = {Import(11, "core", <<"sqlx", "Pool">>), Import(12, "core", Infra \o <<"User">>),
                     Import(13, "util", Core \o <<"User">>)},
        !.calls = {Call(14, "core", "function", <<"std", "fs", "read">>, Save),
                   Call(15, "core", "function", <<"helper">>, Save)},
        !.actions = {Act(16, "infra", "construct", <<"User", "Service">>, Wire),
                     Act(17, "infra", "construct", <<"Pg", "Adapter">>, Wire),
                     Act(18, "core", "construct", <<"Pg", "Adapter">>, Save)},
        !.facts = {Fact(19, "persistence_write", Save, NoEvidence), Fact(20, "external_io", Save, NoEvidence)}]

OwnershipLock ==
    [EmptyLock EXCEPT
        !.MO = [@ EXCEPT !.overrides = <<[module |-> Infra, max |-> 0]>>],
        !.CX = [@ EXCEPT !.overrides = <<[module |-> Under(Infra), max |-> 60]>>,
                         !.max_public_items = 3, !.max_fan_out = 1, !.orchestration_paths = {Infra}],
        !.BO = [@ EXCEPT !.persistence_types = {<<"sqlx", Wild>>}, !.canonical_paths = {Under(Core)}],
        !.PA = [@ EXCEPT !.concrete_adapters = {Under(Infra)}, !.adapter_types = {<<"Pg", Wild>>}],
        !.FO = [@ EXCEPT !.shared_paths = {Util}],
        !.CR = [@ EXCEPT !.density = 2],
        !.CL = [@ EXCEPT !.require_local_rationale = TRUE]]

-----------------------------------------------------------------------------
(* Design: RM, UT, AB, DA, TA and DC *)

Parse == Util \o <<"parse">>
Login == Core \o <<"User", "login">>

Design ==
    [Bare EXCEPT
        !.types = {Trait(1, "core", "Port"), Trait(2, "infra", "Port"), Trait(3, "util", "Clock"),
                   [Struct(4, "core", "OrderManager") EXCEPT !.name = <<"Order", "Manager">>],
                   [Enum(5, "core", "SortMode", {[name |-> "Fast", fields |-> {}]}) EXCEPT
                        !.name = <<"Sort", "Mode">>],
                   [Struct(6, "tests", "FakeUser") EXCEPT
                        !.name = <<"Fake", "User">>, !.fields = {Field("id", "u8"), Field("email", "String")}],
                   [Struct(7, "util", "Money") EXCEPT !.doc = <<"phrase", "marker">>],
                   [Struct(8, "core", "User") EXCEPT !.doc = <<>>]},
        !.impls = {Impl(9, "infra", Core \o <<"Port">>, Infra \o <<"Pg">>),
                   Impl(10, "tests", <<"Clock">>, Trials \o <<"FakeClock">>)},
        !.functions = {[Fun(11, "util", "parse") EXCEPT !.doc = <<>>],
                       [Fun(12, "core", "login") EXCEPT !.symbol = Login],
                       [Fun(13, "core", "create_user") EXCEPT !.name = <<"create", "_user">>]},
        !.imports = {Import(14, "util", Core \o <<"User">>)},
        !.actions = {Act(15, "util", "validate", <<"User">>, Parse), Act(16, "util", "normalize", <<"Text">>, Parse),
                     Act(17, "util", "string_compare", <<"kind">>, Parse),
                     Act(18, "core", "construct", <<"User">>, Core \o <<"create_user">>)},
        !.facts = {Fact(19, "logging", Parse, NoEvidence), Fact(20, "external_io", Parse, NoEvidence),
                   Fact(21, "persistence_write", Login, NoEvidence)}]

DesignLock ==
    [EmptyLock EXCEPT
        !.RM = [@ EXCEPT !.converter_paths = {Util}, !.handler_paths = {Util}, !.max_handler = 0,
                         !.repository_paths = {Util}, !.max_repository = 0, !.validator_paths = {Util}],
        !.UT = [@ EXCEPT !.forbidden_imports = {Under(Core)}, !.generic_patterns = {<<Wild, "util">>},
                         !.canonical_constructs = {<<"User">>}],
        !.TA = [@ EXCEPT !.canonical_names = {<<Wild, "User">>}, !.field_sets = {{<<"id">>, <<"email">>}},
                         !.port_traits = {<<"Clock">>}]]
-----------------------------------------------------------------------------
(* For the checklist: a package of three long functions and one that decides a lot, *)
(* and two packages, one of which reaches into the other, with twenty functions of  *)
(* which one is very long.                                                          *)

Domain1 == <<"app", "domain">>
Decisions == <<"construct", "discriminated_match", "string_compare", "validate", "normalize">>
Young ==
    [Bare EXCEPT
        !.files = [domain |-> File(Domain1), main |-> File(<<"app", "main">>)],
        !.functions = {[Fun(i, "core", "work") EXCEPT !.file = "domain", !.symbol = Domain1 \o <<"work">>,
                                                      !.lines = IF i = 3 THEN 300 ELSE 100] : i \in 1..3},
        !.actions = {Act(10 + i, "main", Decisions[i], <<"User">>, <<"app", "main", "run">>) : i \in DOMAIN Decisions}]

Grown ==
    [Young EXCEPT
        !.packages = {"app", "web"},
        !.files = [domain |-> File(Domain1), web |-> File(<<"web", "api">>), bin |-> File(<<"web", "bin", "serve">>)],
        !.functions = {[Fun(i, "core", "work") EXCEPT !.file = "web", !.symbol = <<"web", "api", "work">>,
                                                      !.lines = IF i = 20 THEN 300 ELSE 20] : i \in 1..20},
        !.imports = {Import(20 + i, "web", Domain1 \o <<"User">>) : i \in 1..3},
        !.actions = {Act(24 + i, "bin", "construct", <<"Pool">>, <<"web", "bin", "serve">>) : i \in 1..4}]

-----------------------------------------------------------------------------
(* Runtime: CF, OB, RW, ER and FL *)

Serve == Core \o <<"serve">>
Load  == Util \o <<"load">>
Literal(at, file, kind, value) ==
    [at |-> at, file |-> file, value |-> value, kind |-> kind, context |-> "match_arm", function |-> Serve]
Arm(at, pattern, wildcard) ==
    [at |-> at, file |-> "core", scrutinee |-> "result", pattern |-> pattern, wildcard |-> wildcard,
     body |-> "literal", function |-> Serve]

Runtime ==
    [Bare EXCEPT
        !.types = {[Struct(1, "core", "Cache") EXCEPT !.fields = {[Field("m", "Mutex") EXCEPT !.text = <<"Mutex<", "u8>">>]}],
                   [Enum(2, "core", "LoadError", {[name |-> "Io", fields |-> {<<"io", "Error">>}],
                                                  [name |-> "NotFound", fields |-> {}]})
                        EXCEPT !.name = <<"Load", "Error">>],
                   [Struct(3, "core", "SaveError") EXCEPT !.name = <<"Save", "Error">>],
                   [Enum(4, "infra", "PgError", {[name |-> "Io", fields |-> {<<"io", "Error">>}]})
                        EXCEPT !.name = <<"Pg", "Error">>]},
        !.functions = {[Fun(5, "core", "serve") EXCEPT !.result = <<<<"()">>, <<"io", "Error">>>>],
                       [Fun(6, "util", "load") EXCEPT !.result = <<<<"u8">>, <<"String">>>>]},
        !.facts = {Fact(7, "config_read", Load, <<"env">>), Fact(8, "logging", Load, <<"info">>),
                   Fact(9, "spawned_work", Serve, NoEvidence), Fact(10, "blocking_call", Serve, NoEvidence),
                   Fact(11, "hot_path", Serve, NoEvidence), Fact(12, "boundary_entry", Serve, NoEvidence)},
        !.literals = {Literal(13, "core", "str", <<"user-", "1">>), Literal(14, "util", "int", <<"42">>)},
        !.calls = {Call(15, "core", "meta", <<"metrics", "counter">>, Serve), Call(16, "util", "meta", <<"emit">>, Load),
                   Call(17, "core", "method", <<"unwrap">>, Serve), Call(18, "core", "method", <<"ok">>, Serve),
                   Call(19, "util", "method", <<"to_string">>, Load)},
        !.arms = {Arm(20, <<"Err", "(", "_">>, TRUE), Arm(21, <<"_">>, TRUE)},
        !.discards = {[at |-> 22, file |-> "core", callee |-> <<"save">>, kind |-> "method", function |-> Serve]},
        !.partials = {[at |-> 23, file |-> "core", variant |-> "success", function |-> Serve]},
        !.closures = {[at |-> 24, file |-> "core", callee |-> <<"map_err">>, discards |-> TRUE,
                       body |-> "literal", function |-> Serve]},
        !.fallbacks = {[at |-> 25, file |-> "core", pattern |-> "value_or", callee |-> <<"unwrap_or">>,
                        default |-> "literal", function |-> Serve]},
        !.loops = {[at |-> 26, file |-> "core", kind |-> "loop", propagates |-> TRUE, break |-> TRUE,
                    function |-> Serve]}]

RuntimeLock ==
    [EmptyLock EXCEPT
        !.CF = [@ EXCEPT !.id_patterns = {<<"user-", Wild>>}],
        !.OB = [@ EXCEPT !.log_targets = @ \cup {<<"info">>}, !.metric_owners = {Infra}, !.event_owners = {Infra}],
        !.ER = [@ EXCEPT !.forbidden_types = {<<"String">>}, !.boundary_errors = {<<"io", "Error">>},
                         !.collapse_owners = {Infra}],
        !.FL = [@ EXCEPT !.invariant_owners = {Infra}, !.retry_owners = {Infra}]]

-----------------------------------------------------------------------------
(* The commands of the review *)

MCCommands ==
    UNION {{SetsDefault(p, 1), Overrides(p, Under(<<"app">>), 1, FALSE), Overrides(p, Core, 90, FALSE),
            Overrides(p, Core, 0, TRUE)} : p \in {"MO", "CX"}}
    \cup {SetsDefault("RM", 1)}
    \cup {Adds(prefix, "add-domain-path", Under(Core)) : prefix \in {"BO", "RM", "ER", "FL"}}
    \cup {Adds("BO", "add-forbidden-import", <<"sqlx", Wild>>),
          Adds("PA", "accept-colocated", <<"Port">>), Adds("PA", "add-application-path", Core),
          Adds("CR", "add-composition-root", Infra), Adds("CR", "add-composition-root", Under(Core)),
          Adds("RM", "add-exempt-path", Util), Adds("UT", "add-utility-path", Util),
          Adds("AB", "accept-single-impl", <<"Port">>), Adds("AB", "accept-single-impl", Core \o <<"Port">>),
          Adds("DA", "accept-single-impl", <<"Clock">>), Adds("TA", "add-test-path", Trials),
          Adds("DC", "add-exempt-path", Under(Core)),
          Adds("CF", "add-config-path", Infra), Adds("CF", "add-config-path", Util),
          Adds("OB", "add-observer-path", Infra), Adds("OB", "add-observer-path", Util),
          Adds("OB", "add-forbidden-log-target", <<"info">>),
          Adds("RW", "accept-runtime-owner", Infra), Adds("RW", "accept-runtime-owner", Core),
          Adds("FL", "add-boundary-error", <<"io", "Error">>), Adds("DG", "add-shared-path", Util)}
    \cup {Turns(p, way) : p \in {"DA", "DC"}, way \in {"enable", "disable"}}
    \cup {DefinesFeature(p, "a", Under(Core), <<>>, force) : p \in {"DG", "FO"}, force \in BOOLEAN}
    \cup {DefinesFeature(p, "b", Under(Infra), <<>>, FALSE) : p \in {"DG", "FO"}}
    \cup {ForbidsEdge(Core, Under(Infra))}

MCWorkspaces == {Ownership, Design, Runtime}
MCStarts == {<<ws, EmptyLock>> : ws \in MCWorkspaces}
                \cup {<<Ownership, OwnershipLock>>, <<Design, DesignLock>>, <<Runtime, RuntimeLock>>}

-----------------------------------------------------------------------------
(* The commands of the onboarding *)

\* Features without a public interface; and wiring that counts as dense.
FeaturesLock ==
    [EmptyLock EXCEPT
        !.DG = [@ EXCEPT !.features = <<[name |-> "app", module |-> <<"app", Wild>>, public_api |-> <<>>],
                                        [name |-> "web", module |-> <<"web", Wild>>, public_api |-> <<>>]>>],
        !.CR = [@ EXCEPT !.density = 2]]

OnboardingCommands ==
    {DefinesFeature("DG", "app", <<"app", Wild>>, <<>>, FALSE),
     Adds("BO", "add-domain-path", Under(Domain1)), Adds("RM", "add-exempt-path", Domain1)}

OnboardingWorkspaces == {Young, Grown}
OnboardingStarts == {<<Young, EmptyLock>>, <<Grown, FeaturesLock>>}
FreshStarts == {<<Young, EmptyLock>>}

\* The order of the symbols: that of their places in this list.
MCCapitalised == {"User"}
MCRank(symbol) ==
    CASE symbol = Core \o <<"Port">> -> 1 [] symbol = Infra \o <<"Port">> -> 2 [] OTHER -> 3
=============================================================================
