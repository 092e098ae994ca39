---------------------------- MODULE OwnershipRules ----------------------------
(***************************************************************************)
(* The paradigms that say what a module may own and hold: module ownership *)
(* (MO), complexity budgets (CX), boundary ownership (BO), ports and       *)
(* adapters (PA), feature ownership (FO), composition roots (CR) and       *)
(* claims in documentation (CL).  For each: its section of the lockfile,   *)
(* its rules, and the commands that declare in it.                         *)
(*                                                                         *)
(* A list of patterns that is only searched for a match is a set.          *)
(***************************************************************************)
EXTENDS Air

-----------------------------------------------------------------------------
(* MO: how much a file holds *)

MoSection == [default : Nat \cup {Unset}, overrides : Seq([module : Chunks, max : Nat]),
              entropy : Nat \cup {Unset}, handlers : SUBSET Chunks, persistence : SUBSET Chunks,
              lib_rs_kinds : Seq([module : Chunks,
                                  kind : {"thin_reexport", "canonical_data", "composition_root"}])]

EmptyMo == [default |-> Unset, overrides |-> <<>>, entropy |-> Unset, handlers |-> {},
            persistence |-> {}, lib_rs_kinds |-> <<>>]

\* The first entry whose module pattern matches, 0 for none.
FirstEntry(entries, module) ==
    LET hits == {i \in DOMAIN entries : Matches(entries[i].module, module)}
    IN  IF hits = {} THEN 0 ELSE CHOOSE i \in hits : \A j \in hits : i <= j

Budget(mo, module) ==
    LET i == FirstEntry(mo.overrides, module)
    IN  IF i = 0 THEN Or(mo.default, 5) ELSE mo.overrides[i].max

PublicTypes(ws, file) == {t \in ws.types : t.file = file /\ t.visibility = "public"}

MO001(ws, mo) ==
    {<<"MO001", f>> : f \in
        {f \in DOMAIN ws.files :
            /\ ws.files[f].module # NoModule
            /\ Cardinality(PublicTypes(ws, f)) > Budget(mo, ws.files[f].module)}}

Handlers(mo) == OrDefault(mo.handlers, {<<"*", "handler">>, <<"handle", "*">>})
Persistence(mo) == OrDefault(mo.persistence, {<<"*", db, "*">> : db \in {"sqlx", "diesel", "sea_orm"}})
IoCallees == {<<"*", api, "*">> : api \in {"fs", "net", "TcpStream", "TcpListener", "UdpSocket"}}

HasHandler(ws, mo, f) == \E g \in ws.functions : g.file = f /\ In(Handlers(mo), g.name)

RolesIn(ws, mo, f) ==
    (ws.files[f].hints \cap {"canonical", "boundary", "converter"})
        \cup (IF HasHandler(ws, mo, f) THEN {"handler"} ELSE {})
        \cup (IF \E i \in ws.imports : i.file = f /\ In(Persistence(mo), i.path)
              THEN {"persistence"} ELSE {})
        \cup (IF \E c \in ws.calls : c.file = f /\ In(IoCallees, c.callee) THEN {"io"} ELSE {})

MO002(ws, mo) ==
    {<<"MO002", f>> : f \in
        {f \in DOMAIN ws.files : /\ ws.files[f].module # NoModule
                                 /\ Cardinality(RolesIn(ws, mo, f)) >= Or(mo.entropy, 3)}}

MO003(ws) ==
    {<<"MO003", f>> : f \in {f \in DOMAIN ws.files :
        ws.files[f].module # NoModule /\ {"canonical", "boundary"} \subseteq ws.files[f].hints}}

MO004(ws, mo) ==
    {<<"MO004", f>> : f \in {f \in DOMAIN ws.files :
        /\ ws.files[f].module # NoModule
        /\ "canonical" \in ws.files[f].hints
        /\ HasHandler(ws, mo, f)}}

\* main.rs, mod.rs and lib.rs, by the last segment of the module or by the file.
EntrypointKind(file) ==
    LET kinds == {"main", "mod", "lib"}
    IN  CASE LastSegment(file.module) \in kinds -> LastSegment(file.module)
          [] file.stem \in kinds -> file.stem
          [] OTHER -> "none"

LibRsKind(ws, mo, f) ==
    LET explicit == FirstEntry(mo.lib_rs_kinds, ws.files[f].module)
        Here(items) == {x \in items : x.file = f}
        declared == Here(ws.types) \cup Here(ws.functions) \cup Here(ws.impls) \cup Here(ws.conversions)
        IsPublic(x) == x \in ws.impls \cup ws.conversions \/ x.visibility = "public"
    IN  CASE explicit # 0 -> mo.lib_rs_kinds[explicit].kind
          [] declared = {} -> "unresolved"
          [] \A i \in Here(ws.imports) : i.visibility # "public" -> "canonical_data"
          [] Cardinality({x \in declared : IsPublic(x)}) <= 5 -> "composition_root"
          [] OTHER -> "unresolved"

UnitStructs(ws, f) == {t \in ws.types : t.file = f /\ t.kind = "struct" /\ t.fields = {}}

\* The impl of Paradigm for a unit struct of the file, if it is short.
HostImpls(ws, f) ==
    {i \in ws.impls :
        /\ i.file = f
        /\ i.interface # NoInterface
        /\ LastSegment(i.interface) = "Paradigm"
        /\ i.lines <= 120
        /\ \E t \in UnitStructs(ws, f) : t.name = i.target \/ Matches(<<Wild>> \o i.target, t.symbol)}

HostStructs(ws, f) ==
    {t \in UnitStructs(ws, f) : \E i \in HostImpls(ws, f) :
        i.target = t.symbol \/ Matches(<<Wild>> \o t.name, i.target)}

ThinNames == {<<"main">>, <<"run">>, <<"init">>, <<"setup">>, <<"start">>}

MisplacedIn(ws, f, kind) ==
    {t \in ws.types : t.file = f /\ ~(kind = "mod" /\ t \in HostStructs(ws, f))}
        \cup {i \in ws.impls : i.file = f /\ ~(kind = "mod" /\ i \in HostImpls(ws, f))}
        \cup {g \in ws.functions : g.file = f /\ ~(g.name \in ThinNames /\ g.lines <= 25)}
        \cup {c \in ws.conversions : c.file = f}

MO005(ws, mo) ==
    UNION {Found("MO005", MisplacedIn(ws, f, EntrypointKind(ws.files[f]))) : f \in
        {f \in DOMAIN ws.files :
            /\ ws.files[f].module # NoModule
            /\ EntrypointKind(ws.files[f]) # "none"
            /\ ~(/\ EntrypointKind(ws.files[f]) = "lib"
                 /\ LibRsKind(ws, mo, f) \in {"canonical_data", "composition_root"})}}

MoFindings(ws, lock) == MO001(ws, lock.MO) \cup MO002(ws, lock.MO) \cup MO003(ws)
                            \cup MO004(ws, lock.MO) \cup MO005(ws, lock.MO)

SetMoDefault(mo, max) == [mo EXCEPT !.default = max]

OverrideOf(section, module) ==
    {i \in DOMAIN section.overrides : section.overrides[i].module = module}
CanOverride(section, module, force) ==
    module # Empty /\ (OverrideOf(section, module) # {} => force)

\* A slip of AddMoOverride: a new override is put first.
MutAddMoOverride(mo, module, max) ==
    LET named == OverrideOf(mo, module)
    IN  IF named = {} THEN [mo EXCEPT !.overrides = <<[module |-> module, max |-> max]>> \o @]
        ELSE [mo EXCEPT !.overrides[CHOOSE i \in named : \A j \in named : i <= j].max = max]

AddMoOverride(mo, module, max) ==
    LET named == OverrideOf(mo, module)
    IN  IF named = {} THEN [mo EXCEPT !.overrides = Append(@, [module |-> module, max |-> max])]
        ELSE [mo EXCEPT !.overrides[CHOOSE i \in named : \A j \in named : i <= j].max = max]

-----------------------------------------------------------------------------
(* CX: how long a function or a file is, and how much it reaches *)

CxSection == [default : Nat \cup {Unset}, overrides : Seq([module : Chunks, max : Nat]),
              module_default : Nat \cup {Unset}, module_overrides : Seq([module : Chunks, max : Nat]),
              max_public_items : Nat, exempt_paths : SUBSET Chunks,
              max_fan_out : Nat, orchestration_paths : SUBSET Chunks]

EmptyCx == [default |-> Unset, overrides |-> <<>>, module_default |-> Unset, module_overrides |-> <<>>,
            max_public_items |-> 30, exempt_paths |-> {<<"*", "tests", "*">>, <<"*", "test", "*">>},
            max_fan_out |-> 25, orchestration_paths |-> {}]

LineBudget(overrides, default, module) ==
    LET i == FirstEntry(overrides, module) IN IF i = 0 THEN default ELSE overrides[i].max

CX001(ws, cx) ==
    Found("CX001", {g \in ws.functions :
        /\ HasModule(ws, g)
        /\ g.lines > LineBudget(cx.overrides, Or(cx.default, 50), ModuleOf(ws, g))})

CX002(ws, cx) ==
    {<<"CX002", f>> : f \in {f \in DOMAIN ws.files :
        LET module == ws.files[f].module
        IN  /\ module # NoModule
            /\ ws.files[f].lines > LineBudget(cx.module_overrides, Or(cx.module_default, 400), module)}}

CX007(ws, cx) ==
    {<<"CX007", f>> : f \in {f \in DOMAIN ws.files :
        /\ ws.files[f].module # NoModule
        /\ ~In(cx.exempt_paths, ws.files[f].module)
        /\ cx.max_public_items < Cardinality({x \in ws.types \cup ws.functions :
                                                x.file = f /\ x.visibility = "public"})}}

\* A file without a module is no orchestrator.
CX008(ws, cx) ==
    IF cx.orchestration_paths = {} THEN {}
    ELSE Found("CX008", {g \in ws.functions :
            /\ ~(HasModule(ws, g) /\ In(cx.orchestration_paths, ModuleOf(ws, g)))
            /\ Cardinality({c \in ws.calls : c.function = g.symbol}) > cx.max_fan_out})

CxFindings(ws, lock) ==
    CX001(ws, lock.CX) \cup CX002(ws, lock.CX) \cup CX007(ws, lock.CX) \cup CX008(ws, lock.CX)

SetCxDefault(cx, max) == [cx EXCEPT !.default = max]
AddCxOverride(cx, module, max) == AddMoOverride(cx, module, max)

-----------------------------------------------------------------------------
(* BO: what the domain may touch *)

BoSection == [domain_paths : SUBSET Chunks, forbidden_in_domain : SUBSET Chunks,
              persistence_types : SUBSET Chunks, canonical_paths : SUBSET Chunks,
              forbidden_derives : SUBSET Chunks]
EmptyBo == [domain_paths |-> {}, forbidden_in_domain |-> {}, persistence_types |-> {},
            canonical_paths |-> {},
            forbidden_derives |-> {<<d>> : d \in {"Serialize", "Deserialize", "Schema", "ToSchema"}}]

\* A slip of BoVacant: the other lists do not count.
MutBoVacant(bo) == bo.domain_paths = {}

BoVacant(bo) == {} = bo.domain_paths \cup bo.forbidden_in_domain \cup bo.persistence_types
                         \cup bo.canonical_paths

BO001(ws, bo) ==
    Found("BO001", {i \in ws.imports : /\ HasModule(ws, i)
                                       /\ In(bo.domain_paths, ModuleOf(ws, i))
                                       /\ In(bo.forbidden_in_domain, i.path)})

\* A pattern matches a type text in one of its tokens; every text has one.
TextHas(patterns, tokens) == \E token \in tokens : In(patterns, token)

BO002(ws, bo) ==
    Found("BO002", {g \in ws.functions :
        /\ HasModule(ws, g)
        /\ In(bo.domain_paths, ModuleOf(ws, g))
        /\ \/ \E i \in DOMAIN g.params : TextHas(bo.persistence_types, g.params[i])
           \/ TextHas(bo.persistence_types, g.returns)})

BO004(ws, bo) ==
    Found("BO004", {t \in ws.types :
        /\ HasModule(ws, t)
        /\ In(bo.canonical_paths, ModuleOf(ws, t))
        /\ \E d \in t.decorators : /\ d.source = "derive"
                                   /\ \/ d.name \in bo.forbidden_derives
                                      \/ <<LastSegment(d.name)>> \in bo.forbidden_derives})

BO005(ws, bo) ==
    Found("BO005", {fact \in FactsAbout(ws, {"persistence_write"}) :
                        FactIn(ws, fact, bo.domain_paths)})

BoFindings(ws, lock) ==
    BO001(ws, lock.BO) \cup BO002(ws, lock.BO) \cup BO004(ws, lock.BO) \cup BO005(ws, lock.BO)

AddBoDomainPath(bo, pattern) == [bo EXCEPT !.domain_paths = @ \cup {pattern}]
AddForbiddenImport(bo, pattern) == [bo EXCEPT !.forbidden_in_domain = @ \cup {pattern}]

-----------------------------------------------------------------------------
(* PA: ports stand apart from their adapters *)

PaSection == [accepted_colocated : SUBSET Chunks, application_paths : SUBSET Chunks,
              concrete_adapters : SUBSET Chunks, adapter_types : SUBSET Chunks,
              construction_paths : SUBSET Chunks]
EmptyPa == [accepted_colocated |-> {}, application_paths |-> {}, concrete_adapters |-> {},
            adapter_types |-> {},
            construction_paths |-> {<<"*", "main">>, <<"*", "bootstrap", "*">>,
                                    <<"*", "composition", "*">>}]

PaVacant(pa) == {} = pa.application_paths \cup pa.concrete_adapters \cup pa.adapter_types

\* The impls of every trait of that short name, in whatever module it stands.
ImplsOf(ws, trait) ==
    {i \in ws.impls : i.interface # NoInterface /\ <<LastSegment(i.interface)>> = trait}

PA001(ws, pa) ==
    Found("PA001", {t \in ws.types :
        /\ t.kind = "trait"
        /\ Cardinality(ImplsOf(ws, t.name)) = 1
        /\ \A i \in ImplsOf(ws, t.name) : i.file = t.file
        /\ ~In(pa.accepted_colocated, t.symbol)
        /\ ~In(pa.accepted_colocated, t.name)})

PA002(ws, pa) ==
    Found("PA002", {i \in ws.imports : /\ HasModule(ws, i)
                                       /\ In(pa.application_paths, ModuleOf(ws, i))
                                       /\ In(pa.concrete_adapters, i.path)})

PA003(ws, pa) ==
    Found("PA003", {fact \in FactsAbout(ws, {"external_io"}) :
                        FactIn(ws, fact, pa.application_paths)})

Constructs(ws) == {a \in ws.actions : a.action = "construct"}

PA004(ws, pa) ==
    Found("PA004", {a \in Constructs(ws) : /\ In(pa.adapter_types, a.target)
                                           /\ ~In(pa.construction_paths, OrEmpty(ModuleOf(ws, a)))})

PaFindings(ws, lock) ==
    PA001(ws, lock.PA) \cup PA002(ws, lock.PA) \cup PA003(ws, lock.PA) \cup PA004(ws, lock.PA)

AcceptColocated(pa, pattern) == [pa EXCEPT !.accepted_colocated = @ \cup {pattern}]
AddApplicationPath(pa, pattern) == [pa EXCEPT !.application_paths = @ \cup {pattern}]

-----------------------------------------------------------------------------
(* FO: a type belongs to one feature *)

FoSection == [features : Seq([name : Text, module : Chunks]), shared_paths : SUBSET Chunks]
EmptyFo == [features |-> <<>>, shared_paths |-> {}]
FoVacant(fo) == fo.features = <<>> /\ fo.shared_paths = {}

\* The first feature entry whose pattern matches.
OwningFeature(fo, path) == FirstEntry(fo.features, path)

\* The type scanned first keeps its name; those of other features are reported.
FO001(ws, fo) ==
    LET owned == {t \in ws.types : /\ HasModule(ws, t)
                                   /\ t.visibility = "public"
                                   /\ OwningFeature(fo, ModuleOf(ws, t)) # 0}
        FeatureOf(t) == OwningFeature(fo, ModuleOf(ws, t))
        Incumbent(t) == FirstOf({u \in owned : u.name = t.name})
    IN  Found("FO001", {t \in owned : FeatureOf(t) # FeatureOf(Incumbent(t))})

FO004(ws, fo) ==
    UNION {{<<"FO004", t.at, field.name>> : field \in
                {x \in t.fields : \E token \in x.tokens : OwningFeature(fo, token) # 0}} :
           t \in {t \in ws.types : HasModule(ws, t) /\ In(fo.shared_paths, ModuleOf(ws, t))}}

FoFindings(ws, lock) == FO001(ws, lock.FO) \cup FO004(ws, lock.FO)

FeatureNamed(fo, name) == {i \in DOMAIN fo.features : fo.features[i].name = name}
CanDefineFoFeature(fo, name, module, force) ==
    name # "" /\ module # Empty /\ (FeatureNamed(fo, name) # {} => force)
DefineFoFeature(fo, name, module) ==
    LET named == FeatureNamed(fo, name)
    IN  IF named = {} THEN [fo EXCEPT !.features = Append(@, [name |-> name, module |-> module])]
        ELSE [fo EXCEPT !.features[CHOOSE i \in named : \A j \in named : i <= j].module = module]

-----------------------------------------------------------------------------
(* CR: services are constructed in composition roots *)

CrSection == [roots : SUBSET Chunks, suffixes : SUBSET Text, density : Nat]
EmptyCr == [roots |-> {}, suffixes |-> {}, density |-> 12]
CrVacant(cr) == cr.roots = {}

Suffixes(cr) == OrDefault(cr.suffixes, {"Service", "Client", "Repository", "Adapter",
                                        "Connection", "Pool", "Manager"})

\* The matcher of the CR rules knows wildcards at the end only.
IsRoot(ws, cr, f) == InByPrefix(cr.roots, OrEmpty(ws.files[f].module))

\* A name's last piece is the suffix it ends with, if there is one.
CR001(ws, cr) ==
    IF cr.roots = {} THEN {}
    ELSE Found("CR001", {a \in Constructs(ws) : /\ ~IsRoot(ws, cr, a.file)
                                                /\ LastSegment(a.target) \in Suffixes(cr)})

\* Constructions in a file count by their enclosing function, NoFunction among them.
ConstructsIn(ws, f, function) == {a \in Constructs(ws) : a.file = f /\ a.function = function}

CR002(ws, cr) ==
    IF cr.roots = {} \/ cr.density = 0 THEN {}
    ELSE {<<"CR002", a.file, a.function>> : a \in
            {a \in Constructs(ws) :
                /\ IsRoot(ws, cr, a.file)
                /\ Cardinality(ConstructsIn(ws, a.file, a.function)) >= cr.density}}

CrFindings(ws, lock) == CR001(ws, lock.CR) \cup CR002(ws, lock.CR)

AddCompositionRoot(cr, pattern) == [cr EXCEPT !.roots = @ \cup {pattern}]

-----------------------------------------------------------------------------
(* CL: documentation that only points elsewhere *)

ClSection == [require_local_rationale : BOOLEAN, exempt_paths : SUBSET Chunks]
EmptyCl == [require_local_rationale |-> FALSE, exempt_paths |-> {}]

DocCount(doc, kinds) == Cardinality({i \in DOMAIN doc : doc[i] \in kinds})

CL001(ws, cl) ==
    IF ~cl.require_local_rationale THEN {}
    ELSE Found("CL001", {x \in ws.types \cup ws.functions :
            /\ ~(HasModule(ws, x) /\ In(cl.exempt_paths, ModuleOf(ws, x)))
            /\ DocCount(x.doc, {"issue", "url"}) > 0
            /\ DocCount(x.doc, {"word", "phrase", "marker", "owned_marker"}) < 5})

ClFindings(ws, lock) == CL001(ws, lock.CL)
=============================================================================
