----------------------------- MODULE RuntimeRules -----------------------------
(***************************************************************************)
(* The paradigms about what code does when it runs: configuration (CF),    *)
(* observability (OB) and runtime work (RW).  For each: its section of the *)
(* lockfile, its rules, and the commands that declare in it.               *)
(***************************************************************************)
EXTENDS Air

Outside(ws, item, owners) == HasModule(ws, item) /\ ~In(owners, ModuleOf(ws, item))

-----------------------------------------------------------------------------
(* CF: configuration is read in the config layer *)

\* The patterns of configuration files have no rule that reads them.
CfSection == [config_paths : SUBSET Chunks, literal_kinds : SUBSET {"str", "int", "float", "bool"},
              id_patterns : SUBSET Chunks]
EmptyCf == [config_paths |-> {}, literal_kinds |-> {"str", "int", "float"}, id_patterns |-> {}]
CfVacant(cf) == cf.config_paths = {}

CF001(ws, cf) ==
    IF cf.config_paths = {} THEN {}
    ELSE Found("CF001", {fact \in FactsAbout(ws, {"config_read"}) :
                            ~In(cf.config_paths, HomeOf(ws, fact.symbol))})

CF002(ws, cf) ==
    IF cf.config_paths = {} THEN {}
    ELSE Found("CF002", {l \in ws.literals : /\ Outside(ws, l, cf.config_paths)
                                             /\ l.kind \in cf.literal_kinds})

\* The matcher of CF knows character wildcards too; a literal is a sequence of pieces.
CF003(ws, cf) ==
    IF cf.config_paths = {} THEN {}
    ELSE Found("CF003", {l \in ws.literals : /\ Outside(ws, l, cf.config_paths)
                                             /\ l.kind = "str"
                                             /\ In(cf.id_patterns, l.value)})

CfFindings(ws, lock) == CF001(ws, lock.CF) \cup CF002(ws, lock.CF) \cup CF003(ws, lock.CF)

AddConfigPath(cf, pattern) == [cf EXCEPT !.config_paths = @ \cup {pattern}]

-----------------------------------------------------------------------------
(* OB: who may log, measure and publish *)

ObSection == [observer_paths : SUBSET Chunks, log_targets : SUBSET Chunks,
              metric_macros : SUBSET Chunks, metric_owners : SUBSET Chunks,
              event_macros : SUBSET Chunks, event_owners : SUBSET Chunks]
EmptyOb == [observer_paths |-> {},
            log_targets |-> {<<t>> : t \in {"println", "eprintln", "print", "eprint", "dbg"}},
            metric_macros |-> {<<"metrics", m>> : m \in {"counter", "histogram", "gauge"}},
            metric_owners |-> {},
            event_macros |-> {<<"event">>, <<"emit">>, <<"publish">>, <<"tracing", "event">>},
            event_owners |-> {}]

OB001(ws, ob) ==
    IF ob.observer_paths = {} THEN {}
    ELSE Found("OB001", {fact \in FactsAbout(ws, {"logging"}) :
            /\ fact.evidence # NoEvidence
            /\ In(ob.log_targets, fact.evidence)
            /\ ~In(ob.observer_paths, HomeOf(ws, fact.symbol))})

\* OB002 and OB003: a macro called outside the modules that own its kind.
MacroEmission(ws, rule, macros, owners) ==
    IF owners = {} THEN {}
    ELSE Found(rule, {c \in ws.calls : /\ Outside(ws, c, owners)
                                       /\ c.kind = "meta"
                                       /\ In(macros, c.callee)})

OB002(ws, ob) == MacroEmission(ws, "OB002", ob.metric_macros, ob.metric_owners)
OB003(ws, ob) == MacroEmission(ws, "OB003", ob.event_macros, ob.event_owners)

Marked(ws, kind) == {fact.symbol : fact \in {x \in ws.facts : x.kind = kind /\ x.scope = "function"}}

\* An entry that does not log, wherever it is declared.
OB004(ws) == {<<"OB004", symbol>> : symbol \in Marked(ws, "boundary_entry") \ Marked(ws, "logging")}

ObFindings(ws, lock) == OB001(ws, lock.OB) \cup OB002(ws, lock.OB) \cup OB003(ws, lock.OB) \cup OB004(ws)

AddObserverPath(ob, pattern) == [ob EXCEPT !.observer_paths = @ \cup {pattern}]
AddForbiddenLogTarget(ob, pattern) == [ob EXCEPT !.log_targets = @ \cup {pattern}]

-----------------------------------------------------------------------------
(* RW: who may spawn, block and keep state *)

RwSection == [owner_paths : SUBSET Chunks, state_types : SUBSET Chunks, singletons : SUBSET Chunks]
EmptyRw == [owner_paths |-> {},
            state_types |-> {<<t, Wild>> : t \in {"Mutex<", "RwLock<", "OnceCell<", "OnceLock<"}}
                                \cup {<<"Arc<", t, Wild>> : t \in {"Mutex<", "RwLock<"}},
            singletons |-> {<<Wild, "Singleton">>, <<Wild, "Globals">>}]
RwVacant(rw) == rw.owner_paths = {}

\* RW001 and RW002: work of a kind outside its owners.
Unowned(ws, rule, rw, kind) ==
    IF rw.owner_paths = {} THEN {}
    ELSE Found(rule, {fact \in FactsAbout(ws, {kind}) : ~FactIn(ws, fact, rw.owner_paths)})

RW001(ws, rw) == Unowned(ws, "RW001", rw, "spawned_work")
RW002(ws, rw) == Unowned(ws, "RW002", rw, "blocking_call")

HasState(rw, t) == \E field \in t.fields : In(rw.state_types, field.text)

RW003(ws, rw) ==
    IF rw.owner_paths = {} THEN {}
    ELSE Found("RW003", {t \in ws.types : Outside(ws, t, rw.owner_paths) /\ HasState(rw, t)})

RW004(ws, rw) ==
    IF rw.owner_paths = {} THEN {}
    ELSE Found("RW004", {t \in ws.types :
            /\ Outside(ws, t, rw.owner_paths)
            /\ \/ In(rw.singletons, t.name)
               \/ t.kind = "struct" /\ Cardinality(t.fields) = 1 /\ HasState(rw, t)})

\* RW005 and RW006 read no section: a hot path blocks or spawns.
OnHotPath(ws, rule, kind) ==
    Found(rule, {fact \in FactsAbout(ws, {kind}) : fact.symbol \in Marked(ws, "hot_path")})

RW005(ws) == OnHotPath(ws, "RW005", "blocking_call")
RW006(ws) == OnHotPath(ws, "RW006", "spawned_work")

RwFindings(ws, lock) == RW001(ws, lock.RW) \cup RW002(ws, lock.RW) \cup RW003(ws, lock.RW)
                            \cup RW004(ws, lock.RW) \cup RW005(ws) \cup RW006(ws)

\* A slip of AcceptRuntimeOwner: the owner takes the place of the others.
MutAcceptRuntimeOwner(rw, pattern) == [rw EXCEPT !.owner_paths = {pattern}]

AcceptRuntimeOwner(rw, pattern) == [rw EXCEPT !.owner_paths = @ \cup {pattern}]
=============================================================================
