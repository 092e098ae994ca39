---------------------------- MODULE FailureRules ----------------------------
(***************************************************************************)
(* The paradigms about errors: their taxonomy (ER) and who may swallow or  *)
(* reshape a failure (FL).  For each: its section of the lockfile, its     *)
(* rules, and the commands that declare in it.                             *)
(***************************************************************************)
EXTENDS Air

\* The error type a function returns, an "&" in front a piece of its own; a Result
\* with one argument has none.
ReturnsError(g) == Len(g.result) = 2
ErrorType(g) == g.result[2]
Referent(type) == IF Len(type) > 1 /\ type[1] = "&" THEN Tail(type) ELSE type

\* A body that puts one plain value in the place of what went wrong.
Silent(body) == body \in {"empty", "literal", "call"}

-----------------------------------------------------------------------------
(* ER: one error type for one kind of failure *)

ErSection == [forbidden_types : SUBSET Chunks, domain_paths : SUBSET Chunks,
              boundary_errors : SUBSET Chunks, collapse_owners : SUBSET Chunks]
EmptyEr == [forbidden_types |-> {}, domain_paths |-> {}, boundary_errors |-> {},
            collapse_owners |-> {}]
ErVacant(er) == {} = er.forbidden_types \cup er.domain_paths \cup er.boundary_errors
                         \cup er.collapse_owners

IsError(t) == LastSegment(t.name) \in {"Error", "Err"}

\* The first public error type of a file is its incumbent.
ER001(ws) ==
    LET errors == {t \in ws.types : t.visibility = "public" /\ IsError(t)}
    IN  Found("ER001", {t \in errors : t # FirstOf({u \in errors : u.file = t.file})})

\* One wildcard anywhere; error types are paths, so that it stands for a segment or
\* more.
GlobMatches(pattern, type) ==
    LET wilds == {i \in DOMAIN pattern : pattern[i] = Wild}
    IN  IF wilds = {} THEN pattern = type
        ELSE LET first == CHOOSE i \in wilds : \A j \in wilds : i <= j
                 suffix == Len(pattern) - first
             IN  /\ Len(type) >= Len(pattern)
                 /\ SubSeq(type, 1, first - 1) = SubSeq(pattern, 1, first - 1)
                 /\ SubSeq(type, Len(type) - suffix + 1, Len(type))
                        = SubSeq(pattern, first + 1, Len(pattern))

ER002(ws, er) ==
    Found("ER002", {g \in ws.functions :
        /\ ReturnsError(g)
        /\ \E pattern \in er.forbidden_types : GlobMatches(Referent(pattern), Referent(ErrorType(g)))})

\* One finding for every field of a variant that carries a boundary error.
ER003(ws, er) ==
    UNION {UNION {{<<"ER003", t.at, v.name, field>> :
                        field \in {f \in v.fields : In(er.boundary_errors, f)}} : v \in t.variants} :
           t \in {t \in ws.types : /\ t.kind = "enum"
                                   /\ HasModule(ws, t)
                                   /\ In(er.domain_paths, ModuleOf(ws, t))}}

\* A pattern's pieces are its path segments and parentheses: Err first, or Err(.
ErrShaped(pattern) ==
    \/ pattern[1] = "Err"
    \/ \E i \in 2..Len(pattern) : pattern[i] = "(" /\ pattern[i - 1] = "Err"

\* The owner is looked for in the symbol of the function itself.
ER005(ws, er) ==
    IF er.collapse_owners = {} THEN {}
    ELSE Found("ER005", {arm \in ws.arms :
            /\ HasModule(ws, arm)
            /\ arm.wildcard
            /\ ErrShaped(arm.pattern)
            /\ Silent(arm.body)
            /\ ~In(er.collapse_owners, ModuleOf(ws, arm))
            /\ ~(arm.function # NoFunction /\ In(er.collapse_owners, arm.function))})

\* A variant's name belongs to the error enum that had it first.
ER007(ws) ==
    LET errors == {t \in ws.types : t.kind = "enum" /\ IsError(t)}
        Incumbent(name) == FirstOf({t \in errors : \E v \in t.variants : v.name = name})
    IN  UNION {{<<"ER007", t.at, v.name>> : v \in
                    {v \in t.variants : \/ Incumbent(v.name).name # t.name
                                        \/ Incumbent(v.name).file # t.file}} : t \in errors}

ErFindings(ws, lock) == ER001(ws) \cup ER002(ws, lock.ER) \cup ER003(ws, lock.ER)
                            \cup ER005(ws, lock.ER) \cup ER007(ws)

AddErDomainPath(er, pattern) == [er EXCEPT !.domain_paths = @ \cup {pattern}]

-----------------------------------------------------------------------------
(* FL: a failure is handled by its owner *)

FlSection == [domain_paths : SUBSET Chunks, boundary_errors : SUBSET Chunks,
              forbidden_callees : SUBSET Chunks, invariant_owners : SUBSET Chunks,
              discard_callees : SUBSET Chunks, allowed_callees : SUBSET Chunks,
              retry_owners : SUBSET Chunks]
EmptyFl == [domain_paths |-> {}, boundary_errors |-> {},
            forbidden_callees |-> {<<c>> : c \in {"unwrap", "expect", "unwrap_or_default",
                                                  "panic", "todo", "unimplemented"}},
            invariant_owners |-> {},
            discard_callees |-> {<<c>> : c \in {"ok", "err", "unwrap_or_else"}},
            allowed_callees |-> {<<c>> : c \in {"lock", "send", "drop", "set_logger",
                                                "subscribe", "try_init"}},
            retry_owners |-> {}]
FlVacant(fl) == {} = fl.domain_paths \cup fl.boundary_errors \cup fl.invariant_owners
                         \cup fl.retry_owners

\* A bare name contains itself.
ContainingModule(symbol) == IF Len(symbol) > 1 THEN SubSeq(symbol, 1, Len(symbol) - 1) ELSE symbol

InOwner(ws, owners, item, function) ==
    \/ In(owners, ModuleOf(ws, item))
    \/ function # NoFunction /\ In(owners, ContainingModule(function))

\* Most rules: sites of some shape outside of their owners, once those are declared.
OutsideOwner(ws, rule, owners, sites) ==
    IF owners = {} THEN {}
    ELSE Found(rule, {x \in sites : HasModule(ws, x) /\ ~InOwner(ws, owners, x, x.function)})

FL001(ws, fl) ==
    Found("FL001", {g \in ws.functions : /\ HasModule(ws, g)
                                         /\ In(fl.domain_paths, ModuleOf(ws, g))
                                         /\ ReturnsError(g)
                                         /\ In(fl.boundary_errors, ErrorType(g))})

Callee(c) == <<LastSegment(c.callee)>>

FL002(ws, fl) ==
    OutsideOwner(ws, "FL002", fl.invariant_owners,
            {c \in ws.calls : c.kind \in {"method", "meta"} /\ In(fl.forbidden_callees, Callee(c))})

FL003(ws, fl) ==
    OutsideOwner(ws, "FL003", fl.invariant_owners,
            {c \in ws.calls : c.kind = "method" /\ In(fl.discard_callees, Callee(c))})

\* A discarded expression that is no call has no callee.
FL004(ws, fl) ==
    OutsideOwner(ws, "FL004", fl.invariant_owners,
            {d \in ws.discards : d.kind # "other" /\ ~In(fl.allowed_callees, d.callee)})

FL005(ws, fl) == OutsideOwner(ws, "FL005", fl.invariant_owners, ws.partials)

FL006(ws, fl) ==
    OutsideOwner(ws, "FL006", fl.invariant_owners,
            {c \in ws.closures : c.callee = <<"map_err">> /\ c.discards})

\* Err first or as a segment of a path, not inside of another pattern.
TargetsErr(pattern) ==
    \E i \in DOMAIN pattern : pattern[i] = "Err" /\ (i = 1 \/ pattern[i - 1] # "(")

FL007(ws, fl) ==
    OutsideOwner(ws, "FL007", fl.invariant_owners,
            {arm \in ws.arms : arm.wildcard /\ TargetsErr(arm.pattern) /\ Silent(arm.body)})

FL010(ws, fl) ==
    OutsideOwner(ws, "FL010", fl.invariant_owners,
            {c \in ws.fallbacks : /\ c.callee \in {<<"unwrap_or">>, <<"or">>}
                                  /\ c.default \in {"literal", "call"}})

\* Alone, or with a guard or a binding.
BareWildcard(pattern) ==
    pattern[1] = "_" /\ (Len(pattern) > 1 => pattern[2] \in {"if", "@"})

FL011(ws, fl) ==
    OutsideOwner(ws, "FL011", fl.invariant_owners,
            {arm \in ws.arms : BareWildcard(arm.pattern) /\ Silent(arm.body)})

FL012(ws, fl) ==
    OutsideOwner(ws, "FL012", fl.retry_owners, {l \in ws.loops : l.propagates /\ l.break})

\* A function whose errors are strings and that makes one.
FL013(ws, fl) ==
    IF fl.invariant_owners = {} THEN {}
    ELSE Found("FL013", {g \in ws.functions :
            /\ HasModule(ws, g)
            /\ ReturnsError(g)
            /\ Referent(ErrorType(g)) \in {<<"String">>, <<"str">>}
            /\ ~InOwner(ws, fl.invariant_owners, g, g.symbol)
            /\ \E c \in ws.calls : /\ c.file = g.file
                                   /\ c.function = g.symbol
                                   /\ LastSegment(c.callee) \in {"to_string", "format!", "format", "display"}})

FlFindings(ws, lock) ==
    FL001(ws, lock.FL) \cup FL002(ws, lock.FL) \cup FL003(ws, lock.FL) \cup FL004(ws, lock.FL)
        \cup FL005(ws, lock.FL) \cup FL006(ws, lock.FL) \cup FL007(ws, lock.FL) \cup FL010(ws, lock.FL)
        \cup FL011(ws, lock.FL) \cup FL012(ws, lock.FL) \cup FL013(ws, lock.FL)

AddFlDomainPath(fl, pattern) == [fl EXCEPT !.domain_paths = @ \cup {pattern}]
AddBoundaryError(fl, pattern) == [fl EXCEPT !.boundary_errors = @ \cup {pattern}]
=============================================================================
