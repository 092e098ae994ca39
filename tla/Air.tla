--------------------------------- MODULE Air ---------------------------------
(***************************************************************************)
(* A scanned workspace as the paradigm rules see it (AIR), and the two     *)
(* lookups most rules share.  Names are sequences of the pieces that name  *)
(* patterns tell apart, paths sequences of segments.  The items of one     *)
(* kind form a set; `at` is an item's place in the scan, one number per    *)
(* item, and stands for its span.                                          *)
(*                                                                         *)
(* Type texts are the set of path-like tokens in them (a field's also the  *)
(* pieces of its text), documentation the kinds of its tokens in order.    *)
(* A function's `result` holds the arguments of an outermost Result<..>.   *)
(* Confidences and reasons are text for the reader and left out.           *)
(***************************************************************************)
EXTENDS ModulePatterns, FiniteSets

CONSTANT Text           \* texts: pieces of names, segments of paths

\* The segments that locus itself puts into patterns.
ASSUME TextAssumption == {Wild, "api"} \subseteq Text

Chunks == Seq(Text)     \* a name, or a path

\* module_path is None; the rules that read it as "" see Empty.
NoModule == <<>>
\* An item outside of any function, an impl without an interface, a fact without
\* evidence.
NoFunction == <<>>
NoInterface == <<>>
NoEvidence == <<>>

AirFile == [module : Chunks, stem : Text, lines : Nat,
            hints : SUBSET {"canonical", "boundary", "converter", "marks"}]

TypeKind == {"struct", "enum", "alias", "union", "trait"}
Visibility == {"public", "module", "restricted", "private"}
AirField == [name : Chunks, text : Chunks, tokens : SUBSET Chunks, visibility : Visibility]
Decorator == [source : {"derive", "attribute", "decorator", "annotation"},
              name : Chunks, args : SUBSET Text]
\* A follow-up marker stands alone or with an owner: "TODO:" and "TODO(alice):".
DocToken == {"word", "phrase", "marker", "owned_marker", "mark", "issue", "url"}

AirType == [at : Nat, file : Text, kind : TypeKind, name : Chunks, symbol : Chunks,
            visibility : Visibility, fields : SUBSET AirField,
            variants : SUBSET [name : Text, fields : SUBSET Chunks],
            decorators : SUBSET Decorator, doc : Seq(DocToken)]

AirFunction == [at : Nat, file : Text, name : Chunks, symbol : Chunks, visibility : Visibility,
                params : Seq(SUBSET Chunks), returns : SUBSET Chunks, result : Seq(Chunks), lines : Nat,
                decorators : SUBSET Decorator, doc : Seq(DocToken)]

AirImplBlock == [at : Nat, file : Text, interface : Chunks, target : Chunks, methods : SUBSET Text,
                 dispatch : {"static", "structural", "dynamic"}, lines : Nat]

Mechanism == {"infallible_adapter", "fallible_adapter", "instance_method",
              "free_function", "factory_function"}
AirConversion == [at : Nat, file : Text, from : Chunks, to : Chunks,
                  mechanism : Mechanism, symbol : Chunks]

ActionKind == {"construct", "discriminated_match", "string_compare", "validate", "normalize"}
AirTruthAction == [at : Nat, file : Text, action : ActionKind, target : Chunks, function : Chunks]

AirCallSite == [at : Nat, file : Text, callee : Chunks, kind : {"function", "method", "meta"},
                function : Chunks]

AirSilentDiscard == [at : Nat, file : Text, callee : Chunks,
                     kind : {"method", "function", "meta", "other"}, function : Chunks]

AirPartialResultMatch == [at : Nat, file : Text, variant : {"success", "failure"}, function : Chunks]

BodyShape == {"empty", "literal", "call", "return", "error_propagation", "block", "other"}
AirMatchArm == [at : Nat, file : Text, scrutinee : Text, pattern : Chunks, wildcard : BOOLEAN,
                body : BodyShape, function : Chunks]

AirClosureMethodCall == [at : Nat, file : Text, callee : Chunks, discards : BOOLEAN,
                         body : BodyShape, function : Chunks]

AirFallbackCall == [at : Nat, file : Text, pattern : {"value_or", "or", "default_or"},
                    callee : Chunks, default : BodyShape, function : Chunks]

AirRetryLoop == [at : Nat, file : Text, kind : {"loop", "for", "while"}, propagates : BOOLEAN,
                 break : BOOLEAN, function : Chunks]

AirScrutineeLiteral == [at : Nat, file : Text, value : Chunks, kind : {"str", "int", "float", "bool"},
                        context : {"match_arm", "binary_compare"}, function : Chunks]

FactKind == {"spawned_work", "config_read", "logging", "external_io", "persistence_write",
             "blocking_call", "hot_path", "request_context", "boundary_entry",
             "runtime_state_owner", "background_worker"}
\* The target: a function of the symbol, a file, or a span of a file.
FactScope == {"function", "file", "span"}
AirFact == [at : Nat, kind : FactKind, scope : FactScope, symbol : Chunks, file : Text,
            evidence : Chunks]

AirImport == [at : Nat, file : Text, path : Chunks, visibility : Visibility]

Items == {"types", "functions", "impls", "conversions", "actions", "calls", "discards",
          "partials", "arms", "closures", "fallbacks", "loops", "literals", "imports"}

\* A file belongs to a package; of those only the names count.  A scan is finite.
IsWorkspace(ws) ==
    /\ ws.packages \subseteq Text
    /\ \A id \in DOMAIN ws.files : ws.files[id] \in AirFile
    /\ ws.types \subseteq AirType
    /\ ws.functions \subseteq AirFunction
    /\ ws.impls \subseteq AirImplBlock
    /\ ws.conversions \subseteq AirConversion
    /\ ws.actions \subseteq AirTruthAction
    /\ ws.calls \subseteq AirCallSite
    /\ ws.discards \subseteq AirSilentDiscard
    /\ ws.partials \subseteq AirPartialResultMatch
    /\ ws.arms \subseteq AirMatchArm
    /\ ws.closures \subseteq AirClosureMethodCall
    /\ ws.fallbacks \subseteq AirFallbackCall
    /\ ws.loops \subseteq AirRetryLoop
    /\ ws.literals \subseteq AirScrutineeLiteral
    /\ ws.imports \subseteq AirImport
    /\ ws.facts \subseteq AirFact
    /\ \A kind \in Items : \A item \in ws[kind] : item.file \in DOMAIN ws.files
    /\ IsFiniteSet(DOMAIN ws.files)
    /\ \A kind \in Items \cup {"facts"} :
        IsFiniteSet(ws[kind]) /\ \A x, y \in ws[kind] : x.at = y.at => x = y

-----------------------------------------------------------------------------
(* Lookups *)

ModuleOf(ws, item) == ws.files[item.file].module
HasModule(ws, item) == ModuleOf(ws, item) # NoModule
OrEmpty(module) == IF module = NoModule THEN Empty ELSE module

\* A list of patterns of which only whether one matches counts.
In(patterns, path) == \E pattern \in patterns : Matches(pattern, path)

LastSegment(path) == path[Len(path)]

\* What was scanned first.
FirstOf(items) == CHOOSE x \in items : \A y \in items : x.at <= y.at

\* The module of the function a fact is about, NoModule when there is none.
HomeOf(ws, symbol) ==
    LET named == {f \in ws.functions : f.symbol = symbol}
    IN  IF named = {} THEN NoModule ELSE ModuleOf(ws, FirstOf(named))

\* The facts of some kinds about functions found in a module, by the place of the
\* module or, if the rule looks at it too, of the symbol.
FactsAbout(ws, kinds) ==
    {fact \in ws.facts : /\ fact.kind \in kinds
                         /\ fact.scope = "function"
                         /\ HomeOf(ws, fact.symbol) # NoModule}

FactIn(ws, fact, patterns) ==
    In(patterns, HomeOf(ws, fact.symbol)) \/ In(patterns, fact.symbol)

\* The matchers of the sections that know wildcards at the end only.
PrefixMatches(pattern, path) ==
    \/ pattern = <<Wild>>
    \/ pattern = path
    \/ /\ TrailingWild(pattern)
       /\ LET prefix == SubSeq(pattern, 1, Len(pattern) - 1)
          IN  Len(prefix) <= Len(path) /\ SubSeq(path, 1, Len(prefix)) = prefix

InByPrefix(patterns, path) == \E pattern \in patterns : PrefixMatches(pattern, path)

Unset == -1                     \* an Option<u32> that is None
Or(value, default) == IF value = Unset THEN default ELSE value
OrDefault(patterns, defaults) == IF patterns = {} THEN defaults ELSE patterns

\* What the commands require of a pattern they add to a list.
CanAdd(pattern) == pattern # Empty

\* A finding: the rule and what it is about.
Found(rule, items) == {<<rule, x.at>> : x \in items}
=============================================================================
