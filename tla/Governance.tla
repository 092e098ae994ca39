------------------------------ MODULE Governance ------------------------------
(***************************************************************************)
(* The governance pipeline of locus-core: what registered rules observe    *)
(* and what legacy paradigms report become findings, four policies decide  *)
(* about them, decisions become diagnostics.  The module is pure.          *)
(*                                                                         *)
(* A finding's id is its place in the store: the minter counts, and every  *)
(* minted id is inserted.  Messages, rationales and suggested fixes are    *)
(* `text`, which holds what tells two of them apart.  Where a policy adds  *)
(* findings in the order of a BTreeMap, some fixed order is used: nothing  *)
(* depends on which.                                                       *)
(***************************************************************************)
EXTENDS Naturals, SequencesExt

CONSTANTS
    Registered,     \* rule ids in RuleRegistry
    Paradigm,       \* prefixes in ParadigmRegistry
    ParadigmOf,     \* ParadigmOf[r]: the paradigm a registered rule names
    Listed,         \* pairs <<p, r>>: paradigm p lists rule r
    GovernanceCode  \* codes in GovernanceDiagnosticRegistry

ASSUME RegistryAssumption ==
    /\ IsFiniteSet(Registered) /\ IsFiniteSet(Listed)
    /\ ParadigmOf \in [Registered -> STRING]
    /\ {"LOCUS001", "LOCUS002", "LOCUS003", "LOCUS004", "LOCUS005"} \subseteq GovernanceCode

\* PolicyRegistry::standard, in the order the policies run.
Policies == <<"registry-integrity", "registry-coherence",
              "concept-source-of-truth", "default-pass-through">>

PolicyIds == ToSet(Policies)

\* Findings without a span are rendered with this one.
SyntheticSpan == [file |-> "<governance>", first |-> 0, last |-> 0]

Elevate(mode, severity) ==
    IF mode = "agent_strict" /\ severity = "warning" THEN "fatal" ELSE severity

\* The places in a finite set, in order, and what a sequence has there.
InOrder(places) ==
    [k \in 1..Cardinality(places) |->
        CHOOSE i \in places : Cardinality({j \in places : j < i}) = k - 1]

Picked(seq, places) ==
    LET order == InOrder(places) IN [k \in 1..Cardinality(places) |-> seq[order[k]]]

-----------------------------------------------------------------------------
(* Findings *)

\* owner is the rule, the legacy code or the policy that the source names; code
\* is the diagnostic_code of a policy's finding.
Observed(v) ==
    [source |-> "rule", owner |-> v.rule, paradigm |-> v.paradigm, code |-> "",
     span |-> v.span, severity |-> v.severity, text |-> v.text]

Synthesize(v) ==
    [source |-> "legacy", owner |-> v.rule, paradigm |-> v.paradigm, code |-> "",
     span |-> v.span, severity |-> v.severity, text |-> v.text]

PolicyFinding(policy, code, span, severity, text) ==
    [source |-> "policy", owner |-> policy, paradigm |-> "", code |-> code,
     span |-> span, severity |-> severity, text |-> text]

\* A slip in the legacy adapter: every diagnostic is wrapped.
MutAdaptsAll(v) == TRUE

\* The adapter drops what a registered rule is there to observe.
Adapted(v) == v.rule \notin Registered

\* observe_rules and run_legacy_adapter.
Collect(observed, legacy) ==
    [i \in DOMAIN observed |-> Observed(observed[i])]
    \o LET kept == Picked(legacy, {i \in DOMAIN legacy : Adapted(legacy[i])})
       IN  [i \in DOMAIN kept |-> Synthesize(kept[i])]

Decision(id, policy, severity, status) ==
    [finding |-> id, policy |-> policy, severity |-> severity, status |-> status]

StatusFor(severity) == IF severity = "advisory" THEN "advisory" ELSE "active"

\* What a policy puts out: new findings, minted after those in the store, each
\* with a decision of its own severity.
Announce(store, policy, findings, Status(_)) ==
    [findings  |-> findings,
     decisions |-> [i \in DOMAIN findings |->
        Decision(Len(store) + i, policy, findings[i].severity, Status(findings[i].severity))]]

-----------------------------------------------------------------------------
(* The policies *)

\* One LOCUS003 per legacy code that awaits migration.
LegacyCodes(store) ==
    {store[i].owner : i \in {j \in DOMAIN store : store[j].source = "legacy"}}
        \ GovernanceCode

IntegrityFindings(store) ==
    LET codes == SetToSeq(LegacyCodes(store))
    IN  [i \in DOMAIN codes |->
            PolicyFinding("registry-integrity", "LOCUS003", SyntheticSpan, "advisory",
                          <<"legacy", codes[i]>>)]

\* One LOCUS004 per drift between .locus/arch.json and the registries, and among
\* the registries: one for each rule that a paradigm lists in vain.
Drifts(arch) ==
    (CASE arch.status = "missing" -> {<<"declaration", "missing">>}
       [] arch.status = "invalid" -> {<<"declaration", "unparseable">>}
       [] arch.status = "present" ->
            {<<"not registered", p>> : p \in arch.policies \ PolicyIds}
            \cup {<<"not declared", p>> : p \in PolicyIds \ arch.policies})
    \cup {<<"unknown paradigm", r>> : r \in {s \in Registered : ParadigmOf[s] \notin Paradigm}}
    \cup {<<"unknown rule", l[1], l[2]>> :
            l \in {k \in Listed : k[1] \in Paradigm /\ k[2] \notin Registered}}

CoherenceFindings(arch) ==
    LET drifts == SetToSeq(Drifts(arch))
    IN  [i \in DOMAIN drifts |->
            PolicyFinding("registry-coherence", "LOCUS004", SyntheticSpan, "advisory", drifts[i])]

\* The identifier by which a finding bypasses a declared concept, or "".  Every
\* code a policy sets has the shape LOCUSddd, so that the test of the shape in
\* check_governance_code is always passed.
Bypass(concept, f) ==
    CASE f.source = "legacy" -> ""
      [] concept = "rule" /\ f.source = "rule" /\ f.owner \notin Registered -> f.owner
      [] concept = "paradigm" /\ f.paradigm # "" /\ f.paradigm \notin Paradigm -> f.paradigm
      [] concept = "policy" /\ f.source = "policy" /\ f.owner \notin PolicyIds -> f.owner
      [] concept = "governance-code" /\ f.code # "" /\ f.code \notin GovernanceCode -> f.code
      [] OTHER -> ""

Concepts == {"rule", "paradigm", "policy", "governance-code"}

\* An identifier that bypasses a concept, or <<c, "<declaration>">> for a concept that is
\* not known.  Of the declarations of a concept the first is heeded.
Bypasses(store, concepts) ==
    LET keys(c) == IF c.id \in Concepts
                   THEN {Bypass(c.id, store[i]) : i \in DOMAIN store} \ {""}
                   ELSE {"<declaration>"}
        first   == {k \in DOMAIN concepts : \A j \in 1..(k - 1) : concepts[j].id # concepts[k].id}
    IN  UNION {{concepts[k]} \X keys(concepts[k]) : k \in first}

BypassSpan(store, c, key) ==
    IF c.id \in Concepts
    THEN store[Min({i \in DOMAIN store : Bypass(c.id, store[i]) = key})].span
    ELSE SyntheticSpan

BypassSeverity(c, mode) ==
    IF c.id \in Concepts /\ c.enforcement = "enforced" THEN Elevate(mode, "warning") ELSE "advisory"

\* One LOCUS005 for each of them, at the span of the first finding.
ConceptFindings(store, arch, mode) ==
    LET found == SetToSeq(IF arch.status = "present" THEN Bypasses(store, arch.concepts) ELSE {})
    IN  [k \in DOMAIN found |->
            LET c == found[k][1]  key == found[k][2] IN
            PolicyFinding("concept-source-of-truth", "LOCUS005", BypassSpan(store, c, key),
                          BypassSeverity(c, mode), <<c.id, key>>)]

\* A slip in default-pass-through: prior decisions are not looked at.
MutUndecided(store, decisions) == DOMAIN store

Undecided(store, decisions) ==
    DOMAIN store \ {decisions[k].finding : k \in DOMAIN decisions}

PassThrough(store, decisions) ==
    LET ids == InOrder(Undecided(store, decisions))
    IN  [findings  |-> <<>>,
         decisions |-> [k \in DOMAIN ids |->
            Decision(ids[k], "default-pass-through", store[ids[k]].severity,
                     StatusFor(store[ids[k]].severity))]]

Decide(policy, store, decisions, arch, mode) ==
    CASE policy = "registry-integrity" ->
            Announce(store, policy, IntegrityFindings(store), LAMBDA s : "known_transition_debt")
      [] policy = "registry-coherence" ->
            Announce(store, policy, CoherenceFindings(arch), LAMBDA s : "known_transition_debt")
      [] policy = "concept-source-of-truth" ->
            Announce(store, policy, ConceptFindings(store, arch, mode), StatusFor)
      [] policy = "default-pass-through" -> PassThrough(store, decisions)

-----------------------------------------------------------------------------
(* The end of the pipeline *)

\* validate_decisions: the program panics unless this holds.
Valid(store, decisions) ==
    /\ \A j, k \in DOMAIN decisions : decisions[j].finding = decisions[k].finding => j = k
    /\ Undecided(store, decisions) = {}

\* A slip in emitted_rule_code: the source's own name is displayed.
MutSourceIsCode(store, d) ==
    LET f == store[d.finding]
    IN  [rule |-> f.owner,
         file |-> f.span.file, first |-> f.span.first, last |-> f.span.last,
         severity |-> d.severity, text |-> f.text]

Materialize(store, d) ==
    LET f == store[d.finding]
    IN  [rule |-> IF f.code # "" THEN f.code ELSE f.owner,
         file |-> f.span.file, first |-> f.span.first, last |-> f.span.last,
         severity |-> d.severity, text |-> f.text]

Suppressing == {"suppressed_by_policy", "accepted_exception"}

\* The diagnostics, each with the place of the decision that produced it.
Records(store, decisions) ==
    LET emitted == InOrder({k \in DOMAIN decisions : decisions[k].status \notin Suppressing})
    IN  [i \in DOMAIN emitted |->
            [diag |-> Materialize(store, decisions[emitted[i]]), decision |-> emitted[i]]]
=============================================================================
