----------------------------- MODULE PolicyAudit -----------------------------
(***************************************************************************)
(* Policy Guard (policy_guard.rs): what `locus check` reports when the     *)
(* lockfile of the working tree is laid beside the one of the baseline.    *)
(* The module is pure.                                                     *)
(*                                                                         *)
(* A policy is the part of the lockfile that decides how strict the rules  *)
(* are: numeric budgets, their per-module overrides, exempt paths,         *)
(* paradigms acknowledged empty and OT converter paths.  The CX and MO     *)
(* sections are treated alike by the code, so budgets are indexed by the   *)
(* name of their field.  A section that is missing, or does not parse, is  *)
(* read as its default by the rules, and is not `explicit`.                *)
(***************************************************************************)
EXTENDS Naturals, Sequences

CONSTANTS
    Section,        \* paradigm prefixes that own a section
    Budget,         \* numeric fields (default_max_function_lines, ...)
    SectionOf,      \* SectionOf[b]: the section a field belongs to
    Fallback,       \* Fallback[b]: what the rules use when it is not set
    Unset,          \* None
    Pattern,        \* module patterns of overrides and exempt paths
    Module,         \* module paths
    Matches,        \* pairs <<pattern, module>> of matches_pattern
    ExemptSection,  \* the sections with exempt_paths
    ExemptNeedsDebt,\* ... whose entries can carry debt metadata
    DefaultExempt,  \* DefaultExempt[x]: the patterns of an absent section
    Prefix,         \* prefixes acknowledged_empty may name
    Converters,     \* OT converter_paths patterns
    ConverterSection

ASSUME BudgetAssumption ==
    /\ SectionOf \in [Budget -> Section]
    /\ Fallback \in [Budget -> Nat]
    /\ Unset \notin Nat
ASSUME MatchAssumption  == Matches \subseteq Pattern \X Module
ASSUME ExemptAssumption ==
    /\ ExemptSection \subseteq Section
    /\ ExemptNeedsDebt \subseteq ExemptSection
    /\ DefaultExempt \in [ExemptSection -> SUBSET Pattern]
ASSUME ConverterAssumption == ConverterSection \in Section

-----------------------------------------------------------------------------
(* Types *)

\* "justified": reason, expires and owner are all there and not empty.
Debt == {"bare", "justified"}

Entry == Debt \cup {"absent"}

Override == [module : Pattern, max : Nat, debt : Debt]

Policy ==
    [explicit        : SUBSET Section,
     budget          : [Budget -> Nat \cup {Unset}],
     overrides       : [Budget -> Seq(Override)],
     exempt          : [ExemptSection -> [Pattern -> Entry]],
     acknowledged    : [Prefix -> Entry],
     converter_paths : SUBSET Converters]

\* An absent section has its default patterns, in the bare form.
DefaultEntries(x) == [p \in Pattern |-> IF p \in DefaultExempt[x] THEN "bare" ELSE "absent"]

EmptyPolicy ==
    [explicit        |-> {},
     budget          |-> [b \in Budget |-> Unset],
     overrides       |-> [b \in Budget |-> <<>>],
     exempt          |-> [x \in ExemptSection |-> DefaultEntries(x)],
     acknowledged    |-> [p \in Prefix |-> "absent"],
     converter_paths |-> {}]

\* A section that is not there reads as its default.
Consistent(pol) ==
    /\ \A b \in Budget : SectionOf[b] \notin pol.explicit =>
            pol.budget[b] = Unset /\ pol.overrides[b] = <<>>
    /\ \A x \in ExemptSection \ pol.explicit : pol.exempt[x] = DefaultEntries(x)
    /\ ConverterSection \notin pol.explicit => pol.converter_paths = {}

-----------------------------------------------------------------------------
(* What a policy means to the rules *)

\* Vec::find: the first override whose pattern is among pats.
Hits(list, pats)     == {i \in DOMAIN list : list[i].module \in pats}
FirstHit(list, pats) == CHOOSE i \in Hits(list, pats) :
                            \A j \in Hits(list, pats) : i <= j

Covering(m) == {p \in Pattern : <<p, m>> \in Matches}

EffectiveDefault(pol, b) ==
    IF pol.budget[b] = Unset THEN Fallback[b] ELSE pol.budget[b]

\* The budget a rule such as CX001 holds module m to.
Effective(pol, b, m) ==
    LET list == pol.overrides[b] IN
    IF Hits(list, Covering(m)) = {} THEN EffectiveDefault(pol, b)
    ELSE list[FirstHit(list, Covering(m))].max

-----------------------------------------------------------------------------
(* The audit.  A section that the current lockfile does not set explicitly *)
(* is not audited; one the baseline does not set is compared as default.   *)

Audited(cur, b) == SectionOf[b] \in cur.explicit

\* A slip in diff_optional_budget: a default that was not set is no baseline.
MutUnsetIsNoBaseline(cur, base) ==
    {b \in Budget : /\ Audited(cur, b)
                    /\ base.budget[b] # Unset
                    /\ EffectiveDefault(cur, b) > EffectiveDefault(base, b)}

RaisedDefaults(cur, base) ==
    {b \in Budget : /\ Audited(cur, b)
                    /\ EffectiveDefault(cur, b) > EffectiveDefault(base, b)}

\* Overrides are identified by their pattern; the baseline's first one counts.
Listed(cur, base, b, i) ==
    Hits(base.overrides[b], {cur.overrides[b][i].module}) # {}

BaselineMax(cur, base, b, i) ==
    LET list == base.overrides[b]
    IN  list[FirstHit(list, {cur.overrides[b][i].module})].max

\* The overrides under audit, by field and position.
Positions(cur) ==
    UNION {{b} \X DOMAIN cur.overrides[b] : b \in {c \in Budget : Audited(cur, c)}}

RaisedOverrides(cur, base) ==
    {x \in Positions(cur) :
        /\ Listed(cur, base, x[1], x[2])
        /\ cur.overrides[x[1]][x[2]].max > BaselineMax(cur, base, x[1], x[2])}

NewOverrides(cur, base) ==
    {x \in Positions(cur) : ~Listed(cur, base, x[1], x[2])}

BareOverrides(cur, base) ==
    {x \in NewOverrides(cur, base) : cur.overrides[x[1]][x[2]].debt = "bare"}

\* Entries of exempt_paths and acknowledged_empty are identified by pattern.
NewEntries(cur, base) == {p \in DOMAIN cur : cur[p] # "absent" /\ base[p] = "absent"}

BareEntries(cur, base) == {p \in NewEntries(cur, base) : cur[p] = "bare"}

NewExemptPaths(cur, base) ==
    {x \in ExemptSection : /\ x \in cur.explicit
                           /\ NewEntries(cur.exempt[x], base.exempt[x]) # {}}

BareExemptPaths(cur, base) ==
    {x \in ExemptNeedsDebt : /\ x \in cur.explicit
                             /\ BareEntries(cur.exempt[x], base.exempt[x]) # {}}

NewConverterPaths(cur, base) ==
    IF ConverterSection \in cur.explicit
    THEN cur.converter_paths \ base.converter_paths ELSE {}

Rule == {"PG000", "PG001", "PG002", "PG003", "PG004", "PG006", "PG007", "PG008", "PG009"}

\* check_policy_mutation against a baseline: the rules that report something.
Fired(cur, base) ==
    {r \in Rule :
        \/ r = "PG001" /\ (RaisedDefaults(cur, base) # {} \/ RaisedOverrides(cur, base) # {})
        \/ r = "PG002" /\ NewOverrides(cur, base) # {}
        \/ r = "PG006" /\ BareOverrides(cur, base) # {}
        \/ r = "PG003" /\ NewExemptPaths(cur, base) # {}
        \/ r = "PG007" /\ BareExemptPaths(cur, base) # {}
        \/ r = "PG004" /\ NewEntries(cur.acknowledged, base.acknowledged) # {}
        \/ r = "PG009" /\ BareEntries(cur.acknowledged, base.acknowledged) # {}
        \/ r = "PG008" /\ NewConverterPaths(cur, base) # {}}

\* Without a baseline: PG000, unless the gap is accepted on the command line.
FiredWithoutBaseline(allow_missing) == IF allow_missing THEN {} ELSE {"PG000"}

\* Rules that calibration does not turn into advisories.
Strict == {"PG000", "PG006", "PG007", "PG009"}

Elevate(mode) == IF mode = "agent_strict" THEN "fatal" ELSE "warning"

\* A slip in pg_strict_severity: it honours calibration too.
MutMetadataNegotiable(r, mode, calibration) ==
    IF calibration THEN "advisory" ELSE Elevate(mode)

Severity(r, mode, calibration) ==
    IF calibration /\ r \notin Strict THEN "advisory" ELSE Elevate(mode)

\* The check exits with status 0 as far as Policy Guard is concerned.
Passes(fired, mode, calibration) ==
    \A r \in fired : Severity(r, mode, calibration) # "fatal"

-----------------------------------------------------------------------------
(* What the audit is there to protect *)

\* Everything that takes code out of a rule's sight, by name.
Exemptions(pol) ==
    {<<"override", x[1], x[2]>> : x \in
        {y \in Budget \X Pattern : Hits(pol.overrides[y[1]], {y[2]}) # {}}}
    \cup {<<"exempt", x[1], x[2]>> : x \in
            {y \in ExemptSection \X Pattern : pol.exempt[y[1]][y[2]] # "absent"}}
    \cup {<<"acknowledged", "lockfile", p>> : p \in
            {q \in Prefix : pol.acknowledged[q] # "absent"}}
    \cup {<<"converter", ConverterSection, p>> : p \in pol.converter_paths}

\* Those whose kind has room for debt metadata, and that lack it.
Unjustified(pol) ==
    {<<"override", x[1], x[2]>> : x \in
        {y \in Budget \X Pattern : \E i \in Hits(pol.overrides[y[1]], {y[2]}) :
            pol.overrides[y[1]][i].debt = "bare"}}
    \cup {<<"exempt", x[1], x[2]>> : x \in
            {y \in ExemptNeedsDebt \X Pattern : pol.exempt[y[1]][y[2]] = "bare"}}
    \cup {<<"acknowledged", "lockfile", p>> : p \in
            {q \in Prefix : pol.acknowledged[q] = "bare"}}

\* cur still has every section that base set explicitly ...
KeepsSections(cur, base) == base.explicit \subseteq cur.explicit

\* ... and every override of base, in the order in which they are searched.
InOrder(new, old) ==
    \A i, j \in DOMAIN old :
        /\ Hits(new, {old[i].module}) # {}
        /\ FirstHit(old, {old[i].module}) < FirstHit(old, {old[j].module})
             => FirstHit(new, {old[i].module}) < FirstHit(new, {old[j].module})

KeepsOverrides(cur, base) ==
    \A b \in Budget : InOrder(cur.overrides[b], base.overrides[b])

\* No module is held to a higher budget, and nothing new is exempt.
NotWider(cur, base) ==
    /\ \A b \in Budget, m \in Module : Effective(cur, b, m) <= Effective(base, b, m)
    /\ Exemptions(cur) \subseteq Exemptions(base)
=============================================================================
