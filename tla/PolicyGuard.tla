----------------------------- MODULE PolicyGuard -----------------------------
(***************************************************************************)
(* The life of a policy under Policy Guard: a developer (or an agent) on a *)
(* branch edits .locus/lock.json with the cx / mo / init commands and by   *)
(* hand, `locus check` compares it with the lockfile of the baseline       *)
(* branch, and what passes is merged and becomes the next baseline.        *)
(***************************************************************************)
EXTENDS PolicyAudit

CONSTANTS
    Commanded,       \* budgets with set-default and add-override commands
    MaxBudget,       \* bound: budgets are 1 .. MaxBudget
    MaxOverrides,    \* bound: overrides of one budget
    MaxEdits,        \* bound: edits in one behaviour
    InitialPolicies  \* lockfiles the baseline branch may start with

ASSUME CommandAssumption == Commanded \subseteq Budget
ASSUME BoundAssumption ==
    MaxBudget \in Nat /\ MaxOverrides \in Nat /\ MaxEdits \in Nat
ASSUME InitialAssumption == \A pol \in InitialPolicies : pol \in Policy /\ Consistent(pol)

VARIABLES
    main,       \* the lockfile on the baseline branch
    work,       \* the lockfile in the working tree
    edits,      \* edits made so far (a bound)
    granted,    \* history: exemptions there at the start or calibrated since
    lapsed      \* history: a merge dropped a section or was let off the audit

vars == <<main, work, edits, granted, lapsed>>

Value == 1..MaxBudget

Init ==
    /\ main \in InitialPolicies
    /\ work = main
    /\ edits = 0
    /\ granted = Exemptions(main)
    /\ lapsed = FALSE

Edit(pol) ==
    /\ edits < MaxEdits
    /\ work' = pol
    /\ edits' = edits + 1
    /\ UNCHANGED <<main, granted, lapsed>>

-----------------------------------------------------------------------------
(* Commands.  Each writes the whole section back, which makes it explicit. *)

\* A slip in set-default: the section is put back under a copied prefix.
MutCopiedPrefix(b, n) ==
    Edit([work EXCEPT !.explicit = @ \cup {ConverterSection}, !.budget[b] = n])

\* locus cx | mo set-default
SetDefault(b, n) ==
    Edit([work EXCEPT !.explicit = @ \cup {SectionOf[b]}, !.budget[b] = n])

\* locus cx | mo add-override: a new pattern goes to the end, without debt
\* metadata; a known one is refused, or with --force gets the new budget.
AddOverride(b, p, n, force) ==
    LET list == work.overrides[b]
        known == Hits(list, {p}) # {}
        new  == IF known THEN [list EXCEPT ![FirstHit(list, {p})].max = n]
                ELSE Append(list, [module |-> p, max |-> n, debt |-> "bare"])
    IN  /\ known => force
        /\ Len(new) <= MaxOverrides
        /\ Edit([work EXCEPT !.explicit = @ \cup {SectionOf[b]}, !.overrides[b] = new])

\* locus init --acknowledge-empty: a bare entry, unless the prefix is there.
AcknowledgeEmpty(p) ==
    /\ work.acknowledged[p] = "absent"
    /\ Edit([work EXCEPT !.acknowledged[p] = "bare"])

-----------------------------------------------------------------------------
(* Edits by hand *)

\* A new override anywhere in the list, even of a pattern it already has.
InsertOverride(b) ==
    LET list == work.overrides[b] IN
    /\ Len(list) < MaxOverrides
    /\ \E o \in [module : Pattern, max : Value, debt : Debt], k \in 0..Len(list) :
        Edit([work EXCEPT !.explicit = @ \cup {SectionOf[b]},
              !.overrides[b] = SubSeq(list, 1, k) \o <<o>> \o SubSeq(list, k + 1, Len(list))])

ChangeOverride(b) ==
    \E i \in DOMAIN work.overrides[b], n \in Value, d \in Debt :
        LET o == work.overrides[b][i] IN
        Edit([work EXCEPT !.overrides[b] = [work.overrides[b] EXCEPT
                ![i] = [module |-> o.module, max |-> n, debt |-> d]]])

RemoveOverride(b) ==
    LET list == work.overrides[b] IN
    \E i \in DOMAIN list :
        Edit([work EXCEPT !.overrides[b] =
                SubSeq(list, 1, i - 1) \o SubSeq(list, i + 1, Len(list))])

\* Entries of exempt_paths, acknowledged_empty and converter_paths come, go,
\* and gain or lose their metadata.
ChangeExempt(x) ==
    \E p \in Pattern, e \in Entry :
        Edit([work EXCEPT !.explicit = @ \cup {x},
              !.exempt[x] = [work.exempt[x] EXCEPT ![p] = e]])

ChangeAcknowledged ==
    \E p \in Prefix, e \in Entry : Edit([work EXCEPT !.acknowledged[p] = e])

ChangeConverterPaths ==
    \E ps \in SUBSET Converters :
        Edit([work EXCEPT !.explicit = @ \cup {ConverterSection}, !.converter_paths = ps])

\* The section is deleted, or damaged so that it no longer parses.
DropSection(s) ==
    /\ s \in work.explicit
    /\ Edit([work EXCEPT
         !.explicit  = @ \ {s},
         !.budget    = [b \in Budget |-> IF SectionOf[b] = s THEN Unset ELSE work.budget[b]],
         !.overrides = [b \in Budget |-> IF SectionOf[b] = s THEN <<>> ELSE work.overrides[b]],
         !.exempt    = [x \in ExemptSection |->
                            IF x = s THEN DefaultEntries(x) ELSE work.exempt[x]],
         !.converter_paths = IF s = ConverterSection THEN {} ELSE work.converter_paths])

\* git checkout: the branch starts over.
Revert ==
    /\ work # main
    /\ work' = main
    /\ UNCHANGED <<main, edits, granted, lapsed>>

-----------------------------------------------------------------------------
(* The gate: `locus check --agent-strict`, and the merge if it passes *)

\* The baseline lockfile is read; --allow-policy-calibration may be given.
Merge(calibration) ==
    /\ work # main
    /\ Passes(Fired(work, main), "agent_strict", calibration)
    /\ main' = work
    /\ granted' = IF calibration
                  THEN granted \cup (Exemptions(work) \ Unjustified(work))
                  ELSE granted
    /\ lapsed' = (lapsed \/ ~KeepsSections(work, main))
    /\ UNCHANGED <<work, edits>>

\* The baseline cannot be read (a shallow clone, a missing ref), and
\* --allow-missing-policy-baseline accepts that or not.
MergeUnaudited(calibration, allow_missing) ==
    /\ work # main
    /\ Passes(FiredWithoutBaseline(allow_missing), "agent_strict", calibration)
    /\ main' = work
    /\ lapsed' = (lapsed \/ allow_missing)
    /\ UNCHANGED <<work, edits, granted>>

Command ==
    \/ \E b \in Commanded, n \in Value : SetDefault(b, n)
    \/ \E b \in Commanded, p \in Pattern, n \in Value, force \in BOOLEAN :
            AddOverride(b, p, n, force)
    \/ \E p \in Prefix : AcknowledgeEmpty(p)

HandEdit ==
    \/ \E b \in Commanded : InsertOverride(b) \/ ChangeOverride(b) \/ RemoveOverride(b)
    \/ \E x \in ExemptSection : ChangeExempt(x)
    \/ ChangeAcknowledged
    \/ ChangeConverterPaths
    \/ \E s \in Section : DropSection(s)

Next ==
    \/ Command \/ HandEdit \/ Revert
    \/ \E calibration \in BOOLEAN : Merge(calibration)
    \/ \E calibration, allow \in BOOLEAN : MergeUnaudited(calibration, allow)

Spec == Init /\ [][Next]_vars

-----------------------------------------------------------------------------
(* Properties *)

\* Every variable stays in its type, and an absent section stays empty.
TypeOK ==
    /\ main \in Policy /\ Consistent(main)
    /\ work \in Policy /\ Consistent(work)
    /\ edits \in Nat
    /\ lapsed \in BOOLEAN

\* The ratchet: a merge that the strict gate let through without calibration
\* raises no module's effective budget and exempts nothing new, as long as it
\* keeps the sections of the baseline and the order of its overrides.  The
\* audit compares fields and patterns; the rules apply the first override that
\* matches a module.  This says that the one protects the other.
StrictMergeNeverWidens ==
    [][Merge(FALSE) /\ KeepsSections(work, main) /\ KeepsOverrides(work, main)
        => NotWider(main', main)]_vars

\* However many merges it took: until a merge drops a section, or is let off the
\* audit by --allow-missing-policy-baseline, whatever is exempt on the baseline
\* branch was there at the start or entered in a calibrated merge, with its debt
\* metadata.  A baseline that cannot be read excuses nothing by itself.
NothingUngranted == lapsed \/ Exemptions(main) \subseteq granted
=============================================================================
