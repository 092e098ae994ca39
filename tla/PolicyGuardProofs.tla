-------------------------- MODULE PolicyGuardProofs --------------------------
(***************************************************************************)
(* The ratchet of Policy Guard, for any sections, budgets, overrides,      *)
(* patterns and edits: what the audit compares (fields and patterns)       *)
(* protects what the rules use (the first override that matches).          *)
(***************************************************************************)
EXTENDS PolicyGuard, FiniteSetTheorems, WellFoundedInduction, SequenceTheorems, TLAPS

\* A set of numbers has a least element: the CHOOSE of a first hit is not empty-handed.
LEMMA LeastNatural ==
    ASSUME NEW R, R \subseteq Nat, R # {}
    PROVE  \E n \in R : \A m \in R : n <= m
<1> DEFINE less == {p \in Nat \X Nat : p[1] < p[2]}
<1>1. IsWellFoundedOn(less, Nat)
  BY NatLessThanWellFounded DEF OpToRel
<1>2. \A m, n \in R : ~(n <= m) => <<m, n>> \in less
  OBVIOUS
<1> HIDE DEF less
<1> QED BY <1>1, <1>2, WFMin

-----------------------------------------------------------------------------
(* The first hit *)

\* FirstHit returns the position of a hit that no other hit precedes.
LEMMA FirstHitIsFirst ==
    ASSUME NEW list \in Seq(Override), NEW pats, Hits(list, pats) # {}
    PROVE  /\ FirstHit(list, pats) \in Hits(list, pats)
           /\ \A j \in Hits(list, pats) : FirstHit(list, pats) <= j
<1>1. Hits(list, pats) \subseteq Nat
  BY DEF Hits
<1>2. \E i \in Hits(list, pats) : \A j \in Hits(list, pats) : i <= j
  BY <1>1, LeastNatural
<1> QED BY <1>2 DEF FirstHit

\* The search for a module that stops at a position stops there as well when
\* it looks for the pattern found at that position.
LEMMA FirstHitOfItsPattern ==
    ASSUME NEW list \in Seq(Override), NEW pats, Hits(list, pats) # {},
           NEW i, i = FirstHit(list, pats)
    PROVE  /\ i \in DOMAIN list /\ list[i].module \in pats
           /\ Hits(list, {list[i].module}) # {}
           /\ FirstHit(list, {list[i].module}) = i
<1>1. i \in Hits(list, pats) /\ \A j \in Hits(list, pats) : i <= j
  BY FirstHitIsFirst
<1>2. i \in DOMAIN list /\ list[i].module \in pats /\ i \in Nat
  BY <1>1 DEF Hits
<1> DEFINE own == Hits(list, {list[i].module})
<1>3. i \in own /\ own \subseteq Hits(list, pats)
  BY <1>2 DEF Hits
<1>4. FirstHit(list, {list[i].module}) \in own
      /\ FirstHit(list, {list[i].module}) <= i
  BY <1>3, FirstHitIsFirst
<1>5. i <= FirstHit(list, {list[i].module})
  BY <1>1, <1>3, <1>4
<1>6. own \subseteq Nat
  BY DEF Hits
<1>7. FirstHit(list, {list[i].module}) \in Nat
  BY <1>4, <1>6
<1>8. FirstHit(list, {list[i].module}) = i
  BY <1>2, <1>4, <1>5, <1>7
<1> QED BY <1>2, <1>3, <1>8

\* Let every override of one list be found in an older one with a budget that
\* is no lower, and the older one's overrides in the list, in their order.
\* Then a search stops in both lists or in none, and not at a higher budget.
LEMMA FirstMatchNotRaised ==
    ASSUME NEW old \in Seq(Override), NEW new \in Seq(Override), NEW pats,
           InOrder(new, old),
           \A k \in DOMAIN new :
                /\ Hits(old, {new[k].module}) # {}
                /\ new[k].max <= old[FirstHit(old, {new[k].module})].max
    PROVE  /\ Hits(new, pats) = {} <=> Hits(old, pats) = {}
           /\ Hits(new, pats) # {} =>
                new[FirstHit(new, pats)].max <= old[FirstHit(old, pats)].max
<1>1. ASSUME NEW i \in Hits(old, pats) PROVE Hits(new, pats) # {}
  <2>1. i \in DOMAIN old /\ old[i].module \in pats
    BY <1>1 DEF Hits
  <2>2. Hits(new, {old[i].module}) # {}
    BY <2>1 DEF InOrder
  <2> QED BY <2>1, <2>2 DEF Hits
<1>2. ASSUME NEW k \in Hits(new, pats) PROVE Hits(old, pats) # {}
  <2>1. k \in DOMAIN new /\ new[k].module \in pats
    BY <1>2 DEF Hits
  <2>2. Hits(old, {new[k].module}) # {}
    BY <2>1
  <2> QED BY <2>1, <2>2 DEF Hits
<1>3. ASSUME Hits(new, pats) # {}
      PROVE  new[FirstHit(new, pats)].max <= old[FirstHit(old, pats)].max
  <2>1. PICK k : k = FirstHit(new, pats)
    OBVIOUS
  <2>2. PICK i : i = FirstHit(old, pats)
    OBVIOUS
  <2>3. Hits(old, pats) # {}
    BY <1>2, <1>3
  <2>4. /\ k \in DOMAIN new /\ new[k].module \in pats
        /\ FirstHit(new, {new[k].module}) = k
        /\ \A j \in Hits(new, pats) : k <= j
    BY <1>3, <2>1, FirstHitOfItsPattern, FirstHitIsFirst
  <2>5. /\ i \in DOMAIN old /\ old[i].module \in pats
        /\ FirstHit(old, {old[i].module}) = i
        /\ \A j \in Hits(old, pats) : i <= j
    BY <2>2, <2>3, FirstHitOfItsPattern, FirstHitIsFirst
  <2>6. PICK j : j = FirstHit(old, {new[k].module})
    OBVIOUS
  <2>7. Hits(old, {new[k].module}) # {} /\ new[k].max <= old[j].max
    BY <2>4, <2>6
  <2>8. j \in DOMAIN old /\ old[j].module = new[k].module
    BY <2>6, <2>7, FirstHitIsFirst DEF Hits
  <2>9. i <= j
    BY <2>4, <2>5, <2>8 DEF Hits
  <2>10. i \in Nat /\ j \in Nat /\ k \in Nat
    BY <2>4, <2>5, <2>8
  <2>11. new[k].module = old[i].module
    <3>1. SUFFICES ASSUME new[k].module # old[i].module PROVE FALSE
      OBVIOUS
    <3>2. i < j
      BY <2>8, <2>9, <2>10, <3>1
    <3>3. FirstHit(old, {old[i].module}) < FirstHit(old, {old[j].module})
      BY <2>5, <2>6, <2>8, <3>2
    <3>4. /\ Hits(new, {old[i].module}) # {}
          /\ FirstHit(new, {old[i].module}) < FirstHit(new, {old[j].module})
      BY <2>5, <2>8, <3>3 DEF InOrder
    <3>5. FirstHit(new, {old[i].module}) < k
      BY <2>4, <2>8, <3>4
    <3>6. FirstHit(new, {old[i].module}) \in Hits(new, {old[i].module})
      BY <3>4, FirstHitIsFirst
    <3>7. FirstHit(new, {old[i].module}) \in Hits(new, pats)
      BY <2>5, <3>6 DEF Hits
    <3>8. FirstHit(new, {old[i].module}) \in Nat
      BY <3>7 DEF Hits
    <3> QED BY <2>4, <2>10, <3>5, <3>7, <3>8
  <2>12. i = j
    BY <2>5, <2>6, <2>11
  <2> QED BY <2>1, <2>2, <2>7, <2>12
<1> QED BY <1>1, <1>2, <1>3

-----------------------------------------------------------------------------
(* The two halves of the ratchet *)

\* Where the audit finds no raised budget and no new override, and the
\* overrides of the baseline are all there in their order, every module is
\* held to a budget at most as high as before.
LEMMA BudgetsNotRaised ==
    ASSUME NEW cur \in Policy, NEW base \in Policy, Consistent(cur), Consistent(base),
           KeepsSections(cur, base), KeepsOverrides(cur, base),
           Fired(cur, base) \cap {"PG001", "PG002"} = {},
           NEW b \in Budget, NEW m \in Module
    PROVE  Effective(cur, b, m) <= Effective(base, b, m)
<1>1. /\ RaisedDefaults(cur, base) = {} /\ RaisedOverrides(cur, base) = {}
      /\ NewOverrides(cur, base) = {}
  BY DEF Fired, Rule
<1>2. PICK old : old = base.overrides[b]
  OBVIOUS
<1>3. PICK new : new = cur.overrides[b]
  OBVIOUS
<1>4. old \in Seq(Override) /\ new \in Seq(Override)
  BY <1>2, <1>3 DEF Policy
<1>5. EffectiveDefault(cur, b) <= EffectiveDefault(base, b)
  <2>1. EffectiveDefault(cur, b) \in Nat /\ EffectiveDefault(base, b) \in Nat
    BY BudgetAssumption DEF EffectiveDefault, Policy
  <2>2. CASE Audited(cur, b)
    BY <1>1, <2>1, <2>2 DEF RaisedDefaults
  <2>3. CASE ~Audited(cur, b)
    <3>1. cur.budget[b] = Unset /\ base.budget[b] = Unset
      BY <2>3 DEF Audited, Consistent, KeepsSections
    <3> QED BY <2>1, <3>1 DEF EffectiveDefault
  <2> QED BY <2>2, <2>3
<1>6. ASSUME NEW k \in DOMAIN new
      PROVE  /\ Hits(old, {new[k].module}) # {}
             /\ new[k].max <= old[FirstHit(old, {new[k].module})].max
  <2>1. Audited(cur, b)
    <3>1. new # <<>>
      BY <1>6
    <3> QED BY <1>3, <3>1 DEF Audited, Consistent
  <2>2. <<b, k>> \in Positions(cur)
    BY <1>3, <2>1 DEF Positions
  <2>3. Listed(cur, base, b, k)
    BY <1>1, <2>2 DEF NewOverrides
  <2>4. ~(new[k].max > BaselineMax(cur, base, b, k))
    BY <1>1, <1>3, <2>2, <2>3 DEF RaisedOverrides
  <2>5. Hits(old, {new[k].module}) # {}
    BY <1>2, <1>3, <2>3 DEF Listed
  <2>6. PICK j : j = FirstHit(old, {new[k].module})
    OBVIOUS
  <2>7. j \in DOMAIN old
    BY <1>4, <2>5, <2>6, FirstHitIsFirst DEF Hits
  <2>8. old[j] \in Override /\ new[k] \in Override
    BY <1>4, <2>7
  <2>9. old[j].max \in Nat /\ new[k].max \in Nat
    BY <2>8 DEF Override
  <2>10. BaselineMax(cur, base, b, k) = old[j].max
    BY <1>2, <1>3, <2>6 DEF BaselineMax
  <2> QED BY <2>4, <2>5, <2>6, <2>9, <2>10
<1>7. InOrder(new, old)
  BY <1>2, <1>3 DEF KeepsOverrides
<1>8. PICK pats : pats = Covering(m)
  OBVIOUS
<1>9. /\ Hits(new, pats) = {} <=> Hits(old, pats) = {}
      /\ Hits(new, pats) # {} =>
            new[FirstHit(new, pats)].max <= old[FirstHit(old, pats)].max
  BY <1>4, <1>6, <1>7, FirstMatchNotRaised
<1> QED BY <1>2, <1>3, <1>5, <1>8, <1>9 DEF Effective

\* An entry that is new in the current lockfile sits in an explicit section.
LEMMA NewEntriesAreAudited ==
    ASSUME NEW cur \in Policy, NEW base \in Policy, Consistent(cur), Consistent(base),
           KeepsSections(cur, base)
    PROVE  /\ \A b \in Budget, p \in Pattern :
                Hits(cur.overrides[b], {p}) # {} => Audited(cur, b)
           /\ \A x \in ExemptSection \ cur.explicit : cur.exempt[x] = base.exempt[x]
           /\ ConverterSection \notin cur.explicit => cur.converter_paths = {}
<1>1. ASSUME NEW b \in Budget, NEW p \in Pattern, Hits(cur.overrides[b], {p}) # {}
      PROVE  Audited(cur, b)
  <2>1. cur.overrides[b] # <<>>
    BY <1>1 DEF Hits
  <2> QED BY <2>1 DEF Consistent, Audited
<1>2. ASSUME NEW x \in ExemptSection \ cur.explicit
      PROVE  cur.exempt[x] = base.exempt[x]
  BY <1>2 DEF Consistent, KeepsSections
<1> QED BY <1>1, <1>2 DEF Consistent

\* A pattern with an override in the current lockfile and none in the baseline
\* is a new override wherever it occurs.
LEMMA NewPatternIsNewOverride ==
    ASSUME NEW cur \in Policy, NEW base \in Policy, NEW b \in Budget, NEW p \in Pattern,
           Audited(cur, b), Hits(base.overrides[b], {p}) = {},
           NEW i \in Hits(cur.overrides[b], {p})
    PROVE  <<b, i>> \in NewOverrides(cur, base)
<1>1. i \in DOMAIN cur.overrides[b] /\ cur.overrides[b][i].module = p
  BY DEF Hits
<1>2. <<b, i>> \in Positions(cur)
  BY <1>1 DEF Positions
<1>3. ~Listed(cur, base, b, i)
  BY <1>1 DEF Listed
<1> QED BY <1>2, <1>3 DEF NewOverrides

\* Where the audit reports no addition, nothing is newly exempt.
LEMMA NothingNewlyExempt ==
    ASSUME NEW cur \in Policy, NEW base \in Policy, Consistent(cur), Consistent(base),
           KeepsSections(cur, base),
           Fired(cur, base) \cap {"PG002", "PG003", "PG004", "PG008"} = {}
    PROVE  Exemptions(cur) \subseteq Exemptions(base)
<1>1. /\ NewOverrides(cur, base) = {} /\ NewExemptPaths(cur, base) = {}
      /\ NewEntries(cur.acknowledged, base.acknowledged) = {}
      /\ NewConverterPaths(cur, base) = {}
  BY DEF Fired, Rule
<1>2. ASSUME NEW b \in Budget, NEW p \in Pattern, Hits(cur.overrides[b], {p}) # {}
      PROVE  Hits(base.overrides[b], {p}) # {}
  <2>1. Audited(cur, b)
    BY <1>2, NewEntriesAreAudited
  <2> QED BY <1>1, <1>2, <2>1, NewPatternIsNewOverride
<1>3. ASSUME NEW x \in ExemptSection, NEW p \in Pattern, cur.exempt[x][p] # "absent"
      PROVE  base.exempt[x][p] # "absent"
  <2>1. CASE x \in cur.explicit
    <3>1. NewEntries(cur.exempt[x], base.exempt[x]) = {}
      BY <1>1, <2>1 DEF NewExemptPaths
    <3>2. p \in DOMAIN cur.exempt[x]
      BY DEF Policy
    <3> QED BY <1>3, <3>1, <3>2 DEF NewEntries
  <2>2. CASE x \notin cur.explicit
    BY <1>3, <2>2, NewEntriesAreAudited
  <2> QED BY <2>1, <2>2
<1>4. ASSUME NEW p \in Prefix, cur.acknowledged[p] # "absent"
      PROVE  base.acknowledged[p] # "absent"
  BY <1>1, <1>4 DEF NewEntries, Policy
<1>5. cur.converter_paths \subseteq base.converter_paths
  BY <1>1, NewEntriesAreAudited DEF NewConverterPaths
<1> QED BY <1>2, <1>3, <1>4, <1>5 DEF Exemptions

\* Where the audit reports no missing metadata, what is newly exempt has it.
LEMMA NewlyExemptIsJustified ==
    ASSUME NEW cur \in Policy, NEW base \in Policy, Consistent(cur), Consistent(base),
           KeepsSections(cur, base),
           Fired(cur, base) \cap {"PG006", "PG007", "PG009"} = {}
    PROVE  Unjustified(cur) \subseteq Exemptions(base)
<1>1. /\ BareOverrides(cur, base) = {} /\ BareExemptPaths(cur, base) = {}
      /\ BareEntries(cur.acknowledged, base.acknowledged) = {}
  BY DEF Fired, Rule
<1>2. ASSUME NEW b \in Budget, NEW p \in Pattern,
             NEW i \in Hits(cur.overrides[b], {p}), cur.overrides[b][i].debt = "bare"
      PROVE  Hits(base.overrides[b], {p}) # {}
  <2>1. Audited(cur, b)
    BY <1>2, NewEntriesAreAudited
  <2>2. ASSUME Hits(base.overrides[b], {p}) = {} PROVE FALSE
    <3>1. <<b, i>> \in NewOverrides(cur, base)
      BY <2>1, <2>2, NewPatternIsNewOverride
    <3> QED BY <1>1, <1>2, <3>1 DEF BareOverrides
  <2> QED BY <2>2
<1>3. ASSUME NEW x \in ExemptNeedsDebt, NEW p \in Pattern, cur.exempt[x][p] = "bare"
      PROVE  base.exempt[x][p] # "absent"
  <2>0. x \in ExemptSection
    BY ExemptAssumption
  <2>1. CASE x \in cur.explicit
    <3>1. BareEntries(cur.exempt[x], base.exempt[x]) = {}
      BY <1>1, <2>1 DEF BareExemptPaths
    <3>2. p \in DOMAIN cur.exempt[x]
      BY <2>0 DEF Policy
    <3> QED BY <1>3, <3>1, <3>2 DEF BareEntries, NewEntries
  <2>2. CASE x \notin cur.explicit
    BY <1>3, <2>0, <2>2, NewEntriesAreAudited
  <2> QED BY <2>1, <2>2
<1>4. ASSUME NEW p \in Prefix, cur.acknowledged[p] = "bare"
      PROVE  base.acknowledged[p] # "absent"
  BY <1>1, <1>4 DEF BareEntries, NewEntries, Policy
<1> QED BY <1>2, <1>3, <1>4, ExemptAssumption DEF Unjustified, Exemptions

-----------------------------------------------------------------------------
(* Edits stay in the type *)

\* A policy with another list of overrides for one field is a policy, and
\* consistent if the section is explicit or the list empty.
LEMMA NewListIsPolicy ==
    ASSUME NEW pol \in Policy, Consistent(pol), NEW b \in Budget,
           NEW list \in Seq(Override), NEW out, out \in Policy,
           out = [pol EXCEPT !.explicit = out.explicit, !.overrides = out.overrides],
           pol.explicit \subseteq out.explicit, SectionOf[b] \in out.explicit,
           out.overrides = [pol.overrides EXCEPT ![b] = list]
    PROVE  Consistent(out)
<1>1. /\ out.budget = pol.budget /\ out.exempt = pol.exempt
      /\ out.converter_paths = pol.converter_paths
  BY DEF Policy
<1>2. \A c \in Budget : SectionOf[c] \notin out.explicit =>
        out.overrides[c] = pol.overrides[c]
  BY DEF Policy
<1> QED BY <1>1, <1>2 DEF Consistent

\* Every command leaves a consistent policy behind.
LEMMA CommandsKeepType ==
    ASSUME TypeOK, Command
    PROVE  TypeOK'
<1> USE DEF TypeOK
<1>1. Value \subseteq Nat
  BY BoundAssumption DEF Value
<1>2. ASSUME NEW b \in Commanded, NEW n \in Value, SetDefault(b, n)
      PROVE  TypeOK'
  <2>1. b \in Budget /\ SectionOf[b] \in Section /\ n \in Nat
    BY <1>1, CommandAssumption, BudgetAssumption
  <2>2. work' = [work EXCEPT !.explicit = work.explicit \cup {SectionOf[b]},
                             !.budget = [work.budget EXCEPT ![b] = n]]
        /\ main' = main /\ lapsed' = lapsed /\ edits' \in Nat
    BY <1>2 DEF SetDefault, Edit, Policy
  <2>3. work' \in Policy
    BY <2>1, <2>2 DEF Policy
  <2>4. /\ work'.explicit = work.explicit \cup {SectionOf[b]}
        /\ work'.budget = [work.budget EXCEPT ![b] = n]
        /\ work'.overrides = work.overrides /\ work'.exempt = work.exempt
        /\ work'.converter_paths = work.converter_paths
    BY <2>2 DEF Policy
  <2>5. \A c \in Budget : SectionOf[c] \notin work'.explicit =>
            work'.budget[c] = work.budget[c]
    BY <2>4 DEF Policy
  <2>6. Consistent(work')
    BY <2>4, <2>5 DEF Consistent
  <2> QED BY <2>2, <2>3, <2>6
<1>3. ASSUME NEW b \in Commanded, NEW p \in Pattern, NEW n \in Value,
             NEW force \in BOOLEAN, AddOverride(b, p, n, force)
      PROVE  TypeOK'
  <2>1. b \in Budget /\ SectionOf[b] \in Section /\ n \in Nat
    BY <1>1, CommandAssumption, BudgetAssumption
  <2>2. PICK list : list = work.overrides[b]
    OBVIOUS
  <2>3. list \in Seq(Override)
    BY <2>1, <2>2 DEF Policy
  <2>4. PICK new :
          /\ new = IF Hits(list, {p}) # {}
                   THEN [list EXCEPT ![FirstHit(list, {p})].max = n]
                   ELSE Append(list, [module |-> p, max |-> n, debt |-> "bare"])
          /\ Edit([work EXCEPT !.explicit = work.explicit \cup {SectionOf[b]},
                               !.overrides = [work.overrides EXCEPT ![b] = new]])
    BY <1>3, <2>2 DEF AddOverride
  <2>5. new \in Seq(Override)
    <3>1. CASE Hits(list, {p}) # {}
      <4>1. PICK i : i = FirstHit(list, {p})
        OBVIOUS
      <4>2. i \in DOMAIN list
        BY <2>3, <3>1, <4>1, FirstHitIsFirst DEF Hits
      <4>3. list[i] \in Override
        BY <2>3, <4>2
      <4>4. [list[i] EXCEPT !.max = n] \in Override
        BY <2>1, <4>3 DEF Override
      <4>5. new = [list EXCEPT ![i] = [list[i] EXCEPT !.max = n]]
        BY <2>4, <3>1, <4>1
      <4> QED BY <2>3, <4>2, <4>4, <4>5
    <3>2. CASE Hits(list, {p}) = {}
      <4>1. PICK o \in Override : o = [module |-> p, max |-> n, debt |-> "bare"]
        BY <2>1 DEF Override, Debt
      <4>2. new = Append(list, o)
        BY <2>4, <3>2, <4>1
      <4> QED BY <2>3, <4>1, <4>2
    <3> QED BY <3>1, <3>2
  <2>6. work' = [work EXCEPT !.explicit = work.explicit \cup {SectionOf[b]},
                             !.overrides = [work.overrides EXCEPT ![b] = new]]
        /\ main' = main /\ lapsed' = lapsed /\ edits' \in Nat
    BY <2>4 DEF Edit
  <2>7. work' \in Policy
    BY <2>1, <2>5, <2>6 DEF Policy
  <2>8. Consistent(work')
    BY <2>1, <2>5, <2>6, <2>7, NewListIsPolicy DEF Policy
  <2> QED BY <2>6, <2>7, <2>8
<1>4. ASSUME NEW p \in Prefix, AcknowledgeEmpty(p)
      PROVE  TypeOK'
  <2>1. work' = [work EXCEPT !.acknowledged = [work.acknowledged EXCEPT ![p] = "bare"]]
        /\ main' = main /\ lapsed' = lapsed /\ edits' \in Nat
    BY <1>4 DEF AcknowledgeEmpty, Edit
  <2>2. work' \in Policy
    BY <2>1 DEF Policy, Entry, Debt
  <2>3. /\ work'.explicit = work.explicit /\ work'.budget = work.budget
        /\ work'.overrides = work.overrides /\ work'.exempt = work.exempt
        /\ work'.converter_paths = work.converter_paths
    BY <2>1 DEF Policy
  <2>4. Consistent(work')
    BY <2>3 DEF Consistent
  <2> QED BY <2>1, <2>2, <2>4
<1> QED BY <1>2, <1>3, <1>4 DEF Command

\* So does every edit by hand.
LEMMA HandEditsKeepType ==
    ASSUME TypeOK, HandEdit
    PROVE  TypeOK'
<1> USE DEF TypeOK
<1>1. Value \subseteq Nat
  BY BoundAssumption DEF Value
<1>2. ASSUME NEW b \in Commanded, NEW list \in Seq(Override),
             NEW s, SectionOf[b] \in s, work.explicit \subseteq s, s \subseteq Section,
             Edit([work EXCEPT !.explicit = s,
                               !.overrides = [work.overrides EXCEPT ![b] = list]])
      PROVE  TypeOK'
  <2>1. b \in Budget
    BY CommandAssumption
  <2>2. work' = [work EXCEPT !.explicit = s,
                             !.overrides = [work.overrides EXCEPT ![b] = list]]
        /\ main' = main /\ lapsed' = lapsed /\ edits' \in Nat
    BY <1>2 DEF Edit
  <2>3. work' \in Policy
    BY <1>2, <2>1, <2>2 DEF Policy
  <2>4. Consistent(work')
    BY <1>2, <2>1, <2>2, <2>3, NewListIsPolicy DEF Policy
  <2> QED BY <2>2, <2>3, <2>4
<1>3. ASSUME NEW b \in Commanded
      PROVE  /\ b \in Budget /\ SectionOf[b] \in Section
             /\ work.overrides[b] \in Seq(Override)
             /\ work.overrides[b] # <<>> => SectionOf[b] \in work.explicit
             /\ work.explicit \subseteq Section
             /\ work = [work EXCEPT !.explicit = work.explicit]
  BY CommandAssumption, BudgetAssumption DEF Policy, Consistent
<1>4. ASSUME NEW b \in Commanded, InsertOverride(b) PROVE TypeOK'
  <2>1. PICK list : list = work.overrides[b]
    OBVIOUS
  <2>2. PICK o \in [module : Pattern, max : Value, debt : Debt], k \in 0..Len(list) :
          Edit([work EXCEPT !.explicit = work.explicit \cup {SectionOf[b]},
                !.overrides = [work.overrides EXCEPT ![b] =
                    SubSeq(list, 1, k) \o <<o>> \o SubSeq(list, k + 1, Len(list))]])
    BY <1>4, <2>1 DEF InsertOverride
  <2>3. list \in Seq(Override) /\ o \in Override
    BY <1>1, <1>3, <2>1 DEF Override
  <2>4. PICK new : new = SubSeq(list, 1, k) \o <<o>> \o SubSeq(list, k + 1, Len(list))
    OBVIOUS
  <2>5. new \in Seq(Override)
    <3>1. SubSeq(list, 1, k) \in Seq(Override) /\ SubSeq(list, k + 1, Len(list)) \in Seq(Override)
      BY <2>3
    <3>2. <<o>> \in Seq(Override)
      BY <2>3
    <3> QED BY <2>4, <3>1, <3>2, ConcatProperties
  <2>6. PICK s : s = work.explicit \cup {SectionOf[b]}
    OBVIOUS
  <2>7. Edit([work EXCEPT !.explicit = s,
                          !.overrides = [work.overrides EXCEPT ![b] = new]])
    BY <2>2, <2>4, <2>6
  <2>8. SectionOf[b] \in s /\ work.explicit \subseteq s /\ s \subseteq Section
    BY <1>3, <2>6
  <2> QED BY <1>2, <2>5, <2>7, <2>8
<1>5. ASSUME NEW b \in Commanded, ChangeOverride(b) PROVE TypeOK'
  <2>1. PICK list : list = work.overrides[b]
    OBVIOUS
  <2>2. PICK i \in DOMAIN list, n \in Value, d \in Debt :
          Edit([work EXCEPT !.overrides = [work.overrides EXCEPT ![b] = [list EXCEPT
            ![i] = [module |-> list[i].module, max |-> n, debt |-> d]]]])
    BY <1>5, <2>1 DEF ChangeOverride
  <2>3. list \in Seq(Override) /\ list[i] \in Override
    BY <1>3, <2>1
  <2>4. PICK o \in Override : o = [module |-> list[i].module, max |-> n, debt |-> d]
    <3>1. list[i].module \in Pattern /\ n \in Nat
      BY <1>1, <2>3 DEF Override
    <3> QED BY <3>1 DEF Override
  <2>5. PICK new : new = [list EXCEPT ![i] = o]
    OBVIOUS
  <2>6. new \in Seq(Override)
    BY <2>3, <2>5
  <2>7. Edit([work EXCEPT !.explicit = work.explicit,
                          !.overrides = [work.overrides EXCEPT ![b] = new]])
    <3>1. Edit([work EXCEPT !.overrides = [work.overrides EXCEPT ![b] = new]])
      BY <2>2, <2>4, <2>5
    <3>2. [work EXCEPT !.explicit = work.explicit,
                       !.overrides = [work.overrides EXCEPT ![b] = new]]
          = [work EXCEPT !.overrides = [work.overrides EXCEPT ![b] = new]]
      BY DEF Policy
    <3> QED BY <3>1, <3>2
  <2>8. SectionOf[b] \in work.explicit
    BY <1>3, <2>1, <2>2
  <2> QED BY <1>2, <1>3, <2>6, <2>7, <2>8
<1>6. ASSUME NEW b \in Commanded, RemoveOverride(b) PROVE TypeOK'
  <2>1. PICK list : list = work.overrides[b]
    OBVIOUS
  <2>2. PICK i \in DOMAIN list :
          Edit([work EXCEPT !.overrides = [work.overrides EXCEPT ![b] =
                SubSeq(list, 1, i - 1) \o SubSeq(list, i + 1, Len(list))]])
    BY <1>6, <2>1 DEF RemoveOverride
  <2>3. list \in Seq(Override) /\ i \in 1..Len(list)
    BY <1>3, <2>1
  <2>4. PICK new : new = SubSeq(list, 1, i - 1) \o SubSeq(list, i + 1, Len(list))
    OBVIOUS
  <2>5. new \in Seq(Override)
    <3>1. SubSeq(list, 1, i - 1) \in Seq(Override) /\ SubSeq(list, i + 1, Len(list)) \in Seq(Override)
      BY <2>3
    <3> QED BY <2>4, <3>1, ConcatProperties
  <2>6. [work EXCEPT !.explicit = work.explicit,
                     !.overrides = [work.overrides EXCEPT ![b] = new]]
        = [work EXCEPT !.overrides = [work.overrides EXCEPT ![b] = new]]
    BY DEF Policy
  <2>7. SectionOf[b] \in work.explicit
    BY <1>3, <2>1, <2>2
  <2> QED BY <1>2, <1>3, <2>2, <2>4, <2>5, <2>6, <2>7
<1>7. ASSUME NEW x \in ExemptSection, ChangeExempt(x) PROVE TypeOK'
  <2>1. PICK p \in Pattern, e \in Entry :
          Edit([work EXCEPT !.explicit = work.explicit \cup {x},
            !.exempt = [work.exempt EXCEPT ![x] = [work.exempt[x] EXCEPT ![p] = e]]])
    BY <1>7 DEF ChangeExempt
  <2>2. PICK entries : entries = [work.exempt[x] EXCEPT ![p] = e]
    OBVIOUS
  <2>3. entries \in [Pattern -> Entry] /\ x \in Section
    BY <2>2, ExemptAssumption DEF Policy
  <2>4. work' = [work EXCEPT !.explicit = work.explicit \cup {x},
                             !.exempt = [work.exempt EXCEPT ![x] = entries]]
        /\ main' = main /\ lapsed' = lapsed /\ edits' \in Nat
    BY <2>1, <2>2 DEF Edit
  <2>5. work' \in Policy
    BY <2>3, <2>4 DEF Policy
  <2>6. /\ work'.explicit = work.explicit \cup {x} /\ work'.budget = work.budget
        /\ work'.overrides = work.overrides
        /\ work'.converter_paths = work.converter_paths
        /\ \A y \in ExemptSection \ {x} : work'.exempt[y] = work.exempt[y]
    BY <2>4 DEF Policy
  <2>7. Consistent(work')
    BY <2>6 DEF Consistent
  <2> QED BY <2>4, <2>5, <2>7
<1>8. ASSUME ChangeAcknowledged PROVE TypeOK'
  <2>1. PICK p \in Prefix, e \in Entry :
          Edit([work EXCEPT !.acknowledged = [work.acknowledged EXCEPT ![p] = e]])
    BY <1>8 DEF ChangeAcknowledged
  <2>2. work' = [work EXCEPT !.acknowledged = [work.acknowledged EXCEPT ![p] = e]]
        /\ main' = main /\ lapsed' = lapsed /\ edits' \in Nat
    BY <2>1 DEF Edit
  <2>3. work' \in Policy
    BY <2>2 DEF Policy
  <2>4. /\ work'.explicit = work.explicit /\ work'.budget = work.budget
        /\ work'.overrides = work.overrides /\ work'.exempt = work.exempt
        /\ work'.converter_paths = work.converter_paths
    BY <2>2 DEF Policy
  <2>5. Consistent(work')
    BY <2>4 DEF Consistent
  <2> QED BY <2>2, <2>3, <2>5
<1>9. ASSUME ChangeConverterPaths PROVE TypeOK'
  <2>1. PICK ps \in SUBSET Converters :
          Edit([work EXCEPT !.explicit = work.explicit \cup {ConverterSection},
                            !.converter_paths = ps])
    BY <1>9 DEF ChangeConverterPaths
  <2>2. work' = [work EXCEPT !.explicit = work.explicit \cup {ConverterSection},
                             !.converter_paths = ps]
        /\ main' = main /\ lapsed' = lapsed /\ edits' \in Nat
    BY <2>1 DEF Edit
  <2>3. work' \in Policy
    BY <2>2, ConverterAssumption DEF Policy
  <2>4. /\ work'.explicit = work.explicit \cup {ConverterSection}
        /\ work'.budget = work.budget
        /\ work'.overrides = work.overrides /\ work'.exempt = work.exempt
    BY <2>2 DEF Policy
  <2>5. Consistent(work')
    BY <2>4 DEF Consistent
  <2> QED BY <2>2, <2>3, <2>5
<1>10. ASSUME NEW s \in Section, DropSection(s) PROVE TypeOK'
  <2>1. PICK new : new = [work EXCEPT
         !.explicit  = work.explicit \ {s},
         !.budget    = [b \in Budget |-> IF SectionOf[b] = s THEN Unset ELSE work.budget[b]],
         !.overrides = [b \in Budget |-> IF SectionOf[b] = s THEN <<>> ELSE work.overrides[b]],
         !.exempt    = [x \in ExemptSection |->
                            IF x = s THEN DefaultEntries(x) ELSE work.exempt[x]],
         !.converter_paths = IF s = ConverterSection THEN {} ELSE work.converter_paths]
    OBVIOUS
  <2>2. work' = new /\ main' = main /\ lapsed' = lapsed /\ edits' \in Nat
    BY <1>10, <2>1 DEF DropSection, Edit
  <2>3. \A x \in ExemptSection : DefaultEntries(x) \in [Pattern -> Entry]
    BY DEF DefaultEntries, Entry, Debt
  <2>4. <<>> \in Seq(Override)
    OBVIOUS
  <2>5. new \in Policy
    BY <2>1, <2>3, <2>4 DEF Policy
  <2>6. Consistent(new)
    BY <2>1 DEF Consistent, Policy
  <2> QED BY <2>2, <2>5, <2>6
<1> QED BY <1>4, <1>5, <1>6, <1>7, <1>8, <1>9, <1>10 DEF HandEdit

-----------------------------------------------------------------------------
(* The theorems *)

\* Every step keeps the types.
LEMMA StepKeepsType ==
    ASSUME TypeOK, [Next]_vars
    PROVE  TypeOK'
<1>1. CASE Command
  BY <1>1, CommandsKeepType
<1>2. CASE HandEdit
  BY <1>2, HandEditsKeepType
<1>3. CASE Revert
  BY <1>3 DEF Revert, TypeOK
<1>4. ASSUME NEW calibration \in BOOLEAN, Merge(calibration) PROVE TypeOK'
  BY <1>4 DEF Merge, TypeOK
<1>5. ASSUME NEW calibration \in BOOLEAN, NEW allow \in BOOLEAN,
             MergeUnaudited(calibration, allow)
      PROVE  TypeOK'
  BY <1>5 DEF MergeUnaudited, TypeOK
<1>6. CASE UNCHANGED vars
  BY <1>6 DEF vars, TypeOK
<1> QED BY <1>1, <1>2, <1>3, <1>4, <1>5, <1>6 DEF Next

\* The lockfiles on the baseline branch and in the working tree always have
\* the declared shape, whatever commands, edits and merges brought them there.
THEOREM TypeCorrect == Spec => []TypeOK
<1>1. ASSUME Init PROVE TypeOK
  <2>1. main \in Policy /\ Consistent(main)
    BY <1>1, InitialAssumption DEF Init
  <2>2. work = main /\ edits \in Nat /\ lapsed \in BOOLEAN
    BY <1>1 DEF Init
  <2> QED BY <2>1, <2>2 DEF TypeOK
<1>2. TypeOK /\ [Next]_vars => TypeOK'
  BY StepKeepsType
<1> QED BY <1>1, <1>2, PTL DEF Spec

\* A strict gate without calibration passes only when nothing is reported.
LEMMA StrictPassIsSilent ==
    ASSUME NEW fired, Passes(fired, "agent_strict", FALSE)
    PROVE  fired = {}
BY DEF Passes, Severity, Elevate

\* With calibration, what is not negotiable must still be silent.
LEMMA StrictPassHasMetadata ==
    ASSUME NEW fired, NEW calibration \in BOOLEAN,
           Passes(fired, "agent_strict", calibration)
    PROVE  fired \cap Strict = {}
BY DEF Passes, Severity, Elevate

\* Without a baseline the strict gate passes only for who asked to go without.
LEMMA UnauditedNeedsAllowance ==
    ASSUME NEW calibration \in BOOLEAN, NEW allow \in BOOLEAN,
           MergeUnaudited(calibration, allow)
    PROVE  allow = TRUE
<1>1. FiredWithoutBaseline(allow) \cap Strict = {}
  BY StrictPassHasMetadata DEF MergeUnaudited
<1> QED BY <1>1 DEF FiredWithoutBaseline, Strict

\* The ratchet: a merge let through by the strict gate without calibration
\* holds no module to a higher budget and exempts nothing new, if it keeps the
\* sections and the order of the overrides.  So comparing fields and patterns,
\* as check_policy_mutation does, protects what the first match decides.
THEOREM Ratchet == Spec => StrictMergeNeverWidens
<1>1. ASSUME TypeOK, Merge(FALSE), KeepsSections(work, main), KeepsOverrides(work, main)
      PROVE  NotWider(main', main)
  <2>1. Fired(work, main) = {} /\ main' = work
    BY <1>1, StrictPassIsSilent DEF Merge
  <2>2. \A b \in Budget, m \in Module : Effective(work, b, m) <= Effective(main, b, m)
    BY <1>1, <2>1, BudgetsNotRaised DEF TypeOK
  <2>3. Exemptions(work) \subseteq Exemptions(main)
    BY <1>1, <2>1, NothingNewlyExempt DEF TypeOK
  <2> QED BY <2>1, <2>2, <2>3 DEF NotWider
<1>2. TypeOK => [Merge(FALSE) /\ KeepsSections(work, main) /\ KeepsOverrides(work, main)
                 => NotWider(main', main)]_vars
  BY <1>1
<1> QED BY <1>2, TypeCorrect, PTL DEF StrictMergeNeverWidens

\* Every exemption on the baseline branch was there at the start or came with
\* its metadata in a calibrated merge, until a merge drops a section or is let
\* off the audit.  TypeOK makes the invariant inductive: the audit looks only at
\* explicit sections, so absent ones must be known to be empty.
THEOREM EveryExemptionGranted == Spec => []NothingUngranted
<1>1. Init => NothingUngranted
  BY DEF Init, NothingUngranted
<1>2. TypeOK /\ NothingUngranted /\ [Next]_vars => NothingUngranted'
  <2> SUFFICES ASSUME TypeOK, NothingUngranted, [Next]_vars PROVE NothingUngranted'
    OBVIOUS
  <2>1. ASSUME main' = main, granted' = granted, lapsed' = lapsed
        PROVE  NothingUngranted'
    BY <2>1 DEF NothingUngranted
  <2>2. ASSUME NEW calibration \in BOOLEAN, Merge(calibration)
        PROVE  NothingUngranted'
    <3> SUFFICES ASSUME ~lapsed' PROVE Exemptions(main') \subseteq granted'
      BY DEF NothingUngranted
    <3>1. /\ main' = work /\ KeepsSections(work, main)
          /\ Exemptions(main) \subseteq granted
      BY <2>2 DEF Merge, NothingUngranted
    <3>2. CASE calibration = FALSE
      <4>1. Fired(work, main) = {} /\ granted' = granted
        BY <2>2, <3>2, StrictPassIsSilent DEF Merge
      <4>2. Exemptions(work) \subseteq Exemptions(main)
        BY <3>1, <4>1, NothingNewlyExempt DEF TypeOK
      <4> QED BY <3>1, <4>1, <4>2
    <3>3. CASE calibration = TRUE
      <4>1. /\ Fired(work, main) \cap Strict = {}
            /\ granted' = granted \cup (Exemptions(work) \ Unjustified(work))
        BY <2>2, <3>3, StrictPassHasMetadata DEF Merge
      <4>2. Unjustified(work) \subseteq Exemptions(main)
        <5>1. Fired(work, main) \cap {"PG006", "PG007", "PG009"} = {}
          BY <4>1 DEF Strict
        <5> QED BY <3>1, <5>1, NewlyExemptIsJustified DEF TypeOK
      <4> QED BY <3>1, <4>1, <4>2
    <3> QED BY <3>2, <3>3
  <2>3. ASSUME NEW calibration \in BOOLEAN, NEW allow \in BOOLEAN,
               MergeUnaudited(calibration, allow)
        PROVE  NothingUngranted'
    BY <2>3, UnauditedNeedsAllowance DEF MergeUnaudited, NothingUngranted
  <2>4. CASE Command
    <3>1. main' = main /\ granted' = granted /\ lapsed' = lapsed
      BY <2>4 DEF Command, SetDefault, AddOverride, AcknowledgeEmpty, Edit
    <3> QED BY <2>1, <3>1
  <2>5. CASE HandEdit
    <3>1. main' = main /\ granted' = granted /\ lapsed' = lapsed
      BY <2>5 DEF HandEdit, InsertOverride, ChangeOverride, RemoveOverride,
                  ChangeExempt, ChangeAcknowledged, ChangeConverterPaths,
                  DropSection, Edit
    <3> QED BY <2>1, <3>1
  <2>6. CASE Revert
    BY <2>1, <2>6 DEF Revert
  <2>7. CASE UNCHANGED vars
    BY <2>1, <2>7 DEF vars
  <2> QED BY <2>2, <2>3, <2>4, <2>5, <2>6, <2>7 DEF Next
<1> QED BY <1>1, <1>2, TypeCorrect, PTL DEF Spec
=============================================================================
