# A verification project for Locus

Locus is an architecture verifier. It scans a Rust workspace into an intermediate
representation (AIR), runs the rules of twenty *paradigms* over it, and reports
diagnostics. What the rules accept is recorded in `.locus/lock.json`, which commands
and people edit; a governance layer decides what becomes of every finding;
exceptions suppress diagnostics for a time; and Policy Guard compares the lockfile
with that of the baseline branch, so that the rules cannot be loosened in silence.

This directory holds TLA+ modules translated from that code, TLC configurations that
check them on small instances, and theorems that TLAPS proves for all instances.
All paths below are relative to the root of the repository.

## 1. Inventory

| Component | State | Operations | Talks to |
|---|---|---|---|
| lockfile store (`crates/locus-core/src/lockfile.rs`) | `.locus/lock.json` | `load_or_empty`, `save` | every command |
| OT section, `locus accept` (`paradigms/one_truth`) | concepts, boundaries, converters in the lockfile | accept canonical / boundary / converter, build from hints | lockfile store, scan |
| One Truth rules, OT (`paradigms/one_truth/rules`) | none; read section and AIR | OT001-OT012, each with a suggested fix | OT section, governance |
| `locus init` (`locus-cli/src/commands/init.rs`, `locus-core/src/init.rs`) | lockfile, `AGENTS.md` | rebuild sections, acknowledge prefixes, suggest | all paradigms, lockfile store |
| `locus prune` | exceptions in the lockfile | drop what has expired | lockfile store, clock |
| Policy Guard (`policy_guard.rs`) | none; reads two lockfiles | PG000-PG009 | check, git |
| budgets and exempt paths (CX, MO sections) | overrides, defaults, exempt paths | `set-default`, `add-override` | rules, Policy Guard |
| exceptions (`exceptions.rs`, `locus-rust/src/hints.rs`) | hints in the source, exceptions in the lockfile | `apply_exceptions`, `collect_exceptions` | check, debt, clock |
| governance (`governance/`) | the finding store of one run, `.locus/arch.json` | observe, adapt, four policies, validate, materialise | rules, check |
| `locus check` | the records of one run | scan, govern, except, filter, guard, exit | all of the above |
| git (`locus-cli/src/diff.rs`) | refs and working tree | changed files, baseline lockfile | check |
| dependency graph, DG (`paradigms/dependency_graph`, `commands/paradigms/dg.rs`) | forbidden edges, features, shared paths in the lockfile | DG001-DG004; `forbid-edge`, `define-feature`, `add-shared-path`; suggestion of `init` | AIR, governance, lockfile store |
| the other paradigms (`paradigms/*`): ownership MO CX BO PA FO CR CL, design RM UT AB DA TA DC, runtime CF OB RW, failure ER FL | a lockfile section each | 74 rules; a vacancy predicate (LOCUS002); a suggestion for the checklist | AIR, governance, `locus init` |
| their commands (`commands/paradigms/*`) | the sections | 32 verbs: add, accept, exempt, set, override, define, enable | lockfile store |
| AIR (`locus-air`) | none | items, facts and imports of a scan | all rules |
| Rust adapter, semantic adapter, reports, read-only commands | none | scan, render, print | check |

What is hard here:

* **Concurrency and crashes.** Commands load, edit and save the whole lockfile with
  nothing between them, and `std::fs::write` truncates before it writes. Agents run
  commands in parallel.
* **Long sequences of legal steps.** `accept`, `accept --force`, `init` and hand edits
  in any order; merges of policies one after another.
* **Two views of one thing.** Policy Guard compares fields and patterns, while rules
  use the first override that matches; `prune` and `is_expired` compare dates each in
  its own way; the check forgets which decision made which diagnostic and pairs them again.
* **Order.** Policies add findings while others decide; Policy Guard must come after
  exceptions and `--changed`; an expired suppressor may stand before a live one.
* **Advice that feeds back.** A finding carries a suggestion; whoever follows it changes
  the input of other rules, and agents follow suggestions until a check is silent.
* **Defaults that fire and defaults that wait.** Some rules work on an empty section, others wait
  for the first declaration, and a nudge (LOCUS002) is to say which. One declaration switches
  on, the next lets off, depending on the verb.
* **A loop of advice.** `init` prints a checklist from code and sections; the developer runs a
  command of it and runs `init` again, until nothing is left. That ends only if no suggestion
  survives its own command or brings back another.
* **Time.** Suppressions lapse by themselves; the date is computed from a count of days.
* **Algorithms on graphs and lists.** Tarjan's recursion over cyclic graphs, with indices,
  links and a stack that must stay in step; first-match lists that grow.

What makes each part correct:

| Part | Correct when |
|---|---|
| lockfile store | it is never a blend of versions; an unreadable file is never taken for no file; decisions are lost only to an overlap or an explicit edit |
| OT section | a symbol has a role in one concept; no boundary or converter without a canonical |
| OT rules | accepting settles what it should and raises nothing; what `init` has built leaves nothing to register; following suggestions ends |
| Policy Guard | a silent audit means that no module's budget grew and nothing new is exempt; exemptions enter with metadata and calibration only |
| exceptions | a lapse is announced; time never hides a violation; pruning changes no outcome |
| dependency graph | exactly the edges on a cycle are reported; a declaration never takes a finding away; a suggestion speaks of the findings there are and settles just those |
| paradigms | to accept or exempt never adds a finding, to restrict never hides one, the first owner only adds; the first override decides; what is called vacant reports nothing |
| checklist of `init` | following it ends, settles what it suggests and opens nothing else; a suggested cap fits the code it was measured on |
| governance and check | one decision for each finding, kept with its diagnostic; success only if all that is fatal is excused; a violation is shown once |

The hazards that the properties were made for are listed, each at its line, in `PROJECT.json`.

## 2. Modules

| Module | Models | State / actions |
|---|---|---|
| `OneTruthSection` | OT section, `accept_*`, `build_ot_section`, `populate_lockfile_sections` | pure: `CanAccept...` are the early returns, `Accept...` the resulting section |
| `LockfileCommands` | `accept`, `init`, `prune` as processes on one file | `disk`, `proc`; `Start`, `Load`, `Refuse`, `Truncate`, `Write`, `Crash`, `HandEdit`, `RestoreFile` |
| `OneTruthRules` | OT001 to OT012 with their lookups | pure: an operator for each rule, `Findings` |
| `OneTruthReview` | a developer who works through the findings | `section`, `code`, `commands`; the commands, a `Fix...` for each kind of suggestion, `Follow` |
| `LockfileHistory` | the abstract view of the file: a version history | `versions`, `current`; `Record`, `Damage`, `Restore` |
| `PolicyAudit` | `check_policy_mutation`, first-match budgets | pure: one operator per diagnostic, `Fired`, `Severity` |
| `PolicyGuard` | a branch under Policy Guard | `main`, `work`; commands, hand edits, `Revert`, `Merge`, `MergeUnaudited` |
| `Exceptions` | `apply_exceptions`, expiry, prune, debt status | pure |
| `Calendar` | `days_to_ymd`, and the calendar as people count it | pure |
| `ExceptionLifecycle` | exceptions over time | `today`, `tree`, `sup`, `report`; `Check`, `Prune`, `Tick`, `ChangeCode`, `ChangeSuppressors` |
| `Governance` | findings, adapter, policies, validation, materialisation | pure |
| `CheckRun` | one `locus check`; composes `Governance` and `Exceptions` | `stage`, `store`, `decisions`, `records`; one action per stage |
| `CrateCycles` | DG002: Tarjan's algorithm and the report of cyclic edges | the fields of `TarjanState`, `calls`, `succs`, `findings`; `Root`, `Descend`, `BackEdge`, `CrossEdge`, `Retreat`, `PopComponent`, `Report` |
| `ModulePatterns` | `matches_pattern`, searches for the first match | pure |
| `DependencySection` | DG section, its commands, DG001, DG003, DG004, the suggestion | pure: `Can...` are the early returns; `Panics` where a rule aborts |
| `DependencyRules` | the section over time | `section`, `imports`; the commands, `Narrow`, `Widen`, `ChangeCode` |
| `Air` | AIR: types, functions, impls, actions, calls, arms, facts, imports; matching of patterns | pure; a workspace is a record of sets |
| `OwnershipRules` | MO, CX, BO, PA, FO, CR, CL | pure: a section, its default, vacancy, an operator for each rule and each edit |
| `DesignRules` | RM, UT, AB, DA, TA, DC | as above |
| `RuntimeRules` | CF, OB, RW | as above |
| `FailureRules` | ER, FL | as above |
| `ParadigmSections` | all sections in one lockfile, every command, LOCUS002; composes the four above with `DependencySection` | pure: `Accepts`, `Edited`, `FindingsOf`, `Vacant` |
| `InitChecklist` | the suggestions of `locus init` | pure: an operator for each suggestion, `Checklist` |
| `ParadigmReview` | a developer who declares, acknowledges, changes code and follows the checklist | `code`, `lock`, `written`, `acknowledged`; `Run` in `Declare` and `Follow`, `Acknowledge`, `ChangeCode`, `Skip` |
| `MC...` | the instances that TLC checks | |
| `...Proofs` | theorems | |

`LockfileCommands` and `OneTruthRules` extend `OneTruthSection`, `OneTruthReview` extends
`OneTruthRules`, `PolicyGuard` extends `PolicyAudit`,
`ExceptionLifecycle` extends `Exceptions` and `Calendar`, `ParadigmReview` extends `InitChecklist`,
which extends `ParadigmSections` and through it the rule modules and `Air`, `DependencyRules` extends `DependencySection`,
which extends `ModulePatterns`, and `CheckRun` extends `Governance` and
`Exceptions`. A pure module holds what the code computes, the module that extends it
what happens over time. `PROJECT.json` maps every definition to the lines it stands for.

Definitions whose name begins with `Mut` are slips a programmer might make. Nothing
uses them; put in the place of the definition below them, each violates a property.

### Correspondence with the code

**LockfileCommands.** A process goes through the phases of `run`: `started` (arguments
parsed, tree scanned), `loaded` (file read and edited in memory), `saving` (file
truncated). `EditsOf` is the set of lockfiles a command may make of the one it loaded;
an empty set means that `accept` refuses. `disk.lock` is the last content that parsed, of
which a collision of two writes may leave a tail; `disk.status` says whether it
parses now. What a scan finds changes freely between two commands. `stale` records that the file has
changed since a process loaded it, and `written` every version that was readable: both
are history variables that no action reads. A concept without an entry is one whose
canonical is `NoSymbol`. Stems, which types have fields or variants (`Clusterable`), and whether two of those overlap
enough to cluster, are constants, for any stem function and any overlap relation. The canonical that `init` picks
is the first hinted member of the cluster, if there is one (`Clustered`), otherwise the first hinted type of any kind.

**OneTruthRules and OneTruthReview.** A type is a symbol with a name (the last segment) and a
file. Most rules look a type up by name in a map with one entry a name, so a lookup is the set
of concepts that would be inserted, of which the code keeps the first or the last
(`FirstConcept`, `LastConcept`). OT006 matches the text of an end against all accepted symbols in order: the
symbols a text matches are a constant, `Endpoints`, as are the names of the ends, `EndName`. What a
function mentions and constructs, and which impls hold methods outside the allowlist, is
part of `code`. `Hint`, `Retire`, `MoveAway` and the edits in the `Fix...` actions are what the
suggested texts tell the developer to do; `EditAndInit` and `AcceptAndInit` add the re-run of
`init` where the text has it. OT002 and the clustering of `init` share one cluster function in the code, and
`Anchored` and `Clustered` here; `Alike` is the overlap relation for both fields and variants.

**PolicyAudit and PolicyGuard.** A policy keeps the fields that Policy Guard compares.
CX and MO budgets are indexed by field. `explicit` is the set of sections that are
present and parse; any other section reads as its default (`Consistent`). Override
lists keep their order, and may hold a pattern twice, because a developer can write
one. `Effective` is the lookup of CX001. Merging is external: `main' = work` once
the strict check has passed, with the baseline at hand (`Merge`) or not (`MergeUnaudited`).
`lapsed` ends what `NothingUngranted` promises: after a merge that drops a section, and after one that
`--allow-missing-policy-baseline` lets off the audit. A baseline that cannot be read is no such excuse, so the
property fails if PG000 does not hold such a merge back.

**Exceptions.** A suppressor is a hint or a lockfile exception, with its place in the
walk. Dates are compared as texts in the code, so a date is a number that ranks it
among them, whatever it looks like. Suffix matching of paths is a relation.
`Tick` only ever goes forward; `LOCUS_TODAY` could go back, which ends what the
properties about time promise.

**Governance and CheckRun.** Ids are places in the store. Texts are kept as far as they
tell two findings apart. Registries are constants; in the standard registry every rule
names a known paradigm, but the policies that watch over this are modelled for all of
them. The rules and the audit are inputs, any of the given `Scans` and `Audits`; in
human mode the audit holds nothing fatal, as `CheckMode::elevate` ensures. A store, and any list that a
filter leaves (`Picked`), is in the order of the places. The cursor of `apply_exceptions_to_records` is the function
`Cursor`: from the place of one diagnostic it goes on to the next equal one.

**CrateCycles.** The recursion of `strongconnect` is unrolled: `calls` holds the crates whose call
has not returned, and `succs` what each call's loop has yet to look at. One step is one turn of
that loop, or the end of a call together with the `min` its caller takes. A crate is its
number in the sorted list `nodes`. The pop loop is one step, as nothing happens between its turns.

**ModulePatterns, DependencySection and DependencyRules.** Patterns and paths are sequences of
segments, so `a::*` is `<<"a", "*">>`, and the substring tests of `matches_pattern` become
tests on segments (a segment holds no colon). `Matches` is false for the pattern on which
the code panics, and `Panics` says whether a rule comes to it: searches stop at the
first match. The reason of an edge is left out, so that forcing an edge that is there changes
nothing. Sections come about by commands only; hand edits of this section are not modelled.
`Narrow` and `Widen` are the two commands that a suggestion offers.

**Air and the rule modules.** A workspace is a record of sets, an item has the place `at` where it stands,
and a finding is a tuple of rule, place and what else tells it from others. A name or a text is a
sequence of pieces (`<<"user_", "handler">>`), as far as some rule looks into it: an ending is the last
piece, a containment some piece. `Capitalised` and `Rank` give what the code reads off strings, an upper case
initial and the order of symbols. Each rule has the conditions of its code, with the defaults of
its section; severities, confidences and texts are left out. Whatever the
code counts once per file, function or trait is counted so here. The pattern `*::*`, on which the code
panics (`accepted_never_panics`), matches nothing in these modules, and no command here stores it.

**ParadigmSections and ParadigmReview.** `Accepts` holds what a command refuses, `Edited` the section it saves. A section
that is not in the file reads as its default, so `lock` always has all of them, and `written` are
those in the file: the vacancy seeds ask for that, LOCUS002 asks `is_vacant`. The commands that a
developer may think of are a constant; sections that no command reaches (several fields can only be
written by hand) are in the lockfiles at the start.

**InitChecklist.** A suggestion is the set of prefixes it is about, the commands it prints, and the prefixes it offers to
skip. `<glob>` stands for any command in `Commands` of that verb. The length of a function is
one number: the suggestion for CX measures its span and CX001 reads `line_count`, which `visitor.rs:226` computes from the same span. `percentile(values, 0.95)` is `P95`: the code
sorts and takes the element of rank ceil(0.95 n), the model the least value that as many do not
exceed. A cap is p95 times 1.1, rounded up (`Raised`). Thresholds such as 1.5 times a default are written without
fractions.

**Calendar.** `DaysToYmd` is the arithmetic of the code, operation by operation. `today` counts days
from an origin, which is any of `Origins`.

## 3. What TLC checks

| Run | Instance | What it shows |
|---|---|---|
| `lockfile_commands` | 2 processes, 2 symbols, 2 concepts, 1 converter, 1 exception, 3 commands or edits | `OneConceptOnDisk`, `NoOrphansOnDisk`: every version readable at any time is consistent. `LossNeedsOverlap`: a save from a current snapshot loses only what its operation removes. `RefinesHistory`: the file implements `LockfileHistory` |
| `one_truth_rules` | 7 workspaces of up to 3 types, 6 functions and conversions, 4 concepts, 2 commands besides the fixes | `AcceptingConverterAnswers`, `AcceptingBoundaryAnswers`: an acceptance settles what it should, forgives nothing else but uses in the file of the boundary, and raises nothing (converter). `RebuiltIsRegistered`: OT006 is silent after a rebuild. `FixesConverge`: following suggestions ends with no finding |
| `policy_guard` | 1 budget, 3 values, lists of up to 3 overrides, 2 patterns, 2 modules, 3 edits, from an empty and from a tight policy | `StrictMergeNeverWidens`: a silent audit protects the budgets that the rules apply. `NothingUngranted`: what is exempt was granted with metadata, over any number of merges; no merge without a baseline passes unless allowed |
| `exception_lifecycle` | 2 diagnostics, 3 hints, 3 exceptions, 3 days | `LapseIsAnnounced`, `PruneIsNeutral`, `ShownStaysShown`; `DateFollowsCalendar`, from 18 days at the ends of months, years and centuries |
| `check_run` | 18 scans, 4 declarations, 4 lockfiles, 3 changes, 3 audits, both modes | `NeverPanics`, `DecisionsStayPaired`, `SuccessMeansExcused`, `ShownOnce` |
| `crate_cycles` | every graph of 4 crates, one of which also imports itself and `::...` | `NeverPanics`, `ComponentsAreClasses`, `CyclesReportedOnce`, `Terminates` |
| `dependency_rules` | 3 feature names, 4 patterns that overlap, 2 workspaces, 3 entries | `DeclaringNeverHides`, `SuggestionSpeaksOfFindings`, `FollowingSettles` |
| `paradigm_review` | 3 workspaces, each with an empty lockfile or one written by hand, 45 commands, 3 declarations or changes of code | `DeclaringMovesOneWay`: accepting, restricting and owning move the findings of a paradigm one way. `EarlierOverridesWin`: an override added later changes no budget that an earlier one gives. `VacantIsSilent`: a paradigm that LOCUS002 nudges for reports nothing but what reads no section |
| `onboarding` | a young and a grown workspace, 5 paradigms, one decision of the developer's own | `OnboardingEnds` (liveness), `FollowingShrinks`, `CapFitsMost` |

Why the bounds are enough. Three commands or edits make the longest chain that matters
for one section: one creates an entry, the next changes it, the third overlaps with
either; two processes give every order of load, truncate and write of two saves. With
three override positions and two nested patterns a list can hold a duplicate, a narrow pattern
before a broad one, and the reverse; three edits move from one to another between
merges. Three days hold the day before, of and after an expiry. The scans
of `check_run` hold repeated findings, a migrated rule that both sides report, and a
rule that is not registered. Four crates are enough for two components with an edge
between them, for a component that is entered twice, and for a cycle in a cycle. The workspaces of `one_truth_rules` hold a canonical with two boundaries
and conversions between any two of them, hinted in three ways or not at all, an enum and a newtype
that shadow a canonical, one under a stem of its own, an alias that is hinted canonical before the type it stands for, and a converter path; each of the twelve rules fires in
some state. Their types have distinct names but for one pair: with more of them shared the rules take one type
for another (below). Three
features make a later one overlap with two before it, and the workspaces of `dependency_rules` hold three reaches
into one feature, reaches both ways and an import within a feature. The three workspaces of
`paradigm_review` hold an item for every rule of the eighteen paradigms; each of the 74 rules fires in
some state. Three declarations put two entries of a list after one another with a change of code
in between, and let a second owner follow a first. In `onboarding` the young workspace has three functions, one of them long, so
that rounding the rank down misses the cap; the grown one has twenty, so that one may exceed it, and three
imports that reach into a feature. The decision of the developer's own may come before, in the middle of or after the
checklist. `TypeOK` is checked or proved (section 4) for every module with variables. Invocations are interchangeable, hence
the symmetry over `Proc`; so are the names of features. Deadlock is not checked where a bound on edits or the end of
a run lets the model stop.

Three runs show where a comment, a help text or a document says more than the code does:

| Run | Says | Does |
|---|---|---|
| `init_keeps_accepted` | `init.rs:60`: accepted decisions survive a re-run | `init` replaces the OT section when the tree has hints |
| `acknowledged_ends_init` | init design, line 267: what is acknowledged empty is not suggested again | the suggestions for several paradigms at once (`cross_paradigm_suggestions`) do not look at `acknowledged_empty`, and the option to skip that they print changes nothing |
| `accepted_never_panics` | `edit.rs:3` and `lockfile_schema.rs:89` (DG): commands validate the inputs, and a pattern that is nothing but wildcards matches nothing | the commands store `*::*`, and the next check panics in `matches_pattern` on the slice `[3..1]`; the other paradigms hold the same function |

More of this kind, without a run. `accept canonical --force` on a boundary of the same concept
leaves both entries, and OT005 then asks for a converter between the canonical and itself
(`accept.rs:4`: no silent collisions). `init --no-overwrite` tests for the file before its scan, and a file
that appears meanwhile is overwritten. The comment in `ot006.rs:79` leaves conversions across concepts to OT007, which
reports them only between two boundaries; from a canonical of one concept to a boundary of another neither
does. OT004 and OT009 keep one canonical for each name, the last concept's, so a function in the
owner file of another canonical of that name is reported. OT001 fires for canonicals of different concepts whose names share a
stem. Some suggestions do not settle their finding: "accept this function and rerun `locus init`" (OT004,
OT009) loses the acceptance when the tree has hints, a boundary hint (OT010 to OT012) is ignored by `init` when the stem of the
type has no cluster with a hinted canonical, and a re-run of `init` (OT006) changes nothing when no hints exist. By `emit.rs:160`, `--changed` does not drop bypasses introduced in
modified files, but it does when an unchanged file holds the first of them (which takes a rule
with an unregistered id, and the standard registry has none); `accept.rs:5` says that all operations validate the symbol
against AIR, and `accept converter` does not; `docs/CLI_AGENT_INTERFACE.md:246` lets
`prune` remove an entry only if its source is gone, while the command goes by date. OT007 cuts ends down to the last segment (`ot007.rs:72`), so that
the conversion between a canonical and a boundary of the same name counts as adapter-to-adapter, where
`ot007.rs:3` speaks of two boundaries. Deleting a section with a budget tighter than the fallback raises the threshold without PG001
(`policy_guard.rs:305`; the table in the design says no without calibration). LOCUS001 says "no longer suppressed" (`exceptions.rs:473`) also
when a later live exception still suppresses the diagnostic.

In the paradigms. AB001 takes the count under the full symbol and forgets impls that name the trait by its last
segment (`abstraction_discipline/rules.rs:197`); DA001 charges such an impl to the first trait of that name in the order of symbols. The
fix that DC004 suggests, `TODO(alice)`, still fires DC002. `locus cr set-wiring-density-threshold`, which the checklist prints
(`composition_root/init.rs:92`), is no command. In a workspace of one package the feature suggestion prints the glob
`m::*` (`init.rs:568`), which no module `x::m::...` matches. After `da disable`, `pa accept-colocated` or `rm add-exempt-path` on a
fresh lockfile the vacancy seed is silent while LOCUS002 fires, because one looks for a section and the other at
its fields. The text of LOCUS002, that no rule can fire, is not true of PA001, ER001, ER007, RW005 and RW006, which read no
section (`Structural`). CR has its own pattern matcher (`composition_root/rules.rs:250`). Policy Guard does not compare
`MO.lib_rs_kinds`, `RM.exempt_paths` and `CL.exempt_paths`. `init.rs:88` says that FO mirrors the features of DG, which nothing does.

**Fairness and liveness.** `FixesConverge` assumes weak fairness of `Follow`: a developer, or
an agent told to make the check pass, who does not give up while a suggestion is there that settles its
finding. `Follow` leaves out alternatives that do not settle theirs (see above); choice among
the others, and commands in between, are free. `Terminates` assumes weak fairness of `Next` in `CrateCycles`: the rule is a plain
function call on one thread, which goes on as long as it has a step to take. What has to be shown is
that recursion over a cyclic graph uses its steps up. `OnboardingEnds` assumes weak fairness of `Follow \/ Skip`:
the design of `init` asks the agent to run a command of the checklist and run `init` again until it
is empty. `Follow` takes any command that changes a section and `Skip` any option that acknowledges something new, so that
the choice is free and only progress is assumed; the two suggestions that nothing settles
(`acknowledged_ends_init`, the density command that does not exist) are why the property asks for no suggestion *with a command*
and not for an empty checklist. Nothing else has fairness. A process on the lockfile runs once and may crash; a developer may never edit
or merge again; a check is a straight line of stages that ends because there is nothing to
wait for. The code retries nothing and waits for nobody, so a liveness property would hold
by the shape of the model or by a fairness that nothing in the code provides.

## 4. What is proved

All theorems hold for every value of the constants that satisfies the named assumptions
in the modules: any number of processes, symbols, patterns and suppressors, any lists.

* **`LockfileCommandsProofs`**: `TypeCorrect`, `OneConceptEver`, `NoOrphansEver`,
  `LossNeedsOverlapOrIntent`, `LockfileImplementsHistory`. On disk the
  invariants are not inductive, for a save writes what some process has kept in memory
  since an earlier version. The inductive invariant `IInv` therefore says of every readable
  version *and* of what every process is about to save that it is well-formed (one concept per
  symbol, no orphans). Each edit keeps a section
  well-formed. The lemma about `accept` rests on `role_of`, whose first hit in the order of
  concepts is *the* role once there is only one; `LeastNatural` supplies that such a first hit exists. `LossNeedsOverlapOrIntent` and the refinement need to know where a waiting
  edit comes from, which a second invariant, `Pending`, says: it was made of some version that was readable, and while the copy of a process is not
  stale, of the one on disk. A write of a stale copy is then a `Record` in `LockfileHistory` like any
  other, a truncation or a torn write is a `Damage`, and a loss beyond what an operation removes takes a stale copy.
* **`PolicyGuardProofs`**: `TypeCorrect`, `Ratchet`, `EveryExemptionGranted`. `Ratchet` is the
  one that a reviewer would argue about: the audit compares overrides by pattern, the rules
  take the first match. For a module, let the first match of the new list sit at pattern
  `p`. If no override is new, `p` is in the old list, and the first override of `p` there
  has a budget at least as high. It is the first match of the old list, because a pattern that
  precedes it there also precedes it in the new one (`KeepsOverrides`). Without that premise
  the statement is false: moving a broad override before a narrow one loosens the narrow
  module without any diagnostic.
* **`OneTruthReviewProofs`**: `TypeCorrect`, `RebuiltRegisters`, `ConvertersAnswer`, `BoundariesAnswer`. `RebuiltRegisters`
  holds in every state, by the shape of what `init` builds: it is well-formed, so the first
  match of an end has one concept; the two ends match different symbols of it, hence one of them is a boundary, the concept is
  clustered, and `collect_converters` has seen the conversion. The assumption `DistinctEnds`, that no
  symbol matches both ends, is needed: for two types of one name that are no cluster, OT006 reports their
  conversion right after `init`. `ConvertersAnswer` compares the findings of each of the twelve rules before and after. The
  last concept of a non-empty set exists because a lockfile holds finitely many (`GreatestRank`). `BoundariesAnswer`
  starts from what the guards of `accept boundary` leave: the type has a role in no other concept and is not the canonical of this one, so that
  `role_of` returns this concept afterwards and no role of any other type has moved (`Gains`). Clusters keep their canonicals,
  and every rule goes on saying what it said of other types (`LittleIsForgiven`), for any workspace but in one rule. OT006 looks ends up by text, and where a text matches
  two types, the new role may hide the other one and with it a conversion that is not registered; hence the hypothesis
  `UniqueEnds`, that a text matches one type, unless the other end matches none.
* **`CrateCyclesProofs`**: `TypeCorrect`, `SearchNeverPanics`, `ComponentsCorrect`, `ReportCorrect`: Tarjan's
  algorithm as it stands here is correct, on every set of crates and imports. The inductive
  invariant has thirteen parts. Indices, stack and calls are in the same order. A crate in
  the stack reaches everything above it while its call is open (`Above`), and something below
  it once the call has ended (`Below`). The link of an open call is the index of a crate in
  the stack that is reached (`LinkReach`), and no edge looked at leads below it (`LinkBound`). What
  has left the stack is closed under the edges (`EmittedInv`). When the link of the top crate is its own
  index, the set above it is closed but for what was emitted, and going down from any crate of the
  set ends at the top crate: the set is one class.
* **`DependencyRulesProofs`**: `TypeCorrect`, `NoDuplicates`, `DeclaringAdds`, `SuggestionsAgree`,
  `SuggestionsSettle`. A declaration only appends (`Grows`), and the first match of a path
  in a list is also its first match in a longer one, so findings grow with the section. For suggestions, the
  invariant that names are unique makes the feature that `find` returns the one that was
  counted, and replacing its API in place moves no path to another feature.
* **`ExceptionLifecycleProofs`**: `TypeCorrect`, `LapsesAreAnnounced`, `TimeOnlyReveals`,
  `PruningIsNeutral`, `DatesFollowCalendar`. The strengthening: while nobody touches a suppressor, whatever the
  last check kept quiet has a cause that is still there or was pruned, and whatever it
  showed is covered by expired suppressors only. `DatesFollowCalendar` is arithmetic: a day has a place, that
  is an era, a year of the era and a day of that year, counted from March. The divisions of the code give just
  that place (each is bounded from both sides), and the next day has the next place. Month and day of the month follow
  from the day of the year, of which there are 366.
* **`ParadigmReviewProofs`**: `TypeCorrect`, `VacantParadigmsAreSilent`, `DeclarationsMoveOneWay`, `BudgetsStay`,
  `FollowingOpensNothing`, `CapsFit`. The lockfile may hold anything of its type at first, so that types are the
  whole invariant and the work is in single steps. For each of the 32 commands a lemma says which field of
  its section grows, and for each of the rules that read the field, that its findings only grow or only shrink with it. `BudgetsStay` is
  once more about a first match: an override that is put at the end does not come first for a module that has one.
  For `FollowingOpensNothing` each suggestion is shown to be gone after its command, and the suggestions of other
  paradigms to depend on nothing that the command changes. `CapsFit` counts: `P95` is the least value that 95% do
  not exceed, and raising and rounding it up takes it no lower.
* **`CheckRunProofs`**: `TypeCorrect`, `PoliciesDecideEverything`, `PairingSurvives`, `SuccessIsEarned`,
  `MigratedRulesShowOnce`. The inductive invariant goes by the stages: what is in the store was collected or put there by a policy that ran (`StoreInv`);
  the decisions are of different findings, and after the last policy of all of them (`DecisionsInv`); the records are in the order of their
  decisions and each shows its own (`RecordsInv`); after a filter just those decisions are left that got through it (`FiltersInv`); what
  Policy Guard said is there in the end (`EndInv`). The one hard step is the walk that pairs diagnostics with decisions
  again (`PairedSurvivors`). The walk takes the *next equal* diagnostic, so that it could stop early, at one that was silenced,
  or run past the end. It does not stop early because suppression depends on the diagnostic alone: whatever equals a survivor survives. Nor is
  the record of a finding given to a LOCUS001 notice, because no rule reports under that code
  (`ScansAssumption`) and no policy does. The places the walk gives are found by induction on the place, for one set at a time (`Induction`,
  from the least element of a set of numbers).

**Assumptions.** Besides what types constants, and that sets of concepts, suppressors and the like are finite, as they are in a
file: `CrateCycles` has finitely many crates, each a number; `DistinctEnds` and `UniqueEnds` are hypotheses of
`RebuiltRegisters` and `BoundariesAnswer` (above), true where types have distinct names. In `CheckRun`, `ScansAssumption` says that no rule reports under `LOCUS001`; that rule id and text
tell the paradigm; and that a rule id on both sides of the migration is registered, as the
adapter takes it to be (`legacy.rs:36`). `AuditsAssumption` gives Policy Guard rule ids of its own (`PG...`). `RegistryAssumption` says that the
codes the policies use are governance codes. In `Air`, names and texts are any set `Text` of pieces. TLC evaluates all of
them on the instances of section 3.

**Only model-checked.** `Terminates`, `FixesConverge` and `OnboardingEnds` are liveness under fairness, which the
provers do not reach. What `AcceptingBoundaryAnswers` and `RebuiltIsRegistered` say of workspaces with shared names, beyond the two
hypotheses, is left to TLC. The three runs that show a violation have no theorem, of course.

## 5. What is not modelled

* Parsing Rust with `syn`, module paths and the framework loaders: they produce the AIR that the models take as
  input, by traversal of syntax trees, which has no state and no order of steps to get wrong.
* Conversions of the semantic adapter and their precedence (`prefer_higher_provenance`): a spike off the path of `check`.
* The suggestions of OT (`suggest`, `elect_canonical`, confidence): they compare similarity scores of names and
  fields; `OneTruthSection` takes clustering as a relation.
* Merging suggestions with the same commands and sorting them (`aggregate`): the checklist is a set here.
* The Locus block in `AGENTS.md`: text for agents, which decides nothing.
* Validation of registries at start-up, the order in which refs are tried for a baseline, output formats, and the
  read-only commands apart from the status that `debt` gives.
* Sections damaged by hand outside CX and MO: they read as empty, and every command refuses them.

## 6. Plan

1. A measure that sinks with every step of Tarjan's search (`CrateCycles`), and with every step along the checklist: the
   part of `Terminates` and `OnboardingEnds` that is safety.
2. That Policy Guard's ratchet holds over a chain of merges, as a bound on budgets and not step by step.
3. A check that reads the lockfile while commands write it.
