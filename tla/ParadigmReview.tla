---------------------------- MODULE ParadigmReview ----------------------------
(***************************************************************************)
(* A developer onboards the paradigms of a workspace: runs their commands, *)
(* acknowledges those that shall stay empty, follows the checklist that    *)
(* `locus init` prints, and changes the code.                              *)
(***************************************************************************)
EXTENDS InitChecklist

CONSTANTS
    Workspaces,     \* what a scan may find
    Starts,         \* what is there at first: a workspace, and a lockfile that may be
                    \* written by hand
    MaxDecisions    \* bound on the developer's own decisions

ASSUME StartsAssumption == Starts \subseteq Workspaces \X Lock
ASSUME WorkspacesAssumption == \A ws \in Workspaces : IsWorkspace(ws)
\* A module at the top can be a feature.
ASSUME FeaturesAssumption == \A ws \in Workspaces : TopLevelModules(ws) \subseteq FeatureName
ASSUME MaxDecisionsAssumption == MaxDecisions \in Nat

VARIABLES
    code,           \* the workspace a scan finds
    lock,           \* the sections of the lockfile
    written,        \* the prefixes whose sections are in the file
    acknowledged,   \* acknowledged_empty
    decisions       \* how many there were

vars == <<code, lock, written, acknowledged, decisions>>

TypeOK ==
    /\ code \in Workspaces
    /\ lock \in Lock
    /\ written \subseteq Prefix
    /\ acknowledged \subseteq Prefix
    /\ decisions \in 0..MaxDecisions

Init ==
    /\ \E start \in Starts : code = start[1] /\ lock = start[2]
    /\ written = {p \in Prefix : lock[p] # EmptyLock[p]}
    /\ acknowledged = {}
    /\ decisions = 0

-----------------------------------------------------------------------------
(* A command of a paradigm: load, edit, save *)

\* A slip of Run: the section is saved under the name of the verb.
MutRun(c) ==
    /\ Accepts(c, lock[c.prefix])
    /\ lock' = [lock EXCEPT ![c.prefix] = Edited(c, @)]
    /\ written' = written \cup {c.name}
    /\ UNCHANGED <<code, acknowledged>>

Run(c) ==
    /\ Accepts(c, lock[c.prefix])
    /\ lock' = [lock EXCEPT ![c.prefix] = Edited(c, @)]
    /\ written' = written \cup {c.prefix}
    /\ UNCHANGED <<code, acknowledged>>

Decides == decisions < MaxDecisions /\ decisions' = decisions + 1

Declare == Decides /\ \E c \in Commands : Run(c)

\* locus init --acknowledge-empty; one that is acknowledged already is not added again.
Acknowledge ==
    /\ Decides
    /\ \E p \in Paradigms : acknowledged' = acknowledged \cup {p}
    /\ UNCHANGED <<code, lock, written>>

ChangeCode ==
    /\ Decides
    /\ code' \in Workspaces
    /\ UNCHANGED <<lock, written, acknowledged>>

\* What locus init prints now.
Open == Checklist(code, lock, written, acknowledged)

\* A command of the checklist, one that is of some use.
Follow ==
    /\ UNCHANGED decisions
    /\ \E s \in Open : \E c \in s.commands : Run(c)
    /\ <<lock, written>>' # <<lock, written>>

\* The option to skip.
Skip ==
    /\ UNCHANGED <<code, lock, written, decisions>>
    /\ \E s \in Open : acknowledged' = acknowledged \cup s.skip
    /\ acknowledged' # acknowledged

Next == Declare \/ Acknowledge \/ ChangeCode \/ Follow \/ Skip

\* The design asks to go on with the checklist until it is empty.
Spec == Init /\ [][Next]_vars /\ WF_vars(Follow \/ Skip)

-----------------------------------------------------------------------------
(* The checklist *)

OpenPrefixes == UNION {s.prefixes : s \in Open}

(* Following the checklist comes to an end: no suggestion with a command   *)
(* is left, and every paradigm that LOCUS002 still nudges for has a        *)
(* section in the file.                                                    *)
OnboardingEnds ==
    <>[](/\ \A s \in Open : s.commands = {}
         /\ Nudged(lock, acknowledged) \cap Paradigms \subseteq written)

(* Following the checklist never puts another paradigm on it, and ends the *)
(* nudge for the paradigm of the command.                                  *)
FollowingShrinks ==
    [][UNCHANGED decisions =>
        /\ OpenPrefixes' \subseteq OpenPrefixes
        /\ \A p \in Paradigms : lock'[p] # lock[p] => p \notin Nudged(lock, acknowledged)']_vars

\* How much of what a cap of that paradigm counts exceeds it.
Counted(prefix) ==
    CASE prefix = "MO" -> TypesPerFile(code)
      [] prefix = "CX" -> LinesPerFunction(code)
      [] prefix = "RM" -> KindsPerFunction(code)

(* A cap that the checklist suggests fits 95% of what the paradigm counts, *)
(* so that the rule it switches on or moves fires for the rest at most.    *)
CapFitsMost ==
    [][\A p \in {"MO", "CX", "RM"} :
        UNCHANGED decisions /\ lock'[p].default # lock[p].default =>
            LET counted == Counted(p)
            IN  20 * Cardinality({x \in DOMAIN counted : counted[x] > lock'[p].default})
                    <= Cardinality(DOMAIN counted)]_vars

(* When every paradigm is acknowledged as empty, nothing is left on the    *)
(* checklist.                                                              *)
AcknowledgedEndsInit == Paradigms \subseteq acknowledged => Open = {}

-----------------------------------------------------------------------------
(* The findings *)

\* What a command does to the findings of its paradigm.
Allows(c) ==
    <<c.prefix, c.name>> \in {<<"PA", "accept-colocated">>, <<"RM", "add-exempt-path">>,
        <<"AB", "accept-single-impl">>, <<"DA", "accept-single-impl">>, <<"DA", "disable">>,
        <<"DC", "add-exempt-path">>, <<"DC", "disable">>}

Restricts(c) ==
    \/ c.name = "define-feature" /\ ~c.force
    \/ <<c.prefix, c.name>> \in {<<"BO", "add-domain-path">>, <<"BO", "add-forbidden-import">>,
        <<"PA", "add-application-path">>, <<"RM", "add-domain-path">>, <<"UT", "add-utility-path">>,
        <<"TA", "add-test-path">>, <<"OB", "add-forbidden-log-target">>, <<"ER", "add-domain-path">>,
        <<"FL", "add-domain-path">>, <<"FL", "add-boundary-error">>, <<"DA", "enable">>,
        <<"DC", "enable">>, <<"DG", "forbid-edge">>, <<"DG", "add-shared-path">>}

\* The first owner switches its rules on, every other one is let off by them.
Owners == [CF |-> "config_paths", OB |-> "observer_paths", RW |-> "owner_paths", CR |-> "roots"]
OwnsMore(c) ==
    <<c.prefix, c.name>> \in {<<"CF", "add-config-path">>, <<"OB", "add-observer-path">>,
                              <<"RW", "accept-runtime-owner">>, <<"CR", "add-composition-root">>}

\* A new root may be too dense.
InRoots(findings) == {f \in findings : f[1] = "CR002"}

(* What a developer declares moves the findings one way: to accept or to   *)
(* exempt never adds a finding, to restrict never hides one, and to name   *)
(* an owner adds findings the first time only.                             *)
DeclaringMovesOneWay ==
    [][\A c \in Commands : Run(c) =>
        LET before == FindingsOf(code, lock, c.prefix)
            after  == FindingsOf(code, lock', c.prefix)
        IN  /\ Allows(c) => after \subseteq before
            /\ Restricts(c) => before \subseteq after
            /\ OwnsMore(c) => IF lock[c.prefix][Owners[c.prefix]] = {} THEN before \subseteq after
                              ELSE after \ InRoots(after) \subseteq before]_vars

\* The files or functions with a budget of their own.
Budgeted(prefix) ==
    LET HasBudget(module) == FirstEntry(lock[prefix].overrides, module) # 0
    IN  IF prefix = "MO" THEN {f \in DOMAIN code.files : HasBudget(code.files[f].module)}
        ELSE {g.at : g \in {g \in code.functions : HasBudget(ModuleOf(code, g))}}

(* A budget that is given to a module stays: another override, even one    *)
(* that names the module more precisely, and another default change        *)
(* nothing for what an override covers already.                            *)
EarlierOverridesWin ==
    [][\A c \in {c \in Commands : c.name \in {"set-default", "add-override"} /\ c.prefix \in {"MO", "CX"}} :
        Run(c) /\ (c.name = "add-override" => OverrideOf(lock[c.prefix], c.module) = {}) =>
            LET Kept(findings) == {f \in findings : /\ f[1] \in {"MO001", "CX001"}
                                                    /\ f[2] \in Budgeted(c.prefix)}
            IN  Kept(FindingsOf(code, lock', c.prefix)) = Kept(FindingsOf(code, lock, c.prefix))]_vars

Structural == {"PA001", "ER001", "ER007", "RW005", "RW006"}

(* A paradigm that LOCUS002 calls vacant reports nothing but what its      *)
(* structural rules find, which read no section.                           *)
VacantIsSilent ==
    \A p \in Vacant(lock) : \A f \in FindingsOf(code, lock, p) : f[1] \in Structural
=============================================================================
