------------------------------- MODULE CheckRun -------------------------------
(***************************************************************************)
(* One run of `locus check`, from the scan to the exit status.  The rules, *)
(* the legacy paradigms, git and the Policy Guard audit (PolicyGuard) are  *)
(* inputs; the governance pipeline, the exceptions and the order in which  *)
(* the stages pass records on are the program.                             *)
(***************************************************************************)
EXTENDS Governance, Exceptions

CONSTANTS
    Scans,          \* what observed and legacy rules may report of a tree
    Archs,          \* .locus/arch.json, as it may be found
    Lockfiles,      \* sets of suppressors in force
    Today,          \* the date of the run
    ChangedFiles,   \* answers of git to --changed
    Everything,     \* no --changed
    Audits          \* what Policy Guard may have to say

Severities == {"advisory", "warning", "fatal"}

Violation == [rule : Rule, paradigm : STRING, span : [file : File, first : Nat, last : Nat],
              severity : Severities, text : Seq(STRING)]

Diagnostic == [rule : Rule, file : File, first : Nat, last : Nat,
               severity : Severities, text : Seq(STRING)]

\* The codes of the exceptions and of the policies are rule ids.
ASSUME CodesAssumption ==
    {"LOCUS001", "LOCUS003", "LOCUS004", "LOCUS005"} \subseteq Rule

\* No rule reports under the code of the exceptions.  A rule id, with the text,
\* tells the paradigm; what both a legacy paradigm and an observed rule report
\* under, the latter is registered for.
ASSUME ScansAssumption ==
    \A scan \in Scans :
        /\ scan.observed \in Seq(Violation) /\ scan.legacy \in Seq(Violation)
        /\ \A v, w \in ToSet(scan.observed) \cup ToSet(scan.legacy) :
                /\ v.rule # "LOCUS001"
                /\ v.rule = w.rule /\ v.text = w.text => v.paradigm = w.paradigm
        /\ \A v \in ToSet(scan.observed), w \in ToSet(scan.legacy) :
                v.rule = w.rule => v.rule \in Registered

ASSUME ArchsAssumption ==
    \A arch \in Archs :
        /\ arch.status \in {"missing", "invalid", "present"}
        /\ arch.status = "present" =>
                /\ IsFiniteSet(arch.policies)
                /\ arch.concepts \in Seq([id : STRING, enforcement : {"enforced", "advisory"}])

ASSUME LockfilesAssumption == \A sup \in Lockfiles : sup \subseteq Suppressor /\ IsFiniteSet(sup)

\* Policy Guard has rule ids of its own.
ASSUME AuditsAssumption ==
    \A audit \in Audits :
        /\ audit \in Seq(Diagnostic)
        /\ \A scan \in Scans, d \in ToSet(audit) :
                \A v \in ToSet(scan.observed) \cup ToSet(scan.legacy) : v.rule # d.rule

VARIABLES
    stage,          \* the stage that comes next, or how the run ended
    input,          \* the command line and what the run reads
    store,          \* the findings, by id
    decisions,      \* in the order the policies made them
    records         \* diagnostics, each with its decision or 0

vars == <<stage, input, store, decisions, records>>

\* A slip in run(): the guard's diagnostics are appended too early.
MutGuardFirst ==
    <<"collect">> \o Policies
    \o <<"materialize", "guard", "exceptions", "changed", "exit">>

\* The stages of run(), in order.
Stages ==
    <<"collect">> \o Policies
    \o <<"materialize", "exceptions", "changed", "guard", "exit">>

StageAfter(s) == Stages[1 + CHOOSE i \in DOMAIN Stages : Stages[i] = s]

Init ==
    /\ stage = "collect"
    /\ input \in [mode    : {"human", "agent_strict"}, scan : Scans, arch : Archs,
                  sup     : Lockfiles,
                  changed : ChangedFiles \cup {Everything}, audit : Audits]
    /\ input.mode = "human" =>
            \A i \in DOMAIN input.audit : input.audit[i].severity # "fatal"
    /\ store = <<>>
    /\ decisions = <<>>
    /\ records = <<>>

-----------------------------------------------------------------------------
(* Passing records through the exceptions *)

Silenced(r) == Suppressed(input.sup, r.diag, Today)

Announced ==
    LET tree == {records[i].diag : i \in DOMAIN records}
    IN  {[rule |-> "LOCUS001", file |-> n.file, first |-> n.first, last |-> n.first,
          severity |-> "warning", text |-> <<n.source, n.rule, n.expired>>] :
            n \in Notices(tree, input.sup, Today)}

\* A slip in the re-pairing: survivors are matched to the records by position.
MutPairByPosition(pre, post) ==
    [i \in DOMAIN post |->
        [diag |-> post[i], decision |-> IF i <= Len(pre) THEN pre[i].decision ELSE 0]]

\* The next record after a place that shows the diagnostic, or the end of the records.
NextEqual(pre, place, diag) ==
    Min({i \in (place + 1)..Len(pre) : pre[i].diag = diag} \cup {Len(pre) + 1})

\* apply_exceptions knows diagnostics only.  Its result is laid beside the
\* records again by one walk: each diagnostic takes the next equal one.
Cursor(pre, post) ==
    LET cursor[k \in 0..Len(post)] == IF k = 0 THEN 0 ELSE NextEqual(pre, cursor[k - 1], post[k])
    IN  cursor

Paired(pre, post) ==
    LET cursor == Cursor(pre, post)
    IN  [k \in DOMAIN post |-> IF cursor[k] \in DOMAIN pre THEN pre[cursor[k]]
                               ELSE [diag |-> post[k], decision |-> 0]]

\* --changed keeps what lies in a changed file.
InChange(r) == input.changed = Everything \/ r.diag.file \in input.changed

IsFatal(r) == r.diag.severity = "fatal"

-----------------------------------------------------------------------------
(* The stages *)

\* The registered rules observe, then the legacy paradigms are adapted.
CollectFindings ==
    /\ stage = "collect"
    /\ store' = Collect(input.scan.observed, input.scan.legacy)
    /\ stage' = StageAfter(stage)
    /\ UNCHANGED <<input, decisions, records>>

RunPolicy(policy) ==
    /\ stage = policy
    /\ LET out == Decide(policy, store, decisions, input.arch, input.mode) IN
        /\ store' = store \o out.findings
        /\ decisions' = decisions \o out.decisions
    /\ stage' = StageAfter(stage)
    /\ UNCHANGED <<input, records>>

\* validate_decisions panics, or the decisions become diagnostics.
MaterializeDecisions ==
    /\ stage = "materialize"
    /\ IF Valid(store, decisions)
       THEN records' = Records(store, decisions) /\ stage' = StageAfter(stage)
       ELSE stage' = "panic" /\ UNCHANGED records
    /\ UNCHANGED <<input, store, decisions>>

ApplyExceptions ==
    /\ stage = "exceptions"
    /\ LET survivors == Picked(records, {i \in DOMAIN records : ~Silenced(records[i])})
           post == [i \in DOMAIN survivors |-> survivors[i].diag] \o SetToSeq(Announced)
       IN  records' = Paired(records, post)
    /\ stage' = StageAfter(stage)
    /\ UNCHANGED <<input, store, decisions>>

FilterChanged ==
    /\ stage = "changed"
    /\ records' = Picked(records, {i \in DOMAIN records : InChange(records[i])})
    /\ stage' = StageAfter(stage)
    /\ UNCHANGED <<input, store, decisions>>

\* git cannot tell what changed: the run ends with an error.
FailToDiff ==
    /\ stage = "changed"
    /\ input.changed # Everything
    /\ stage' = "error"
    /\ UNCHANGED <<input, store, decisions, records>>

AppendGuard ==
    /\ stage = "guard"
    /\ records' = records \o [i \in DOMAIN input.audit |->
                                [diag |-> input.audit[i], decision |-> 0]]
    /\ stage' = StageAfter(stage)
    /\ UNCHANGED <<input, store, decisions>>

Exit ==
    /\ stage = "exit"
    /\ stage' = IF \E i \in DOMAIN records : IsFatal(records[i]) THEN "exit 1" ELSE "exit 0"
    /\ UNCHANGED <<input, store, decisions, records>>

Next ==
    \/ CollectFindings
    \/ \E policy \in PolicyIds : RunPolicy(policy)
    \/ MaterializeDecisions
    \/ ApplyExceptions \/ FilterChanged \/ FailToDiff \/ AppendGuard \/ Exit

Spec == Init /\ [][Next]_vars

-----------------------------------------------------------------------------
(* Properties *)

Outcomes == {"panic", "error", "exit 0", "exit 1"}

\* Every variable stays in its type; the rule of a diagnostic is a rule id or a
\* diagnostic code, never the name of a policy.
TypeOK ==
    /\ stage \in ToSet(Stages) \cup Outcomes
    /\ \A i \in DOMAIN decisions :
            decisions[i].finding \in DOMAIN store /\ decisions[i].policy \in PolicyIds
    /\ \A i \in DOMAIN records :
        /\ records[i].decision \in 0..Len(decisions)
        /\ records[i].diag.rule \in Rule
        /\ records[i].diag.severity \in Severities

\* validate_decisions never makes the program panic: whatever was observed and
\* declared, the policies decide every finding, and each of them once.
NeverPanics == stage # "panic"

Kept(k) ==
    LET r == [diag |-> Materialize(store, decisions[k]), decision |-> k]
    IN  ~Silenced(r) /\ InChange(r)

\* The decision printed beside a diagnostic is the one that produced it, no two
\* diagnostics share one, and after all the filters the decisions that are left
\* are those whose diagnostic no live exception covers and that lie in the
\* change, though apply_exceptions has thrown the pairing away in between.
DecisionsStayPaired ==
    /\ \A i \in DOMAIN records : records[i].decision # 0 =>
            records[i].diag = Materialize(store, decisions[records[i].decision])
    /\ \A i, j \in DOMAIN records :
            i < j /\ records[j].decision # 0 => records[i].decision < records[j].decision
    /\ stage \in {"guard", "exit", "exit 0"} =>
            {records[i].decision : i \in DOMAIN records} \ {0}
                = {k \in DOMAIN decisions : Kept(k)}

\* A violation is excused by a live exception, or lies outside the change.
Excused(v) ==
    LET r == [diag |-> [rule |-> v.rule, file |-> v.span.file,
                        first |-> v.span.first, last |-> v.span.last]]
    IN  Silenced(r) \/ ~InChange(r)

\* End to end: the run reports success only if Policy Guard has nothing fatal
\* to say, whatever the exceptions and the change, and every fatal violation
\* was excused.
SuccessMeansExcused ==
    stage = "exit 0" =>
        /\ \A i \in DOMAIN input.audit : input.audit[i].severity # "fatal"
        /\ \A i \in DOMAIN input.scan.observed :
                LET v == input.scan.observed[i] IN v.severity = "fatal" => Excused(v)
        /\ \A i \in DOMAIN input.scan.legacy :
                LET v == input.scan.legacy[i] IN
                v.severity = "fatal" /\ v.rule \notin Registered => Excused(v)

\* While rules migrate, a violation that both the registered rule and its
\* legacy paradigm report is shown once.
ShownOnce ==
    IsInjective(input.scan.observed) /\ IsInjective(input.scan.legacy) =>
        \A i, j \in DOMAIN records :
            records[i].diag = records[j].diag /\ records[i].decision # 0
                /\ records[i].diag.rule \notin GovernanceCode => i = j
=============================================================================
