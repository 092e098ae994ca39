------------------------------ MODULE Exceptions ------------------------------
(***************************************************************************)
(* Suppression of diagnostics (exceptions.rs): `// locus: allow` hints in  *)
(* the source and the exceptions of .locus/lock.json.  The module is pure. *)
(*                                                                         *)
(* A suppressor is one hint or one lockfile exception.  apply_exceptions   *)
(* walks them in a fixed order for each diagnostic, hints first; `rank` is *)
(* the place in that walk.  Dates are compared as texts in the code, so a  *)
(* date is its rank among the texts, whether or not it is well formed.     *)
(***************************************************************************)
EXTENDS Naturals

CONSTANTS
    Rule,           \* rule ids, equal up to case
    Family,         \* two-letter prefixes
    FamilyOf,       \* FamilyOf[r]: the prefix of rule r
    File,           \* paths as they appear in spans and targets
    Suffix,         \* pairs <<f, g>>: the text of f ends with that of g
    Wildcard,       \* the wildcard *
    Never,          \* a hint without expires=
    Diag,           \* diagnostics the rules can produce
    Suppressor      \* hints and lockfile exceptions that can be written

ASSUME RuleAssumption == Wildcard \notin (Rule \cup Family \cup File) /\ Never \notin Nat
ASSUME DiagAssumption ==
    \A d \in Diag : d.rule \in Rule /\ d.file \in File /\ d.first \in Nat /\ d.last \in Nat
ASSUME SuppressorAssumption ==
    \A s \in Suppressor :
        /\ s.source \in {"source hint", "lockfile exception"}
        /\ s.rank \in Nat
        /\ s.expires \in Nat \cup {Never}
        /\ s.source = "lockfile exception" => s.expires \in Nat
        /\ \A t \in Suppressor :
            /\ s.rank = t.rank => s = t
            /\ s.source = "source hint" /\ t.source # s.source => s.rank < t.rank

Lockfile == {s \in Suppressor : s.source = "lockfile exception"}
Hint     == Suppressor \ Lockfile

-----------------------------------------------------------------------------
(* Which diagnostics a suppressor is about *)

RuleMatches(allow, rule) ==
    \/ allow \in {Wildcard, rule}
    \/ allow \in Family /\ FamilyOf[rule] = allow

SameFile(f, g) == f = g \/ <<f, g>> \in Suffix \/ <<g, f>> \in Suffix

\* A hint is about the line below it, an exception about a file or about one
\* line of it.  A hint on the last line is about nothing.
TargetMatches(s, d) ==
    CASE s.scope = "unbound" -> FALSE
      [] s.scope = "file"    -> s.file = Wildcard \/ SameFile(s.file, d.file)
      [] s.scope = "line"    -> SameFile(s.file, d.file) /\ s.line \in d.first..d.last

Covers(s, d) == RuleMatches(s.allow, d.rule) /\ TargetMatches(s, d)

-----------------------------------------------------------------------------
(* Expiry *)

\* A slip in is_expired: the comparison is the wrong way round.
MutReversed(s, today) == s.expires # Never /\ today < s.expires

\* The day named by `expires` is the last one on which it holds.
IsExpired(s, today) == s.expires # Never /\ s.expires < today

\* locus debt
DebtStatus(s, today) ==
    IF s.expires = Never THEN "Unbounded"
    ELSE IF IsExpired(s, today) THEN "Expired" ELSE "Active"

\* A slip in prune_expired: what expires today goes as well.
MutPruneToday(lock, today) == {s \in lock : s.expires > today}

\* locus prune
PruneExpired(lock, today) == {s \in lock : s.expires >= today}

-----------------------------------------------------------------------------
(* apply_exceptions, with the suppressors sup on the day today *)

Live(sup, d, today) == {s \in sup : Covers(s, d) /\ ~IsExpired(s, today)}

Suppressed(sup, d, today) == Live(sup, d, today) # {}

\* The expired suppressors that the walk meets before a live one ends it.
Lapsed(sup, d, today) ==
    {s \in sup : /\ Covers(s, d) /\ IsExpired(s, today)
                 /\ \A t \in Live(sup, d, today) : s.rank < t.rank}

\* LOCUS001 names the rule, the source and the date; equal notices are merged.
Notice(s, d) ==
    [rule |-> d.rule, file |-> d.file, first |-> d.first,
     source |-> s.source, expired |-> s.expires]

Shown(tree, sup, today) == {d \in tree : ~Suppressed(sup, d, today)}

\* A slip in the walk: notices are kept only for what is suppressed in the end.
MutNoticesOfSuppressed(tree, sup, today) ==
    UNION {{Notice(s, d) : s \in Lapsed(sup, d, today)} :
            d \in tree \ Shown(tree, sup, today)}

Notices(tree, sup, today) ==
    UNION {{Notice(s, d) : s \in Lapsed(sup, d, today)} : d \in tree}
=============================================================================
