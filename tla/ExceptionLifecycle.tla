-------------------------- MODULE ExceptionLifecycle --------------------------
(***************************************************************************)
(* The life of exceptions: developers change code, write and delete hints  *)
(* and lockfile exceptions, days pass, and `locus check` and `locus prune` *)
(* run in between.                                                         *)
(***************************************************************************)
EXTENDS Exceptions, Calendar

CONSTANTS
    MaxDay,     \* bound: the last day of the model
    Origins     \* what day 0 of the model may be, counted from 1 January 1970

ASSUME DayAssumption == MaxDay \in Nat
ASSUME OriginsAssumption == Origins \subseteq Nat

VARIABLES
    today,      \* the date, from the clock or from LOCUS_TODAY
    tree,       \* the diagnostics the rules find in the source tree
    sup,        \* the hints in the source and the exceptions in the lockfile
    report,     \* what the last check found, showed and announced
    settled,    \* nobody wrote or deleted a suppressor since that check
    pruned      \* exceptions that prune removed since that check

vars == <<today, tree, sup, report, settled, pruned>>

\* Every notice has a date.
NoticeType ==
    [rule : Rule, file : File, first : Nat,
     source : {"source hint", "lockfile exception"}, expired : Nat]

Init ==
    /\ today = 0
    /\ tree \in SUBSET Diag
    /\ sup = {}
    /\ report = [found |-> {}, shown |-> {}, notices |-> {}]
    /\ settled = FALSE
    /\ pruned = {}

-----------------------------------------------------------------------------
(* The program *)

\* locus check
Check ==
    /\ report' = [found   |-> tree,
                  shown   |-> Shown(tree, sup, today),
                  notices |-> Notices(tree, sup, today)]
    /\ settled' = TRUE
    /\ pruned' = {}
    /\ UNCHANGED <<today, tree, sup>>

\* locus prune edits the lockfile; it does not scan the source.
Prune ==
    LET kept == PruneExpired(sup \cap Lockfile, today) IN
    /\ sup' = (sup \cap Hint) \cup kept
    /\ pruned' = pruned \cup ((sup \cap Lockfile) \ kept)
    /\ UNCHANGED <<today, tree, report, settled>>

-----------------------------------------------------------------------------
(* Its users *)

Tick ==
    /\ today < MaxDay
    /\ today' = today + 1
    /\ UNCHANGED <<tree, sup, report, settled, pruned>>

\* Violations come and go with the code.
ChangeCode ==
    /\ \E d \in Diag : tree' = IF d \in tree THEN tree \ {d} ELSE tree \cup {d}
    /\ UNCHANGED <<today, sup, report, settled, pruned>>

\* A hint or an exception is written, or taken out again.
ChangeSuppressors ==
    /\ \E s \in Suppressor : sup' = IF s \in sup THEN sup \ {s} ELSE sup \cup {s}
    /\ settled' = FALSE
    /\ UNCHANGED <<today, tree, report, pruned>>

Next == Check \/ Prune \/ Tick \/ ChangeCode \/ ChangeSuppressors

Spec == Init /\ [][Next]_vars

-----------------------------------------------------------------------------
(* Properties *)

\* Every variable stays in its type.
TypeOK ==
    /\ today \in Nat
    /\ tree \subseteq Diag
    /\ sup \subseteq Suppressor
    /\ report \in [found : SUBSET Diag, shown : SUBSET Diag, notices : SUBSET NoticeType]
    /\ settled \in BOOLEAN
    /\ pruned \subseteq Lockfile

About(n, d) == n.rule = d.rule /\ n.file = d.file /\ n.first = d.first

\* A lapse does not pass in silence: a violation that the last check kept quiet
\* and this one shows, though nobody touched a suppressor, comes with a
\* LOCUS001, or prune has removed an exception that covered it.
LapseIsAnnounced ==
    [][Check /\ settled =>
        \A d \in (report.found \ report.shown) \cap report'.shown :
            \/ \E n \in report'.notices : About(n, d)
            \/ \E s \in pruned : Covers(s, d)]_vars

\* prune.rs and exceptions.rs compare dates each in its own way; they agree.
\* What prune removes suppresses nothing on this or any later day, and it
\* leaves no exception that `locus debt` would list as expired.
PruneIsNeutral ==
    [][Prune =>
        /\ \A day \in today..MaxDay : Shown(tree, sup', day) = Shown(tree, sup, day)
        /\ \A s \in sup' \cap Lockfile : DebtStatus(s, today) # "Expired"]_vars

\* Days only ever take suppressions away: with the suppressors left alone,
\* what a check showed is shown by every later one that finds it again.
ShownStaysShown ==
    [][Check /\ settled => report.shown \cap tree \subseteq report'.shown]_vars

\* When a day passes, the date the code computes goes on to the next one of the
\* calendar, at the end of a month, in leap years and at the turn of a century,
\* so that an exception lapses on the day it names.
DateFollowsCalendar ==
    [][\A origin \in Origins : today' # today =>
        DaysToYmd(origin + today') = NextDay(DaysToYmd(origin + today))]_vars
=============================================================================
