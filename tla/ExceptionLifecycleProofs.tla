----------------------- MODULE ExceptionLifecycleProofs -----------------------
(***************************************************************************)
(* Type correctness of ExceptionLifecycle, and its properties of steps, for *)
(* every set of rules, diagnostics and suppressors and every day from 1970 *)
(* on.                                                                     *)
(***************************************************************************)
EXTENDS ExceptionLifecycle, TLAPS

\* Only a suppressor with a date expires, so a notice always has a date.
LEMMA NoticesHaveDates ==
    ASSUME NEW t \in SUBSET Diag, NEW u \in SUBSET Suppressor, NEW day \in Nat
    PROVE  Notices(t, u, day) \in SUBSET NoticeType
<1> SUFFICES ASSUME NEW d \in t, NEW s \in Lapsed(u, d, day)
             PROVE  Notice(s, d) \in NoticeType
    BY DEF Notices
<1>1. s \in Suppressor /\ s.expires # Never
    BY DEF Lapsed, IsExpired
<1>2. s.expires \in Nat /\ s.source \in {"source hint", "lockfile exception"}
    BY <1>1, SuppressorAssumption
<1>3. d.rule \in Rule /\ d.file \in File /\ d.first \in Nat
    BY DiagAssumption
<1> QED BY <1>2, <1>3 DEF Notice, NoticeType

\* Every step keeps the variables in their types.
LEMMA StepKeepsType == TypeOK /\ [Next]_vars => TypeOK'
<1> SUFFICES ASSUME TypeOK, [Next]_vars PROVE TypeOK'
    OBVIOUS
<1> USE DEF TypeOK
<1>1. CASE Check
    <2>1. Notices(tree, sup, today) \in SUBSET NoticeType
        BY NoticesHaveDates
    <2>2. Shown(tree, sup, today) \in SUBSET Diag
        BY DEF Shown
    <2> QED BY <1>1, <2>1, <2>2 DEF Check
<1>2. CASE Prune
    BY <1>2 DEF Prune, PruneExpired, Lockfile, Hint
<1>3. CASE Tick
    BY <1>3 DEF Tick
<1>4. CASE ChangeCode
    BY <1>4 DEF ChangeCode
<1>5. CASE ChangeSuppressors
    BY <1>5 DEF ChangeSuppressors
<1>6. CASE UNCHANGED vars
    BY <1>6 DEF vars
<1> QED BY <1>1, <1>2, <1>3, <1>4, <1>5, <1>6 DEF Next

\* Before the first check nothing is known and nothing is recorded.
LEMMA InitialTypes == Init => TypeOK
<1> SUFFICES ASSUME Init PROVE TypeOK
    OBVIOUS
<1>1. report \in [found : SUBSET Diag, shown : SUBSET Diag, notices : SUBSET NoticeType]
    BY DEF Init
<1>2. settled \in BOOLEAN
    BY DEF Init
<1>3. today \in Nat /\ tree \subseteq Diag /\ sup \subseteq Suppressor /\ pruned \subseteq Lockfile
    BY DEF Init
<1> QED BY <1>1, <1>2, <1>3 DEF TypeOK

\* TypeOK: every variable stays in its type, whatever is edited and pruned.
THEOREM TypeCorrect == Spec => []TypeOK
BY InitialTypes, StepKeepsType, PTL DEF Spec

-----------------------------------------------------------------------------
(* What a report of the past says about today, until someone edits.        *)

\* A diagnostic that was kept quiet had a suppressor, which is still there or
\* was pruned since.
QuietHasCause ==
    settled => \A d \in report.found \ report.shown :
                    \E s \in sup \cup pruned : Covers(s, d)

\* A diagnostic that was shown is covered by expired suppressors alone.
ShownHasExpired ==
    settled => \A d \in report.shown : \A s \in sup :
                    Covers(s, d) => IsExpired(s, today)

IInv == TypeOK /\ QuietHasCause /\ ShownHasExpired

\* Expiry is for good.
LEMMA ExpiryIsFinal ==
    ASSUME NEW s \in Suppressor, NEW day \in Nat, IsExpired(s, day)
    PROVE  IsExpired(s, day + 1)
<1>1. s.expires \in Nat
    BY SuppressorAssumption DEF IsExpired
<1> QED BY <1>1 DEF IsExpired

\* Quiet diagnostics keep their cause: prune moves it, edits end the promise.
LEMMA StepKeepsQuiet == TypeOK /\ QuietHasCause /\ [Next]_vars => QuietHasCause'
<1> SUFFICES ASSUME TypeOK, QuietHasCause, [Next]_vars, settled',
                    NEW d \in report'.found \ report'.shown
             PROVE  \E s \in sup' \cup pruned' : Covers(s, d)
    BY DEF QuietHasCause
<1> USE DEF QuietHasCause, TypeOK
<1>1. CASE Check
    <2>1. d \in tree /\ d \notin Shown(tree, sup, today)
        BY <1>1 DEF Check
    <2>2. \E s \in sup : Covers(s, d)
        BY <2>1 DEF Shown, Suppressed, Live
    <2> QED BY <1>1, <2>2 DEF Check
<1>2. CASE Prune
    <2>1. PICK s \in sup \cup pruned : Covers(s, d)
        BY <1>2 DEF Prune
    <2>2. s \in sup' \cup pruned'
        BY <1>2 DEF Prune, Hint
    <2> QED BY <2>1, <2>2
<1>3. CASE Tick
    BY <1>3 DEF Tick
<1>4. CASE ChangeCode
    BY <1>4 DEF ChangeCode
<1>5. CASE ChangeSuppressors
    BY <1>5 DEF ChangeSuppressors
<1>6. CASE UNCHANGED vars
    BY <1>6 DEF vars
<1> QED BY <1>1, <1>2, <1>3, <1>4, <1>5, <1>6 DEF Next

\* Shown diagnostics stay uncovered by live suppressors: days only expire
\* more, and prune only takes away.
LEMMA StepKeepsShown == TypeOK /\ ShownHasExpired /\ [Next]_vars => ShownHasExpired'
<1> SUFFICES ASSUME TypeOK, ShownHasExpired, [Next]_vars, settled',
                    NEW d \in report'.shown, NEW s \in sup', Covers(s, d)
             PROVE  IsExpired(s, today')
    BY DEF ShownHasExpired
<1> USE DEF ShownHasExpired, TypeOK
<1>1. CASE Check
    <2>1. d \in Shown(tree, sup, today) /\ s \in sup /\ today' = today
        BY <1>1 DEF Check
    <2> QED BY <2>1 DEF Shown, Suppressed, Live
<1>2. CASE Prune
    <2>1. s \in sup
        BY <1>2 DEF Prune, PruneExpired
    <2> QED BY <1>2, <2>1 DEF Prune
<1>3. CASE Tick
    <2>1. IsExpired(s, today) /\ s \in Suppressor
        BY <1>3 DEF Tick
    <2> QED BY <1>3, <2>1, ExpiryIsFinal DEF Tick
<1>4. CASE ChangeCode
    BY <1>4 DEF ChangeCode
<1>5. CASE ChangeSuppressors
    BY <1>5 DEF ChangeSuppressors
<1>6. CASE UNCHANGED vars
    BY <1>6 DEF vars
<1> QED BY <1>1, <1>2, <1>3, <1>4, <1>5, <1>6 DEF Next

\* The strengthening is an invariant.
LEMMA Inductive == Spec => []IInv
<1>1. Init => IInv
    BY InitialTypes DEF Init, IInv, QuietHasCause, ShownHasExpired
<1>2. IInv /\ [Next]_vars => IInv'
    BY StepKeepsType, StepKeepsQuiet, StepKeepsShown DEF IInv
<1> QED BY <1>1, <1>2, PTL DEF Spec

-----------------------------------------------------------------------------
\* A suppressor that covers a shown diagnostic has expired, and nothing live
\* ends the walk before it: it is announced.
LEMMA ShownAnnouncesAll ==
    ASSUME NEW t, NEW u, NEW day, NEW d \in Shown(t, u, day),
           NEW s \in u, Covers(s, d)
    PROVE  Notice(s, d) \in Notices(t, u, day)
<1>1. Live(u, d, day) = {} /\ d \in t
    BY DEF Shown, Suppressed
<1>2. s \in Lapsed(u, d, day)
    BY <1>1 DEF Lapsed, Live
<1> QED BY <1>1, <1>2 DEF Notices

\* LapseIsAnnounced: whatever turns from quiet to shown between two checks,
\* with no edit in between, comes with a LOCUS001 or follows a prune.
THEOREM LapsesAreAnnounced == Spec => LapseIsAnnounced
<1>1. IInv /\ Check /\ settled =>
        \A d \in (report.found \ report.shown) \cap report'.shown :
            \/ \E n \in report'.notices : About(n, d)
            \/ \E s \in pruned : Covers(s, d)
    <2> SUFFICES ASSUME IInv, Check, settled,
                        NEW d \in (report.found \ report.shown) \cap report'.shown,
                        ~ \E s \in pruned : Covers(s, d)
                 PROVE  \E n \in report'.notices : About(n, d)
        OBVIOUS
    <2>1. PICK s \in sup : Covers(s, d)
        BY DEF IInv, QuietHasCause
    <2>2. d \in Shown(tree, sup, today) /\ report'.notices = Notices(tree, sup, today)
        BY DEF Check
    <2>3. Notice(s, d) \in report'.notices
        BY <2>1, <2>2, ShownAnnouncesAll
    <2>4. About(Notice(s, d), d)
        BY DEF About, Notice
    <2> QED BY <2>3, <2>4
<1>2. IInv /\ [Next]_vars => [Check /\ settled =>
        \A d \in (report.found \ report.shown) \cap report'.shown :
            \/ \E n \in report'.notices : About(n, d)
            \/ \E s \in pruned : Covers(s, d)]_vars
    BY <1>1
<1> QED BY <1>2, Inductive, PTL DEF Spec, LapseIsAnnounced

\* ShownStaysShown: time alone never hides what a check has shown.
THEOREM TimeOnlyReveals == Spec => ShownStaysShown
<1>1. IInv /\ Check /\ settled => report.shown \cap tree \subseteq report'.shown
    <2> SUFFICES ASSUME IInv, Check, settled, NEW d \in report.shown \cap tree
                 PROVE  d \in report'.shown
        OBVIOUS
    <2>1. Live(sup, d, today) = {}
        BY DEF IInv, ShownHasExpired, Live
    <2>2. d \in Shown(tree, sup, today)
        BY <2>1 DEF Shown, Suppressed
    <2> QED BY <2>2 DEF Check
<1>2. IInv /\ [Next]_vars =>
        [Check /\ settled => report.shown \cap tree \subseteq report'.shown]_vars
    BY <1>1
<1> QED BY <1>2, Inductive, PTL DEF Spec, ShownStaysShown

-----------------------------------------------------------------------------
\* On any day from today on, pruning changes nothing that is live.
LEMMA PruneKeepsLive ==
    ASSUME TypeOK, Prune, NEW d, NEW day \in today..MaxDay
    PROVE  Live(sup', d, day) = Live(sup, d, day)
<1>1. Live(sup', d, day) \subseteq Live(sup, d, day)
    BY DEF Prune, PruneExpired, Live
<1>2. ASSUME NEW s \in Live(sup, d, day) PROVE s \in Live(sup', d, day)
    <2>1. s \in sup /\ s \in Suppressor /\ ~IsExpired(s, day)
        BY <1>2 DEF Live, TypeOK
    <2>2. CASE s \in Lockfile
        <3>1. s.expires \in Nat /\ s.expires # Never
            BY <2>1, <2>2, SuppressorAssumption, RuleAssumption DEF Lockfile
        <3>2. s.expires >= today
            BY <2>1, <3>1, DayAssumption DEF IsExpired, TypeOK
        <3> QED BY <1>2, <2>1, <2>2, <3>2 DEF Prune, PruneExpired, Live
    <2>3. CASE s \in Hint
        BY <1>2, <2>1, <2>3 DEF Prune, Live
    <2> QED BY <2>1, <2>2, <2>3 DEF Hint
<1> QED BY <1>1, <1>2

\* PruneIsNeutral: prune removes nothing that would suppress a diagnostic on
\* this or any later day, and leaves nothing that debt lists as expired.
THEOREM PruningIsNeutral == Spec => PruneIsNeutral
<1>1. TypeOK /\ Prune =>
        /\ \A day \in today..MaxDay : Shown(tree, sup', day) = Shown(tree, sup, day)
        /\ \A s \in sup' \cap Lockfile : DebtStatus(s, today) # "Expired"
    <2> SUFFICES ASSUME TypeOK, Prune
                 PROVE  /\ \A day \in today..MaxDay :
                                Shown(tree, sup', day) = Shown(tree, sup, day)
                        /\ \A s \in sup' \cap Lockfile : DebtStatus(s, today) # "Expired"
        OBVIOUS
    <2>1. \A day \in today..MaxDay : Shown(tree, sup', day) = Shown(tree, sup, day)
        BY PruneKeepsLive DEF Shown, Suppressed
    <2>2. ASSUME NEW s \in sup' \cap Lockfile PROVE DebtStatus(s, today) # "Expired"
        <3>1. s \in PruneExpired(sup \cap Lockfile, today)
            BY <2>2 DEF Prune, Hint
        <3>2. s.expires >= today /\ s.expires \in Nat
            BY <3>1, SuppressorAssumption DEF PruneExpired, Lockfile
        <3> QED BY <3>2 DEF DebtStatus, IsExpired, TypeOK
    <2> QED BY <2>1, <2>2
<1>2. TypeOK /\ [Next]_vars =>
        [Prune =>
            /\ \A day \in today..MaxDay : Shown(tree, sup', day) = Shown(tree, sup, day)
            /\ \A s \in sup' \cap Lockfile : DebtStatus(s, today) # "Expired"]_vars
    BY <1>1
<1> QED BY <1>2, TypeCorrect, PTL DEF Spec, PruneIsNeutral

-----------------------------------------------------------------------------
(* Every day has the date after that of the day before.  The code computes  *)
(* the year with divisions by 1460, 36524 and 146096 days; the proof reads  *)
(* the same year off the place of a day in its century and its four years.  *)

\* A quotient is known from the multiples it lies between.
LEMMA Divisions ==
    ASSUME NEW n \in Int, NEW q \in Int
    PROVE  /\ 146097 * q <= n /\ n < 146097 * q + 146097 => n \div 146097 = q
           /\ 36524 * q <= n /\ n < 36524 * q + 36524 => n \div 36524 = q
           /\ 1460 * q <= n /\ n < 1460 * q + 1460 => n \div 1460 = q
           /\ 365 * q <= n /\ n < 365 * q + 365 => n \div 365 = q
           /\ 100 * q <= n /\ n < 100 * q + 100 => n \div 100 = q
           /\ 4 * q <= n /\ n < 4 * q + 4 => n \div 4 = q
<1>1. 146097 * q <= n /\ n < 146097 * q + 146097 => n \div 146097 = q
  OBVIOUS
<1>2. 36524 * q <= n /\ n < 36524 * q + 36524 => n \div 36524 = q
  OBVIOUS
<1>3. 1460 * q <= n /\ n < 1460 * q + 1460 => n \div 1460 = q
  OBVIOUS
<1>4. 365 * q <= n /\ n < 365 * q + 365 => n \div 365 = q
  OBVIOUS
<1>5. 100 * q <= n /\ n < 100 * q + 100 => n \div 100 = q
  OBVIOUS
<1>6. 4 * q <= n /\ n < 4 * q + 4 => n \div 4 = q
  OBVIOUS
<1> QED BY <1>1, <1>2, <1>3, <1>4, <1>5, <1>6

\* The doy-th day of year k of the q-th four years of century c of an era, all
\* counted from zero.  A year of the code begins in March, so that the leap day is
\* the last one of year 3, save at the end of the first three centuries.
IsPlace(c, q, k, doy) ==
    /\ c \in Int /\ 0 <= c /\ c <= 3
    /\ q \in Int /\ 0 <= q /\ q <= 24
    /\ k \in Int /\ 0 <= k /\ k <= 3
    /\ doy \in Int /\ 0 <= doy /\ doy <= 365
    /\ doy = 365 => k = 3 /\ (q < 24 \/ c = 3)

DayOfEra(c, q, k, doy) == 36524 * c + 1461 * q + 365 * k + doy

\* The year that the code computes for a day of an era, and its day of that year.
LEMMA YearOfEra ==
    ASSUME NEW c, NEW q, NEW k, NEW doy, IsPlace(c, q, k, doy),
           NEW doe \in Int, doe = DayOfEra(c, q, k, doy),
           NEW y \in Int, y = 100 * c + 4 * q + k
    PROVE  /\ 0 <= doe /\ doe <= 146096
           /\ (doe - doe \div 1460 + doe \div 36524 - doe \div 146096) \div 365 = y
           /\ doe - (365 * y + y \div 4 - y \div 100) = doy
<1>t. c \in Int /\ q \in Int /\ k \in Int /\ doy \in Int
  BY DEF IsPlace
<1>e. doe = 36524 * c + 1461 * q + 365 * k + doy
  BY DEF DayOfEra
<1>p. /\ 0 <= c /\ c <= 3 /\ 0 <= q /\ q <= 24 /\ 0 <= k /\ k <= 3
      /\ 0 <= doy /\ doy <= 365
      /\ doy = 365 => k = 3 /\ (q < 24 \/ c = 3)
  BY DEF IsPlace
<1>2. 0 <= doe /\ doe <= 146096
  BY <1>t, <1>e, <1>p
<1>3. PICK last \in Int : IF doe = 146096 THEN last = 1 ELSE last = 0
  OBVIOUS
<1>4. PICK late \in Int :
        IF 24 * c + q + 365 * k + doy >= 1460 THEN late = 1 ELSE late = 0
  OBVIOUS
<1>5. doe \div 146096 = last
  BY <1>2, <1>3
<1>6. doe \div 36524 = c + last
  <2>1. PICK e \in Int : e = c + last
    BY <1>t
  <2>2. 36524 * e <= doe /\ doe < 36524 * e + 36524
    BY <1>t, <1>2, <1>3, <1>e, <1>p, <2>1
  <2>3. doe \div 36524 = e
    BY <2>2, Divisions
  <2> QED BY <2>1, <2>3
<1>7. doe \div 1460 = 25 * c + q + late
  <2>1. 1460 * (25 * c + q + late) <= doe /\ doe < 1460 * (25 * c + q + late) + 1460
    BY <1>t, <1>4, <1>e, <1>p
  <2> QED BY <1>t, <2>1, Divisions
<1>8. doe - doe \div 1460 + doe \div 36524 - doe \div 146096 = 365 * y + (doy - late)
  BY <1>t, <1>e, <1>5, <1>6, <1>7
<1>9. 0 <= doy - late /\ doy - late <= 364
  BY <1>t, <1>4, <1>p
<1>10. (365 * y + (doy - late)) \div 365 = y
  BY <1>t, <1>9, Divisions
<1>11. y \div 4 = 25 * c + q /\ y \div 100 = c
  <2>1. 4 * (25 * c + q) <= y /\ y < 4 * (25 * c + q) + 4 /\ 100 * c <= y /\ y < 100 * c + 100
    BY <1>t, <1>p
  <2> QED BY <1>t, <2>1, Divisions
<1>12. doe - (365 * y + y \div 4 - y \div 100) = doy
  BY <1>t, <1>e, <1>11
<1> QED BY <1>2, <1>8, <1>10, <1>12

\* Every day of an era has a place.
LEMMA PlaceExists ==
    ASSUME NEW doe \in Int, 0 <= doe, doe <= 146096
    PROVE  \E c, q, k, doy : IsPlace(c, q, k, doy) /\ doe = DayOfEra(c, q, k, doy)
<1>1. PICK c \in Int : /\ 0 <= c /\ c <= 3
                       /\ 36524 * c <= doe /\ doe <= 36524 * c + 36524
                       /\ doe = 36524 * c + 36524 => c = 3
  <2>1. CASE doe < 36524
    BY <2>1
  <2>2. CASE 36524 <= doe /\ doe < 73048
    BY <2>2
  <2>3. CASE 73048 <= doe /\ doe < 109572
    BY <2>3
  <2>4. CASE 109572 <= doe
    BY <2>4
  <2> QED BY <2>1, <2>2, <2>3, <2>4
<1>2. PICK r \in Int : r = doe - 36524 * c
  OBVIOUS
<1>3. PICK q \in Int : 1461 * q <= r /\ r < 1461 * q + 1461
  <2>1. 1461 * (r \div 1461) <= r /\ r < 1461 * (r \div 1461) + 1461 /\ r \div 1461 \in Int
    OBVIOUS
  <2> QED BY <2>1
<1>4. PICK u \in Int : u = r - 1461 * q
  OBVIOUS
<1>5. 0 <= q /\ q <= 24 /\ (u = 1460 => q < 24 \/ c = 3)
  BY <1>1, <1>2, <1>3, <1>4
<1>6. PICK k \in Int : /\ 0 <= k /\ k <= 3
                       /\ 365 * k <= u /\ u <= 365 * k + 365
                       /\ u = 365 * k + 365 => k = 3
  <2>0. 0 <= u /\ u <= 1460
    BY <1>3, <1>4
  <2>1. CASE u < 365
    BY <2>0, <2>1
  <2>2. CASE 365 <= u /\ u < 730
    BY <2>2
  <2>3. CASE 730 <= u /\ u < 1095
    BY <2>3
  <2>4. CASE 1095 <= u
    BY <2>0, <2>4
  <2> QED BY <2>1, <2>2, <2>3, <2>4
<1>7. PICK doy \in Int : doy = u - 365 * k
  OBVIOUS
<1>8. IsPlace(c, q, k, doy)
  BY <1>1, <1>5, <1>6, <1>7 DEF IsPlace
<1>9. doe = DayOfEra(c, q, k, doy)
  BY <1>2, <1>4, <1>7 DEF DayOfEra
<1> QED BY <1>8, <1>9

\* The month of a day of the year, and the day of the month, as the code has them.
MonthOf(doy) ==
    LET mp == (5 * doy + 2) \div 153 IN IF mp < 10 THEN mp + 3 ELSE mp - 9

DayOf(doy) == doy - (153 * ((5 * doy + 2) \div 153) + 2) \div 5 + 1

\* The year, and the date, of a place in era e.
YearAt(e, c, q, k) == 100 * c + 4 * q + k + e * 400

DateAt(e, c, q, k, doy) ==
    <<YearAt(e, c, q, k) + (IF MonthOf(doy) <= 2 THEN 1 ELSE 0),
      MonthOf(doy), DayOf(doy)>>

\* The calendar of a year that begins in March.
MonthTable(doy, m, d) ==
    \/ m = 3  /\ 0 <= doy   /\ doy <= 30  /\ d = doy + 1
    \/ m = 4  /\ 31 <= doy  /\ doy <= 60  /\ d = doy - 30
    \/ m = 5  /\ 61 <= doy  /\ doy <= 91  /\ d = doy - 60
    \/ m = 6  /\ 92 <= doy  /\ doy <= 121 /\ d = doy - 91
    \/ m = 7  /\ 122 <= doy /\ doy <= 152 /\ d = doy - 121
    \/ m = 8  /\ 153 <= doy /\ doy <= 183 /\ d = doy - 152
    \/ m = 9  /\ 184 <= doy /\ doy <= 213 /\ d = doy - 183
    \/ m = 10 /\ 214 <= doy /\ doy <= 244 /\ d = doy - 213
    \/ m = 11 /\ 245 <= doy /\ doy <= 274 /\ d = doy - 244
    \/ m = 12 /\ 275 <= doy /\ doy <= 305 /\ d = doy - 274
    \/ m = 1  /\ 306 <= doy /\ doy <= 336 /\ d = doy - 305
    \/ m = 2  /\ 337 <= doy /\ doy <= 365 /\ d = doy - 336

\* The code computes months by that calendar.
LEMMA Months ==
    ASSUME NEW doy \in Int, 0 <= doy, doy <= 365, NEW m, m = MonthOf(doy), NEW d, d = DayOf(doy)
    PROVE  MonthTable(doy, m, d)
BY DEF MonthOf, DayOf, MonthTable

\* The code computes the date of the place of a day.
LEMMA DateOfPlace ==
    ASSUME NEW days \in Nat, NEW e \in Int,
           NEW c, NEW q, NEW k, NEW doy, IsPlace(c, q, k, doy),
           days + 719468 = 146097 * e + DayOfEra(c, q, k, doy)
    PROVE  DaysToYmd(days) = DateAt(e, c, q, k, doy)
<1>1. c \in Int /\ q \in Int /\ k \in Int /\ doy \in Int
  BY DEF IsPlace
<1>2. PICK doe \in Int : doe = DayOfEra(c, q, k, doy)
  BY <1>1 DEF DayOfEra
<1>3. PICK y \in Int : y = 100 * c + 4 * q + k
  BY <1>1
<1>4. /\ 0 <= doe /\ doe <= 146096
      /\ (doe - doe \div 1460 + doe \div 36524 - doe \div 146096) \div 365 = y
      /\ doe - (365 * y + y \div 4 - y \div 100) = doy
  BY <1>2, <1>3, YearOfEra
<1>5. PICK z \in Int : z = days + 719468
  OBVIOUS
<1>6. z \div 146097 = e
  BY <1>2, <1>4, <1>5
<1>7. z - e * 146097 = doe
  BY <1>2, <1>5
<1>8. DaysToYmd(days) =
        <<y + e * 400 + (IF MonthOf(doy) <= 2 THEN 1 ELSE 0), MonthOf(doy), DayOf(doy)>>
  <2> DEFINE Ymd(yoe, doy2) ==
               <<yoe + e * 400 + (IF MonthOf(doy2) <= 2 THEN 1 ELSE 0), MonthOf(doy2), DayOf(doy2)>>
             Of(era, doe2) ==
               LET yoe  == (doe2 - doe2 \div 1460 + doe2 \div 36524 - doe2 \div 146096) \div 365
                   doy2 == doe2 - (365 * yoe + yoe \div 4 - yoe \div 100)
               IN  <<yoe + era * 400 + (IF MonthOf(doy2) <= 2 THEN 1 ELSE 0),
                     MonthOf(doy2), DayOf(doy2)>>
  <2>1. DaysToYmd(days) = Of(z \div 146097, z - (z \div 146097) * 146097)
    BY <1>5 DEF DaysToYmd, MonthOf, DayOf
  <2>2. Of(e, doe) = Ymd(y, doe - (365 * y + y \div 4 - y \div 100))
    BY <1>4
  <2> HIDE DEF Of, Ymd
  <2>3. DaysToYmd(days) = Of(e, doe)
    BY <1>6, <1>7, <2>1
  <2>4. DaysToYmd(days) = Ymd(y, doy)
    BY <1>4, <2>2, <2>3
  <2> QED BY <2>4 DEF Ymd
<1> QED BY <1>3, <1>8 DEF DateAt, YearAt

\* The places with a leap day are those before the March of a leap year.
LEMMA LeapPlace ==
    ASSUME NEW e \in Int, NEW c \in Int, NEW q \in Int, NEW k \in Int,
           0 <= c, c <= 3, 0 <= q, q <= 24, 0 <= k, k <= 3
    PROVE  IsLeap(YearAt(e, c, q, k) + 1) <=> k = 3 /\ (q < 24 \/ c = 3)
<1>1. PICK y \in Int : y = 100 * c + 4 * q + k + e * 400 + 1
  OBVIOUS
<1>2. y % 4 = 0 <=> k = 3
  BY <1>1
<1>3. k = 3 => (y % 100 = 0 <=> q = 24)
  BY <1>1
<1>4. k = 3 /\ q = 24 => (y % 400 = 0 <=> c = 3)
  BY <1>1
<1> QED BY <1>1, <1>2, <1>3, <1>4 DEF IsLeap, YearAt

\* How long a month is, one kind of month after the other.
LEMMA MonthLengths ==
    ASSUME NEW y \in Int, NEW m \in Int, 1 <= m, m <= 12
    PROVE  /\ m \in {4, 6, 9, 11} => DaysIn(y, m) = 30
           /\ m \in {1, 3, 5, 7, 8, 10, 12} => DaysIn(y, m) = 31
           /\ m = 2 => DaysIn(y, m) = IF IsLeap(y) THEN 29 ELSE 28
BY DEF DaysIn

\* From one day to the next within a year that begins in March.
LEMMA SameYear ==
    ASSUME NEW e \in Int, NEW c, NEW q, NEW k, NEW doy,
           IsPlace(c, q, k, doy), IsPlace(c, q, k, doy + 1)
    PROVE  DateAt(e, c, q, k, doy + 1) = NextDay(DateAt(e, c, q, k, doy))
<1>t. /\ c \in Int /\ q \in Int /\ k \in Int /\ doy \in Int /\ 0 <= doy /\ doy <= 364
      /\ 0 <= c /\ c <= 3 /\ 0 <= q /\ q <= 24 /\ 0 <= k /\ k <= 3
      /\ doy = 364 => k = 3 /\ (q < 24 \/ c = 3)
  BY DEF IsPlace
<1>1. PICK y \in Int : y = YearAt(e, c, q, k)
  BY <1>t DEF YearAt
<1>2. PICK m, d : m = MonthOf(doy) /\ d = DayOf(doy)
  OBVIOUS
<1>3. PICK n, f : n = MonthOf(doy + 1) /\ f = DayOf(doy + 1)
  OBVIOUS
<1>4. MonthTable(doy, m, d)
  BY <1>t, <1>2, Months
<1>5. MonthTable(doy + 1, n, f)
  BY <1>t, <1>3, Months
<1>6. m \in Int /\ n \in Int /\ d \in Int /\ f \in Int /\ 1 <= m /\ m <= 12
  BY <1>t, <1>4, <1>5 DEF MonthTable
<1>7. PICK yy \in Int : yy = y + (IF m <= 2 THEN 1 ELSE 0)
  BY <1>6
<1>8. PICK len : len = DaysIn(yy, m)
  OBVIOUS
<1>9. m = 2 => len \in Int /\ d < len
  <2>1. CASE m = 2
    <3>1. yy = YearAt(e, c, q, k) + 1
      BY <1>1, <1>7, <2>1
    <3>2. len = IF k = 3 /\ (q < 24 \/ c = 3) THEN 29 ELSE 28
      <4>1. IsLeap(yy) <=> k = 3 /\ (q < 24 \/ c = 3)
        BY <1>t, <3>1, LeapPlace
      <4>2. len = IF IsLeap(yy) THEN 29 ELSE 28
        BY <1>8, <2>1, MonthLengths
      <4> QED BY <4>1, <4>2
    <3> QED BY <1>t, <1>4, <2>1, <3>2 DEF MonthTable
  <2> QED BY <2>1
<1>10. /\ m \in {4, 6, 9, 11} => len = 30
       /\ m \in {1, 3, 5, 7, 8, 10, 12} => len = 31
  BY <1>6, <1>8, MonthLengths
<1>11. /\ len \in Int
       /\ d < len => n = m /\ f = d + 1
       /\ d >= len => (IF m = 12 THEN n = 1 ELSE n = m + 1) /\ f = 1 /\ m # 2
  BY <1>t, <1>4, <1>5, <1>6, <1>9, <1>10 DEF MonthTable
<1>12. DateAt(e, c, q, k, doy) = <<yy, m, d>>
  BY <1>1, <1>2, <1>7 DEF DateAt
<1>13. PICK ny \in Int : ny = y + (IF n <= 2 THEN 1 ELSE 0)
  BY <1>6
<1>14. DateAt(e, c, q, k, doy + 1) = <<ny, n, f>>
  BY <1>1, <1>3, <1>13 DEF DateAt
<1>15. NextDay(<<yy, m, d>>) = CASE d < len -> <<yy, m, d + 1>>
                                 [] d >= len /\ m < 12 -> <<yy, m + 1, 1>>
                                 [] OTHER -> <<yy + 1, 1, 1>>
  BY <1>8 DEF NextDay
<1>16. CASE d < len
  <2>1. ny = yy
    BY <1>6, <1>7, <1>11, <1>13, <1>16
  <2> QED BY <1>11, <1>12, <1>14, <1>15, <1>16, <2>1
<1>17. CASE d >= len /\ m < 12
  <2>1. ny = yy
    BY <1>4, <1>6, <1>7, <1>11, <1>13, <1>17 DEF MonthTable
  <2> QED BY <1>6, <1>11, <1>12, <1>14, <1>15, <1>17, <2>1
<1>18. CASE d >= len /\ m = 12
  <2>1. ny = yy + 1
    BY <1>6, <1>7, <1>11, <1>13, <1>18
  <2> QED BY <1>6, <1>11, <1>12, <1>14, <1>15, <1>18, <2>1
<1> QED BY <1>6, <1>11, <1>16, <1>17, <1>18

\* From the last of February to the first of March.
LEMMA NextYear ==
    ASSUME NEW e \in Int, NEW c, NEW q, NEW k, NEW doy,
           IsPlace(c, q, k, doy), ~IsPlace(c, q, k, doy + 1),
           NEW f \in Int, NEW c2 \in Int, NEW q2 \in Int, NEW k2 \in Int,
           YearAt(f, c2, q2, k2) = YearAt(e, c, q, k) + 1
    PROVE  DateAt(f, c2, q2, k2, 0) = NextDay(DateAt(e, c, q, k, doy))
<1>t. /\ c \in Int /\ q \in Int /\ k \in Int /\ doy \in Int
      /\ 0 <= c /\ c <= 3 /\ 0 <= q /\ q <= 24 /\ 0 <= k /\ k <= 3
      /\ 0 <= doy /\ doy <= 365
      /\ doy = 365 => k = 3 /\ (q < 24 \/ c = 3)
  BY DEF IsPlace
<1>1. doy = IF k = 3 /\ (q < 24 \/ c = 3) THEN 365 ELSE 364
  BY <1>t DEF IsPlace
<1>2. PICK y \in Int : y = YearAt(e, c, q, k) + 1
  BY <1>t DEF YearAt
<1>3. MonthOf(doy) = 2 /\ DayOf(doy) = doy - 336
  <2>1. MonthTable(doy, MonthOf(doy), DayOf(doy))
    BY <1>t, Months
  <2> QED BY <1>1, <2>1 DEF MonthTable
<1>4. MonthOf(0) = 3 /\ DayOf(0) = 1
  <2>1. MonthTable(0, MonthOf(0), DayOf(0))
    BY Months
  <2> QED BY <2>1 DEF MonthTable
<1>5. DateAt(e, c, q, k, doy) = <<y, 2, doy - 336>>
  BY <1>2, <1>3 DEF DateAt
<1>6. DateAt(f, c2, q2, k2, 0) = <<y, 3, 1>>
  BY <1>2, <1>4 DEF DateAt
<1>7. DaysIn(y, 2) = doy - 336
  <2>1. IsLeap(y) <=> k = 3 /\ (q < 24 \/ c = 3)
    BY <1>t, <1>2, LeapPlace
  <2>2. DaysIn(y, 2) = IF IsLeap(y) THEN 29 ELSE 28
    BY MonthLengths
  <2> QED BY <1>1, <2>1, <2>2
<1>8. NextDay(<<y, 2, doy - 336>>) = <<y, 3, 1>>
  BY <1>t, <1>7 DEF NextDay
<1> QED BY <1>5, <1>6, <1>8

\* days_to_ymd follows the calendar from any day to the next.
LEMMA NextDate ==
    ASSUME NEW days \in Nat
    PROVE  DaysToYmd(days + 1) = NextDay(DaysToYmd(days))
<1>1. PICK e \in Int : /\ 146097 * e <= days + 719468
                       /\ days + 719468 < 146097 * e + 146097
  <2>1. PICK z \in Int : z = days + 719468
    OBVIOUS
  <2>2. PICK e \in Int : e = z \div 146097
    OBVIOUS
  <2>3. 146097 * e <= z /\ z < 146097 * e + 146097
    BY <2>2
  <2> QED BY <2>1, <2>3
<1>2. PICK doe \in Int : doe = days + 719468 - 146097 * e
  OBVIOUS
<1>3. PICK c, q, k, doy : IsPlace(c, q, k, doy) /\ doe = DayOfEra(c, q, k, doy)
  <2>1. 0 <= doe /\ doe <= 146096
    BY <1>1, <1>2
  <2> QED BY <2>1, PlaceExists
<1>t. /\ c \in Int /\ q \in Int /\ k \in Int /\ doy \in Int
      /\ 0 <= c /\ c <= 3 /\ 0 <= q /\ q <= 24 /\ 0 <= k /\ k <= 3
      /\ 0 <= doy /\ doy <= 365
      /\ doy = 365 => k = 3 /\ (q < 24 \/ c = 3)
  BY <1>3 DEF IsPlace
<1>e. days + 719468 = 146097 * e + (36524 * c + 1461 * q + 365 * k + doy)
  BY <1>2, <1>3 DEF DayOfEra
<1>4. DaysToYmd(days) = DateAt(e, c, q, k, doy)
  BY <1>3, <1>t, <1>e, DateOfPlace DEF DayOfEra
<1>5. CASE IsPlace(c, q, k, doy + 1)
  <2>1. (days + 1) + 719468 = 146097 * e + DayOfEra(c, q, k, doy + 1)
    BY <1>t, <1>e DEF DayOfEra
  <2>2. DaysToYmd(days + 1) = DateAt(e, c, q, k, doy + 1)
    BY <1>5, <2>1, DateOfPlace
  <2> QED BY <1>3, <1>4, <1>5, <2>2, SameYear
<1>6. CASE ~IsPlace(c, q, k, doy + 1)
  <2>1. doy = IF k = 3 /\ (q < 24 \/ c = 3) THEN 365 ELSE 364
    BY <1>t, <1>6 DEF IsPlace
  <2> DEFINE Follows(f, c2, q2, k2) ==
               /\ IsPlace(c2, q2, k2, 0)
               /\ YearAt(f, c2, q2, k2) = YearAt(e, c, q, k) + 1
               /\ (days + 1) + 719468 = 146097 * f + (36524 * c2 + 1461 * q2 + 365 * k2)
  <2>2. PICK f \in Int, c2 \in Int, q2 \in Int, k2 \in Int : Follows(f, c2, q2, k2)
    <3>1. CASE k < 3
      <4>1. PICK f \in Int, c2 \in Int, q2 \in Int, k2 \in Int :
              f = e /\ c2 = c /\ q2 = q /\ k2 = k + 1
        BY <1>t
      <4>2. IsPlace(c2, q2, k2, 0)
        BY <1>t, <3>1, <4>1 DEF IsPlace
      <4>3. /\ YearAt(f, c2, q2, k2) = YearAt(e, c, q, k) + 1
            /\ (days + 1) + 719468 = 146097 * f + (36524 * c2 + 1461 * q2 + 365 * k2)
        BY <1>t, <1>e, <2>1, <3>1, <4>1 DEF YearAt
      <4>4. Follows(f, c2, q2, k2)
        BY <4>2, <4>3
      <4> HIDE DEF Follows
      <4> QED BY <4>4
    <3>2. CASE k = 3 /\ q < 24
      <4>1. PICK f \in Int, c2 \in Int, q2 \in Int, k2 \in Int :
              f = e /\ c2 = c /\ q2 = q + 1 /\ k2 = 0
        BY <1>t
      <4>2. IsPlace(c2, q2, k2, 0)
        BY <1>t, <3>2, <4>1 DEF IsPlace
      <4>3. /\ YearAt(f, c2, q2, k2) = YearAt(e, c, q, k) + 1
            /\ (days + 1) + 719468 = 146097 * f + (36524 * c2 + 1461 * q2 + 365 * k2)
        BY <1>t, <1>e, <2>1, <3>2, <4>1 DEF YearAt
      <4>4. Follows(f, c2, q2, k2)
        BY <4>2, <4>3
      <4> HIDE DEF Follows
      <4> QED BY <4>4
    <3>3. CASE k = 3 /\ q = 24 /\ c < 3
      <4>1. PICK f \in Int, c2 \in Int, q2 \in Int, k2 \in Int :
              f = e /\ c2 = c + 1 /\ q2 = 0 /\ k2 = 0
        BY <1>t
      <4>2. IsPlace(c2, q2, k2, 0)
        BY <1>t, <3>3, <4>1 DEF IsPlace
      <4>3. /\ YearAt(f, c2, q2, k2) = YearAt(e, c, q, k) + 1
            /\ (days + 1) + 719468 = 146097 * f + (36524 * c2 + 1461 * q2 + 365 * k2)
        BY <1>t, <1>e, <2>1, <3>3, <4>1 DEF YearAt
      <4>4. Follows(f, c2, q2, k2)
        BY <4>2, <4>3
      <4> HIDE DEF Follows
      <4> QED BY <4>4
    <3>4. CASE k = 3 /\ q = 24 /\ c = 3
      <4>1. PICK f \in Int, c2 \in Int, q2 \in Int, k2 \in Int :
              f = e + 1 /\ c2 = 0 /\ q2 = 0 /\ k2 = 0
        BY <1>t
      <4>2. IsPlace(c2, q2, k2, 0)
        BY <1>t, <3>4, <4>1 DEF IsPlace
      <4>3. /\ YearAt(f, c2, q2, k2) = YearAt(e, c, q, k) + 1
            /\ (days + 1) + 719468 = 146097 * f + (36524 * c2 + 1461 * q2 + 365 * k2)
        BY <1>t, <1>e, <2>1, <3>4, <4>1 DEF YearAt
      <4>4. Follows(f, c2, q2, k2)
        BY <4>2, <4>3
      <4> HIDE DEF Follows
      <4> QED BY <4>4
    <3> HIDE DEF Follows
    <3> QED BY <1>t, <3>1, <3>2, <3>3, <3>4
  <2>3. (days + 1) + 719468 = 146097 * f + DayOfEra(c2, q2, k2, 0)
    BY <2>2 DEF DayOfEra
  <2>4. DaysToYmd(days + 1) = DateAt(f, c2, q2, k2, 0)
    BY <2>2, <2>3, DateOfPlace
  <2>5. DateAt(f, c2, q2, k2, 0) = NextDay(DateAt(e, c, q, k, doy))
    BY <1>3, <1>6, <2>2, NextYear
  <2> QED BY <1>4, <2>4, <2>5
<1> QED BY <1>5, <1>6

\* DateFollowsCalendar: on any day from 1970 on, when the day passes, the date
\* that the code computes goes on to the next one of the calendar.
THEOREM DatesFollowCalendar == Spec => DateFollowsCalendar
<1>1. TypeOK /\ [Next]_vars => [\A origin \in Origins : today' # today =>
        DaysToYmd(origin + today') = NextDay(DaysToYmd(origin + today))]_vars
    <2> SUFFICES ASSUME TypeOK, [Next]_vars, NEW origin \in Origins, today' # today
                 PROVE  DaysToYmd(origin + today') = NextDay(DaysToYmd(origin + today))
        OBVIOUS
    <2>1. today' = today + 1
        BY DEF Next, Check, Prune, Tick, ChangeCode, ChangeSuppressors, vars
    <2>2. PICK day \in Nat : day = origin + today
        BY OriginsAssumption DEF TypeOK
    <2>3. origin + today' = day + 1
        BY <2>1, <2>2, OriginsAssumption DEF TypeOK
    <2> QED BY <2>2, <2>3, NextDate
<1> QED BY <1>1, TypeCorrect, PTL DEF Spec, DateFollowsCalendar
=============================================================================
