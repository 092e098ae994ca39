------------------------------- MODULE Calendar -------------------------------
(***************************************************************************)
(* The date of a day (exceptions.rs).  `today_utc` formats it with leading *)
(* zeros, so that texts are in the order of the triples below.             *)
(***************************************************************************)
EXTENDS Integers

\* A slip in days_to_ymd: the century that is no leap year is forgotten.
MutDaysToYmd(days) ==
    LET z   == days + 719468
        era == z \div 146097
        doe == z - era * 146097
        yoe == (doe - doe \div 1460 - doe \div 146096) \div 365
        doy == doe - (365 * yoe + yoe \div 4 - yoe \div 100)
        mp  == (5 * doy + 2) \div 153
        m   == IF mp < 10 THEN mp + 3 ELSE mp - 9
    IN  <<yoe + era * 400 + (IF m <= 2 THEN 1 ELSE 0), m, doy - (153 * mp + 2) \div 5 + 1>>

\* Year, month and day, of a day counted from 1 January 1970.  The code counts years
\* from March, in eras of 400; the clock is never before 1970.
DaysToYmd(days) ==
    LET z   == days + 719468
        era == z \div 146097
        doe == z - era * 146097
        yoe == (doe - doe \div 1460 + doe \div 36524 - doe \div 146096) \div 365
        doy == doe - (365 * yoe + yoe \div 4 - yoe \div 100)
        mp  == (5 * doy + 2) \div 153
        m   == IF mp < 10 THEN mp + 3 ELSE mp - 9
    IN  <<yoe + era * 400 + (IF m <= 2 THEN 1 ELSE 0), m, doy - (153 * mp + 2) \div 5 + 1>>

-----------------------------------------------------------------------------
(* The calendar, as people count it *)

IsLeap(y) == y % 4 = 0 /\ (y % 100 # 0 \/ y % 400 = 0)

DaysIn(y, m) ==
    CASE m = 2 -> IF IsLeap(y) THEN 29 ELSE 28
      [] m \in {4, 6, 9, 11} -> 30
      [] OTHER -> 31

NextDay(date) ==
    LET y == date[1]  m == date[2]  d == date[3]
    IN  CASE d < DaysIn(y, m) -> <<y, m, d + 1>>
          [] d >= DaysIn(y, m) /\ m < 12 -> <<y, m + 1, 1>>
          [] OTHER -> <<y + 1, 1, 1>>
=============================================================================
