--------------------------- MODULE CalendarDates ----------------------------
(***************************************************************************)
(* The dates of the credential protocol: parseDate() and formatDate() of   *)
(* cred_protocol.cpp, on the day numbers behind their 64-bit timestamps (a *)
(* timestamp is a day number times 86400, plus 86399 for the end of a      *)
(* period; the seconds never carry).                                       *)
(*                                                                         *)
(* The specification is a calendar: it turns the page day after day and    *)
(* counts, and the code has to agree with it on every page.                *)
(***************************************************************************)
EXTENDS Integers, FiniteSets

CONSTANTS
  StartYears,   (* years in which a walk begins                             *)
  WalkYears     (* bound: length of a walk                                  *)

VARIABLES
  first,  (* the year in which this walk began                              *)
  date,   (* the page of the calendar                                       *)
  days    (* pages turned since 1970-01-01                                  *)

vars == <<first, date, days>>

Bad == -1
Unlimited == -2  \* the timestamp 0

----------------------------------------------------------------------------
(* The calendar *)

LongYear(y) == y % 400 = 0 \/ (y % 4 = 0 /\ y % 100 # 0)
LastDay(y, m) ==
  CASE m \in {4, 6, 9, 11} -> 30 [] m = 2 -> (IF LongYear(y) THEN 29 ELSE 28) [] OTHER -> 31
DaysBefore(y) == 365 * (y - 1970) + Cardinality({l \in 1970 .. y - 1 : LongYear(l)})

\* The years of a date with four digits that has a timestamp.
Years == 1970 .. 9999
FirstPage(y) == [y |-> y, m |-> 1, d |-> 1]

Init == first \in StartYears /\ date = FirstPage(first) /\ days = DaysBefore(first)

turnPage ==
  /\ date' = IF date.d < LastDay(date.y, date.m) THEN [date EXCEPT !.d = @ + 1]
             ELSE IF date.m < 12 THEN [date EXCEPT !.d = 1, !.m = @ + 1]
             ELSE FirstPage(date.y + 1)
  /\ date'.y < first + WalkYears /\ date'.y < 10000
  /\ days' = days + 1 /\ UNCHANGED first

startOver ==
  /\ [date EXCEPT !.y = 0] = [y |-> 0, m |-> 12, d |-> 31]
  /\ date.y + 1 \in {first + WalkYears, 10000}
  /\ date' = FirstPage(first) /\ days' = DaysBefore(first) /\ UNCHANGED first

Next == turnPage \/ startOver

Spec == Init /\ [][Next]_vars

TypeOK ==
  /\ first \in StartYears /\ days \in Nat
  /\ date \in [y : Years, m : 1 .. 12, d : 1 .. 31]

----------------------------------------------------------------------------
(* cred_protocol.cpp *)

leap(year) == year % 4 = 0 /\ (year % 100 # 0 \/ year % 400 = 0)

lengths == <<31, 28, 31, 30, 31, 30, 31, 31, 30, 31, 30, 31>>
monthDays(year, month) == lengths[month] + (IF month = 2 /\ leap(year) THEN 1 ELSE 0)

yearDays(year) == LET y == year - 1 IN y * 365 + y \div 4 - y \div 100 + y \div 400
since1970(year) == yearDays(year) - yearDays(1970)

\* The days of the months before each month of a year.
monthStart(year) ==
  LET before[m \in 1 .. 12] == IF m = 1 THEN 0 ELSE before[m - 1] + monthDays(year, m - 1)
  IN  before

\* The two ends of time stand for "no limit".
NoLimit(endOfDay) == IF endOfDay THEN [y |-> 9999, m |-> 12, d |-> 31] ELSE [y |-> 1, m |-> 1, d |-> 1]

dayOfMonth(t) == t.d >= 1 /\ t.d <= monthDays(t.y, t.m)

\* The day number, Unlimited or Bad.
parseDate(t, endOfDay) ==
  IF t = NoLimit(endOfDay) THEN Unlimited
  ELSE IF t.y < 1970 \/ t.m \notin 1 .. 12 \/ ~dayOfMonth(t) THEN Bad
  ELSE LET n == since1970(t.y) + t.d - 1 + monthStart(t.y)[t.m]
       IN  IF n = 0 /\ ~endOfDay THEN Unlimited ELSE n

\* formatDate() stops at the first year, and in it at the first month, that is
\* not past.
pastMonth(r, year, m) == r >= monthDays(year, m)
pastYear(year, n) == since1970(year + 1) <= n

yearOf(n) ==
  LET least == 1970 + n \div 366
  IN  CHOOSE y \in least .. 9999 : ~pastYear(y, n) /\ \A z \in least .. y - 1 : pastYear(z, n)

leftIn(r, year, m) == r - monthStart(year)[m]
monthOf(r, year) ==
  CHOOSE m \in 1 .. 12 : /\ ~pastMonth(leftIn(r, year, m), year, m)
                         /\ \A k \in 1 .. m - 1 : pastMonth(leftIn(r, year, k), year, k)

formatDate(n, endOfDay) ==
  IF n = Unlimited THEN NoLimit(endOfDay)
  ELSE IF n >= since1970(10000) THEN NoLimit(TRUE)
  ELSE LET year == yearOf(n)
           r == n - since1970(year)
           month == monthOf(r, year)
       IN  [y |-> year, m |-> month, d |-> leftIn(r, year, month) + 1]

----------------------------------------------------------------------------
(* Properties *)

\* parseDate() numbers the days of the calendar without a gap or a repetition,
\* over leap years, centuries and the multiples of 400.
CountsDays ==
  /\ parseDate(date, FALSE) = IF days = 0 THEN Unlimited ELSE days
  /\ parseDate(date, TRUE) = IF date = NoLimit(TRUE) THEN Unlimited ELSE days

\* The date a client is shown is the one that was entered; only the first of
\* January 1970 as the beginning of a period is the same as no beginning.
ShownAsEntered ==
  \A endOfDay \in BOOLEAN :
    formatDate(parseDate(date, endOfDay), endOfDay)
      = IF days = 0 /\ ~endOfDay THEN NoLimit(FALSE) ELSE date

\* Of the days up to 31, exactly the ones the calendar has are accepted.
OnlyRealDates ==
  \A d \in 0 .. 32 : (parseDate([date EXCEPT !.d = d], FALSE) # Bad) <=> d \in 1 .. LastDay(date.y, date.m)

(***************************************************************************)
(* What these rest on: the page is a day of the calendar, and its number   *)
(* is the sum over the years and the months before it.                     *)
(***************************************************************************)
CalendarInv ==
  /\ first \in StartYears /\ date \in [y : Years, m : 1 .. 12, d : 1 .. 31]
  /\ date.d <= LastDay(date.y, date.m)
  /\ days = since1970(date.y) + monthStart(date.y)[date.m] + date.d - 1

=============================================================================
