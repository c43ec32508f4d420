----------------------------- MODULE UsagePeriod -----------------------------
(***************************************************************************)
(* infohub: the calendar the usage totals are counted by.  A day is an     *)
(* integer, a date in Asia/Shanghai; day 0 is a Saturday, so that the two  *)
(* days after it cross a weekend and a week.                               *)
(***************************************************************************)
EXTENDS Integers

\* time.Weekday, Sunday is 0.
Weekday(day) == (day + 6) % 7

\* UsageDates: the Monday of the calendar week of a day.
WeekStart(day) == day - ((Weekday(day) + 6) % 7)
=============================================================================
