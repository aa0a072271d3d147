----------------------------- MODULE MCCronNext -----------------------------
(***************************************************************************)
(* A year of two months, the second one short except in every other year;  *)
(* two days to the week, two hours to the day, two minutes to the hour.    *)
(***************************************************************************)
EXTENDS CronNext

(* Months of 3, 1, 3 and 2 days. *)
MCMonthStarts == <<0, 3, 4, 7>>

(* In the Gregorian calendar no date that exists is absent for more than     *)
(* eight years, and the limit of the code leaves time for nine.              *)
LeapYear(y) == y % 4 = 0 /\ (y % 100 # 0 \/ y % 400 = 0)

ASSUME RarestDateAssumption ==
  /\ \A y \in 0..399 : \E k \in 1..8 : LeapYear(y + k)
  /\ 9 * 366 <= 5000 - 3

NonEmpty(S) == SUBSET S \ {{}}

(* Everything the parser can produce: each field a non-empty set. *)
MCExprs ==
  [minute : NonEmpty(0..1), hour : NonEmpty(0..1), dom : NonEmpty(1..3),
   month : NonEmpty(1..2), dow : NonEmpty(0..1)]

(* One and a half cycles of the two-year calendar. *)
MCAnchors == 0..53

(* A job at one hour of every day, and the hour around a change back. *)
MCDaily == [minute : {{0}, {0, 1}}, hour : {{1}}, dom : {1..3}, month : {1..2}, dow : {0..1}]
MCFoldAnchors == 0..20
MCFold == -2

=============================================================================
