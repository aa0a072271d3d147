------------------------------ MODULE CronNext ------------------------------
(***************************************************************************)
(* salts_cron_next and salts_cron_next_n of cron/src/salts_cron.c: the     *)
(* search for the next matching minute, one step per turn of its loop.     *)
(*                                                                         *)
(* Time is counted in ticks, Minute ticks to a minute.  A struct tm that   *)
(* mktime has normalised is the number of local minutes it stands for, and *)
(* the calendar is a parameter, so that a small one has all the cases of   *)
(* the real one: months of different lengths, leap years, weeks that do    *)
(* not divide the year.                                                    *)
(***************************************************************************)
EXTENDS Integers, Sequences, FiniteSets, FiniteSetsExt

CONSTANTS
  Minute,         \* ticks per minute
  Mins, Hours,    \* minutes per hour, hours per day
  MonthStarts,    \* first days of the months in one cycle of years, from 0
  CycleDays,      \* days of that cycle
  MonthsPerYear,
  WeekDays,       \* days per week
  LongestMonth,   \* 31
  MaxIters,       \* 5000: turns of the loop before SALTS_CRON_ENEXT
  MaxCount,       \* max_count of salts_cron_next_n
  Exprs,          \* the parsed expressions to search for
  Anchors,        \* values of `after`
  Transition,     \* the minute at which the UTC offset changes
  Shift           \* by how many minutes

ASSUME CalendarAssumption ==
  /\ {Minute, Mins, Hours, CycleDays, MonthsPerYear, WeekDays, LongestMonth,
       MaxIters, MaxCount} \subseteq Nat \ {0}
  /\ MonthStarts \in Seq(0..CycleDays - 1) /\ MonthStarts # << >> /\ MonthStarts[1] = 0
  /\ \A i \in 2..Len(MonthStarts) : MonthStarts[i - 1] < MonthStarts[i]
  /\ Len(MonthStarts) % MonthsPerYear = 0
  /\ Anchors \subseteq Nat

(* cron_apply_range refuses a value outside its field, and a field without  *)
(* a value is refused too.                                                  *)
ASSUME ExprAssumption ==
  /\ Exprs \subseteq [minute : SUBSET (0..Mins - 1), hour : SUBSET (0..Hours - 1),
                      dom : SUBSET (1..LongestMonth), month : SUBSET (1..MonthsPerYear),
                      dow : SUBSET (0..WeekDays - 1)]
  /\ \A e \in Exprs : e.minute # {}

VARIABLES
  expr,    \* salts_cron_expr_t, each bit field as a set
  after,   \* the caller's anchor
  anchor,  \* what salts_cron_next_n passes to the search in progress
  local,   \* local_tm
  iters,
  out,     \* next_out[0 .. written)
  status   \* "SEARCH" while the loop runs, then the return code

vars == <<expr, after, anchor, local, iters, out, status>>

---------------------------------------------------------------------------
(* The calendar (the C library).                                           *)

Cycle == Len(MonthStarts)

(* Days before month m, months being counted from the epoch. *)
MonthStart(m) == (m \div Cycle) * CycleDays + MonthStarts[(m % Cycle) + 1]

(* The local minute of 00:00 on day d (from 1) of month m; d may be one     *)
(* past the end, and mktime carries it over.                                *)
DayMinute(m, d) == (MonthStart(m) + d - 1) * Hours * Mins

Day(l) == l \div (Hours * Mins)

MonthNo(l) ==
  (Day(l) \div CycleDays) * Cycle
    + Cardinality({i \in 1..Cycle : MonthStarts[i] <= Day(l) % CycleDays}) - 1

Mon(l)   == (MonthNo(l) % MonthsPerYear) + 1
MDay(l)  == Day(l) - MonthStart(MonthNo(l)) + 1
WDay(l)  == Day(l) % WeekDays
Hour(l)  == (l \div Mins) % Hours
Min60(l) == l % Mins

(* localtime: the local minute of a UTC minute. *)
Localtime(t) == IF t < Transition THEN t ELSE t + Shift

(* mktime with tm_isdst = -1: any UTC minute with that local time; for one  *)
(* the change has skipped, either reading of it.                            *)
Mktime(l) ==
  LET exact == {t \in {l, l - Shift} : Localtime(t) = l}
  IN  IF exact # {} THEN exact ELSE {l, l - Shift}

---------------------------------------------------------------------------
(* cron_field_is_full, as kept in day_of_month_any and day_of_week_any. *)
DomAny == expr.dom = 1..LongestMonth
DowAny == expr.dow = 0..WeekDays - 1

(* Fault: two restricted day fields must both match. *)
DayMatchesBoth(l) ==
  (DomAny \/ MDay(l) \in expr.dom) /\ (DowAny \/ WDay(l) \in expr.dow)

(* The day test of the search. *)
DayMatches(l) ==
  LET dom == MDay(l) \in expr.dom
      dow == WDay(l) \in expr.dow
  IN  CASE DomAny /\ DowAny -> TRUE
        [] DomAny /\ ~DowAny -> dow
        [] ~DomAny /\ DowAny -> dom
        [] OTHER -> dom \/ dow

(* salts_cron_matches for the minute t *)
Matches(t) ==
  LET l == Localtime(t)
  IN  /\ Min60(l) \in expr.minute /\ Hour(l) \in expr.hour /\ Mon(l) \in expr.month
      /\ \/ DomAny /\ DowAny
         \/ ~DomAny /\ MDay(l) \in expr.dom
         \/ ~DowAny /\ WDay(l) \in expr.dow

(* bits >> value: what is left of a field, and its lowest member. *)
AtLeast(field, value) == {v \in field : v >= value}

---------------------------------------------------------------------------
(* Fault: the minute of the anchor itself is a candidate. *)
AnchorCandidate(a) == Localtime((a - (a % Minute)) \div Minute)

(* floor_minute(after) + 60, then localtime. *)
FirstCandidate(a) == Localtime((a - (a % Minute)) \div Minute + 1)

Init ==
  /\ expr \in Exprs
  /\ after \in Anchors
  /\ anchor = after
  /\ local = FirstCandidate(after)
  /\ iters = 0
  /\ out = << >>
  /\ status = "SEARCH"

Searching == status = "SEARCH" /\ iters < MaxIters

(* Fields set in local_tm, mktime, continue. *)
Jump(l) ==
  /\ Searching
  /\ \E t \in Mktime(l) : local' = Localtime(t)
  /\ iters' = iters + 1
  /\ UNCHANGED <<expr, after, anchor, out, status>>

MonthOK  == Mon(local) \in expr.month
DayOK    == MonthOK /\ DayMatches(local)
HourOK   == DayOK /\ Hour(local) \in expr.hour
MinuteOK == HourOK /\ Min60(local) \in expr.minute

(* Fault: the hour and the minute are kept. *)
SameTimeNextDay == Jump(local + Hours * Mins)

(* 00:00 of the next day; minute 0 of the next hour. *)
NextDay == Jump(DayMinute(MonthNo(local), MDay(local) + 1))
NextHour == Jump((local \div Mins + 1) * Mins)

YearExhausted ==
  /\ AtLeast(expr.month, Mon(local)) = {}
  /\ Jump(DayMinute((MonthNo(local) \div MonthsPerYear + 1) * MonthsPerYear, 1))

MonthJump ==
  /\ ~MonthOK /\ AtLeast(expr.month, Mon(local)) # {}
  /\ Jump(DayMinute(MonthNo(local) + Min(AtLeast(expr.month, Mon(local))) - Mon(local), 1))

(* Fault: a day that does not match is searched hour by hour. *)
DayMismatchHourly == MonthOK /\ ~DayMatches(local) /\ NextHour

DayMismatch == MonthOK /\ ~DayMatches(local) /\ NextDay

DayExhausted == DayOK /\ AtLeast(expr.hour, Hour(local)) = {} /\ NextDay

HourJump ==
  /\ DayOK /\ ~HourOK /\ AtLeast(expr.hour, Hour(local)) # {}
  /\ Jump((local \div Mins + Min(AtLeast(expr.hour, Hour(local))) - Hour(local)) * Mins)

HourExhausted == HourOK /\ AtLeast(expr.minute, Min60(local)) = {} /\ NextHour

MinuteJump ==
  /\ HourOK /\ ~MinuteOK /\ AtLeast(expr.minute, Min60(local)) # {}
  /\ Jump(local + Min(AtLeast(expr.minute, Min60(local))) - Min60(local))

(* The match is turned into a time_t; salts_cron_next_n goes on from it.   *)
Match ==
  /\ Searching /\ MinuteOK
  /\ \E t \in Mktime(local) :
       /\ out' = Append(out, t * Minute)
       /\ IF Len(out) + 1 < MaxCount
          THEN /\ anchor' = t * Minute
               /\ local' = FirstCandidate(t * Minute)
               /\ iters' = 0
               /\ status' = "SEARCH"
          ELSE status' = "OK" /\ UNCHANGED <<anchor, local, iters>>
  /\ UNCHANGED <<expr, after>>

(* After the loop: SALTS_CRON_ENEXT; next_n returns what it has, if it has  *)
(* any.                                                                     *)
GiveUp ==
  /\ status = "SEARCH" /\ iters = MaxIters
  /\ status' = IF out = << >> THEN "ENEXT" ELSE "OK"
  /\ UNCHANGED <<expr, after, anchor, local, iters, out>>

Next ==
  \/ YearExhausted \/ MonthJump \/ DayMismatch \/ DayExhausted \/ HourJump
  \/ HourExhausted \/ MinuteJump \/ Match \/ GiveUp

Spec == Init /\ [][Next]_vars

---------------------------------------------------------------------------
(* Properties.                                                             *)

(* The minutes after the instant a and before minute b. *)
Between(a, b) == (a \div Minute) + 1 .. b - 1

(* The search never jumps over a match: whatever field it advances, no      *)
(* minute between the anchor and the candidate satisfies salts_cron_matches *)
(* (with a constant UTC offset, where local and UTC minutes coincide).      *)
NothingSkipped ==
  status = "SEARCH" => \A t \in Between(anchor, local) : ~Matches(t)

Previous(i) == IF i = 1 THEN after ELSE out[i - 1]

(* Every time salts_cron_next_n writes matches, and nothing between it and  *)
(* the one before (for the first: the caller's anchor) does.                *)
EarliestMatch ==
  \A i \in DOMAIN out :
    /\ Matches(out[i] \div Minute)
    /\ \A t \in Between(Previous(i), out[i] \div Minute) : ~Matches(t)

(* "strictly after" and "in ascending order" (salts_cron.h:148, 158).       *)
StrictlyAfter == \A i \in DOMAIN out : out[i] > Previous(i)

(* SALTS_CRON_ENEXT, or fewer times than asked for, comes late: apart from   *)
(* three turns at the ends, each turn of the loop leaves a day behind, so    *)
(* none of the MaxIters - 3 days from the first candidate on has a match.    *)
(* With the limit of 5000 that is more than thirteen years, and the rarest   *)
(* date, 29 February, is back after eight: what can match is found.          *)
GivesUpLate ==
  status # "SEARCH" /\ Len(out) < MaxCount =>
    \A t \in Between(anchor, (Day(FirstCandidate(anchor)) + MaxIters - 3) * Hours * Mins) :
      ~Matches(t)

=============================================================================
