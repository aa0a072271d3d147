--------------------------- MODULE CronNextProofs ---------------------------
(***************************************************************************)
(* The search of salts_cron_next is exact for every calendar, expression   *)
(* and anchor, as long as the UTC offset does not change (Shift = 0): then *)
(* local minutes and UTC minutes coincide and mktime inverts localtime.    *)
(***************************************************************************)
EXTENDS CronNext, FiniteSetTheorems, WellFoundedInduction, TLAPS

---------------------------------------------------------------------------
(* Quotients and remainders.                                               *)

LEMMA Division ==
  ASSUME NEW a \in Nat, NEW n \in Nat \ {0}
  PROVE  /\ a \div n \in Nat /\ a % n \in 0..n - 1
         /\ a = (a \div n) * n + (a % n)
OBVIOUS

LEMMA DivisionUnique ==
  ASSUME NEW n \in Nat \ {0}, NEW a \in Nat, NEW p \in 0..n - 1
  PROVE  (a * n + p) \div n = a /\ (a * n + p) % n = p
OBVIOUS

(* Numbers in mixed radix are ordered digit by digit. *)
LEMMA DigitOrder ==
  ASSUME NEW n \in Nat, NEW a \in Nat, NEW b \in Nat, NEW p \in 0..n - 1, NEW q \in 0..n - 1
  PROVE  a * n + p <= b * n + q <=> (a < b \/ (a = b /\ p <= q))
OBVIOUS

LEMMA QuotientBelow ==
  ASSUME NEW n \in Nat \ {0}, NEW a \in Nat, NEW b \in Nat
  PROVE  a \div n < b <=> a < b * n
OBVIOUS

LEMMA QuotientMonotone ==
  ASSUME NEW n \in Nat \ {0}, NEW a \in Nat, NEW b \in Nat, a <= b
  PROVE  a \div n <= b \div n
OBVIOUS

LEMMA QuotientOfQuotient ==
  ASSUME NEW n \in Nat \ {0}, NEW m \in Nat \ {0}, NEW a \in Nat
  PROVE  m * n \in Nat \ {0} /\ (a \div n) \div m = a \div (m * n)
OBVIOUS

(* Two numbers with the same quotient differ by their remainders. *)
LEMMA SameQuotient ==
  ASSUME NEW n \in Nat \ {0}, NEW a \in Nat, NEW b \in Nat, a \div n = b \div n
  PROVE  b - a = (b % n) - (a % n)
<1> DEFINE q == a \div n
<1>1. a % n \in Nat /\ b % n \in Nat /\ q * n \in Nat
  BY Division
<1>2. a = q * n + (a % n) /\ b = q * n + (b % n)
  BY Division
<1> HIDE DEF q
<1> QED
  BY <1>1, <1>2

LEMMA LeastElement ==
  ASSUME NEW T, T \subseteq Nat, T # {}
  PROVE  \E x \in T : \A y \in T : x <= y
<1> DEFINE R == OpToRel(<, Nat)
<1>1. IsWellFoundedOn(R, Nat)
  BY NatLessThanWellFounded
<1>2. \E x \in T : \A y \in T : ~(<<y, x>> \in R)
  <2> HIDE DEF R
  <2> QED
    BY <1>1, WFMin
<1>3. PICK x \in T : \A y \in T : ~(<<y, x>> \in R)
  BY <1>2
<1>4. \A y \in T : x <= y
  <2> TAKE y \in T
  <2>1. x \in Nat /\ y \in Nat
    OBVIOUS
  <2>2. ~(y < x)
    BY <1>3, <2>1 DEF OpToRel
  <2> QED
    BY <2>1, <2>2
<1> QED
  BY <1>4

(* What is left of a field from a value on, and its lowest member. *)
LEMMA LowestLeft ==
  ASSUME NEW field, field \subseteq Nat, NEW value \in Nat, AtLeast(field, value) # {}
  PROVE  /\ Min(AtLeast(field, value)) \in field
         /\ Min(AtLeast(field, value)) >= value
         /\ \A v \in field : v >= value => v >= Min(AtLeast(field, value))
<1> DEFINE T == AtLeast(field, value)
<1>1. T \subseteq Nat /\ T # {}
  BY DEF AtLeast
<1>2. \E x \in T : \A y \in T : x <= y
  <2> HIDE DEF T
  <2> QED
    BY <1>1, LeastElement
<1>3. Min(T) \in T /\ \A y \in T : Min(T) <= y
  <2> HIDE DEF T
  <2> QED
    BY <1>2 DEF Min
<1> QED
  BY <1>3 DEF AtLeast

---------------------------------------------------------------------------
(* The calendar.                                                           *)

LEMMA CalendarTypes ==
  /\ Minute \in Nat \ {0} /\ Mins \in Nat \ {0} /\ Hours \in Nat \ {0}
  /\ CycleDays \in Nat \ {0} /\ MonthsPerYear \in Nat \ {0} /\ WeekDays \in Nat \ {0}
  /\ Cycle \in Nat \ {0}
  /\ \A i \in 1..Cycle : MonthStarts[i] \in 0..CycleDays - 1
  /\ MonthStarts[1] = 0
  /\ \A i \in 2..Cycle : MonthStarts[i - 1] < MonthStarts[i]
  /\ Hours * Mins \in Nat \ {0}
<1>1. /\ Minute \in Nat \ {0} /\ Mins \in Nat \ {0} /\ Hours \in Nat \ {0}
      /\ CycleDays \in Nat \ {0} /\ MonthsPerYear \in Nat \ {0} /\ WeekDays \in Nat \ {0}
  BY CalendarAssumption
<1>2. MonthStarts \in Seq(0..CycleDays - 1) /\ MonthStarts # << >>
  BY CalendarAssumption
<1>3. Cycle \in Nat \ {0}
  BY <1>2 DEF Cycle
<1>4. \A i \in 1..Cycle : MonthStarts[i] \in 0..CycleDays - 1
  <2> DEFINE D == 0..CycleDays - 1
  <2>1. MonthStarts \in Seq(D)
    BY <1>2
  <2> HIDE DEF D
  <2>2. \A i \in 1..Cycle : MonthStarts[i] \in D
    BY <2>1 DEF Cycle
  <2> QED
    BY <2>2 DEF D
<1>5. Hours * Mins \in Nat \ {0}
  BY <1>1
<1> QED
  BY <1>1, <1>3, <1>4, <1>5, CalendarAssumption DEF Cycle

(* The months of a cycle that have begun by its day r are the first ones. *)
LEMMA MonthsBegun ==
  ASSUME NEW r \in 0..CycleDays - 1
  PROVE  \E c \in 1..Cycle :
           /\ {i \in 1..Cycle : MonthStarts[i] <= r} = 1..c
           /\ Cardinality({i \in 1..Cycle : MonthStarts[i] <= r}) = c
<1> DEFINE S == {i \in 1..Cycle : MonthStarts[i] <= r}
           T == {i \in 1..Cycle + 1 : i \notin S}
<1>0. Cycle \in Nat \ {0} /\ r \in Nat
  BY CalendarTypes
<1>1. T \subseteq Nat /\ T # {}
  <2>1. Cycle + 1 \in 1..Cycle + 1 /\ Cycle + 1 \notin 1..Cycle /\ 1..Cycle + 1 \subseteq Nat
    BY <1>0
  <2>2. S \subseteq 1..Cycle
    OBVIOUS
  <2> HIDE DEF S
  <2> QED
    BY <2>1, <2>2, Zenon
<1>2. PICK x \in T : \A y \in T : x <= y
  <2> HIDE DEF T
  <2> QED
    BY <1>1, LeastElement
<1>3. 1 \in S
  BY <1>0, CalendarTypes
<1>4. x \in 2..Cycle + 1 /\ x \notin S
  BY <1>0, <1>2, <1>3
<1>5. ASSUME NEW k \in S, k > x PROVE FALSE
  <2> DEFINE U == {j \in S : j > x}
  <2>1. U \subseteq Nat /\ U # {}
    BY <1>0, <1>5
  <2>2. PICK u \in U : \A y \in U : u <= y
    <3> HIDE DEF U
    <3> QED
      BY <2>1, LeastElement
  <2>3. u \in 2..Cycle /\ u - 1 \in 1..Cycle /\ x <= u - 1 /\ MonthStarts[u] <= r
    BY <1>0, <1>4, <2>2
  <2>4. u - 1 \notin S
    BY <1>4, <2>2, <2>3
  <2>5. MonthStarts[u - 1] < MonthStarts[u] /\ MonthStarts[u - 1] \in Nat /\ MonthStarts[u] \in Nat
    BY <2>3, CalendarTypes
  <2> QED
    BY <1>0, <2>3, <2>4, <2>5
<1>6. S = 1..x - 1
  <2>1. ASSUME NEW i \in S PROVE i \in 1..x - 1
    BY <1>0, <1>4, <1>5
  <2>2. ASSUME NEW i \in 1..x - 1 PROVE i \in S
    BY <1>0, <1>2, <1>4
  <2> QED
    BY <2>1, <2>2
<1>7. Cardinality(1..x - 1) = x - 1
  <2>1. 1 \in Int /\ x - 1 \in Int /\ ~(1 > x - 1)
    BY <1>0, <1>4
  <2>2. Cardinality(1..x - 1) = (x - 1) - 1 + 1
    BY <2>1, FS_Interval
  <2> QED
    BY <1>0, <1>4, <2>2
<1>8. x - 1 \in 1..Cycle /\ S = 1..(x - 1) /\ Cardinality(S) = x - 1
  <2> HIDE DEF S, T
  <2>1. x - 1 \in 1..Cycle
    BY <1>0, <1>4
  <2> QED
    BY <1>6, <1>7, <2>1, Zenon
<1>9. PICK c \in 1..Cycle : c = x - 1
  BY <1>8, Zenon
<1>10. S = 1..c /\ Cardinality(S) = c
  <2> HIDE DEF S, T
  <2> QED
    BY <1>8, <1>9, Zenon
<1> QED
  BY <1>10, Zenon

(* MonthNo inverts MonthStart: a month has been reached once its first day *)
(* has (localtime against mktime).                                         *)
LEMMA MonthReached ==
  ASSUME NEW l \in Nat, NEW m \in Nat
  PROVE  /\ Day(l) \in Nat /\ MonthNo(l) \in Nat /\ MonthStart(m) \in Nat
         /\ m <= MonthNo(l) <=> MonthStart(m) <= Day(l)
<1>1. Day(l) \in Nat
  BY CalendarTypes, Division DEF Day
<1> DEFINE y == Day(l) \div CycleDays
           r == Day(l) % CycleDays
           z == m \div Cycle
           s == m % Cycle
<1>2. y \in Nat /\ r \in 0..CycleDays - 1 /\ Day(l) = y * CycleDays + r
  BY <1>1, CalendarTypes, Division
<1>3. z \in Nat /\ s \in 0..Cycle - 1 /\ m = z * Cycle + s
  BY CalendarTypes, Division
<1>4. PICK c \in 1..Cycle :
        /\ {i \in 1..Cycle : MonthStarts[i] <= r} = 1..c
        /\ Cardinality({i \in 1..Cycle : MonthStarts[i] <= r}) = c
  BY <1>2, MonthsBegun
<1>5. MonthNo(l) = y * Cycle + c - 1 /\ MonthStart(m) = z * CycleDays + MonthStarts[s + 1]
  BY <1>4 DEF MonthNo, MonthStart
<1> HIDE DEF y, r, z, s
<1>6. s + 1 \in 1..Cycle /\ MonthStarts[s + 1] \in 0..CycleDays - 1
  BY <1>3, CalendarTypes
<1>7. MonthStarts[s + 1] <= r <=> s <= c - 1
  BY <1>3, <1>4, <1>6, CalendarTypes
<1>8. c - 1 \in 0..Cycle - 1 /\ Cycle \in Nat
  BY CalendarTypes
<1>9. m <= MonthNo(l) <=> (z < y \/ (z = y /\ s <= c - 1))
  <2>1. z * Cycle + s <= y * Cycle + (c - 1) <=> (z < y \/ (z = y /\ s <= c - 1))
    BY <1>2, <1>3, <1>8, DigitOrder
  <2>2. MonthNo(l) = y * Cycle + (c - 1)
    BY <1>2, <1>5, <1>8
  <2> QED
    BY <1>3, <2>1, <2>2
<1>10. MonthStart(m) <= Day(l) <=> (z < y \/ (z = y /\ MonthStarts[s + 1] <= r))
  BY <1>2, <1>3, <1>5, <1>6, CalendarTypes, DigitOrder
<1>11. MonthNo(l) \in Nat /\ MonthStart(m) \in Nat
  BY <1>2, <1>3, <1>5, <1>6, <1>8, CalendarTypes
<1> QED
  BY <1>1, <1>7, <1>9, <1>10, <1>11

(* The first minute of a month separates what lies before the month. *)
LEMMA BeforeMonth ==
  ASSUME NEW l \in Nat, NEW m \in Nat
  PROVE  /\ DayMinute(m, 1) \in Nat
         /\ l < DayMinute(m, 1) <=> MonthNo(l) < m
<1>1. Day(l) \in Nat /\ MonthNo(l) \in Nat /\ MonthStart(m) \in Nat
      /\ (m <= MonthNo(l) <=> MonthStart(m) <= Day(l))
  BY MonthReached
<1> DEFINE b == MonthStart(m)
           n == Hours * Mins
<1>2. b \in Nat /\ n \in Nat \ {0}
  BY <1>1, CalendarTypes
<1>3. DayMinute(m, 1) = b * n
  BY <1>1, CalendarTypes DEF DayMinute
<1>4. Day(l) = l \div n
  BY DEF Day
<1> HIDE DEF b, n
<1>5. l \div n < b <=> l < b * n
  BY <1>2, QuotientBelow
<1>6. b * n \in Nat
  BY <1>2
<1> QED
  BY <1>1, <1>3, <1>4, <1>5, <1>6 DEF b

LEMMA MonthMonotone ==
  ASSUME NEW l \in Nat, NEW t \in Nat, l <= t
  PROVE  MonthNo(l) \in Nat /\ MonthNo(t) \in Nat /\ MonthNo(l) <= MonthNo(t)
<1>1. MonthNo(l) \in Nat /\ MonthNo(t) \in Nat
  BY MonthReached
<1>2. ~(t < DayMinute(MonthNo(l), 1))
  BY <1>1, BeforeMonth
<1> QED
  BY <1>1, <1>2, BeforeMonth

(* 00:00 of the next day separates what lies before it. *)
LEMMA BeforeNextDay ==
  ASSUME NEW l \in Nat, NEW t \in Nat
  PROVE  /\ DayMinute(MonthNo(l), MDay(l) + 1) \in Nat
         /\ t < DayMinute(MonthNo(l), MDay(l) + 1) <=> Day(t) <= Day(l)
<1>1. Day(l) \in Nat /\ Day(t) \in Nat /\ MonthStart(MonthNo(l)) \in Nat
  BY MonthReached
<1> DEFINE b == Day(l) + 1
           n == Hours * Mins
<1>2. b \in Nat /\ n \in Nat \ {0}
  BY <1>1, CalendarTypes
<1>3. DayMinute(MonthNo(l), MDay(l) + 1) = b * n
  BY <1>1, CalendarTypes DEF DayMinute, MDay
<1>4. Day(t) = t \div n
  BY DEF Day
<1>5. Day(t) < b <=> Day(t) <= Day(l)
  BY <1>1
<1> HIDE DEF b, n
<1>6. t \div n < b <=> t < b * n
  BY <1>2, QuotientBelow
<1>7. b * n \in Nat
  BY <1>2
<1> QED
  BY <1>3, <1>4, <1>5, <1>6, <1>7

(* A minute is its hour, counted from the epoch, and what is left; an hour *)
(* is its day and what is left.                                            *)
LEMMA MinuteParts ==
  ASSUME NEW l \in Nat
  PROVE  /\ l \div Mins \in Nat
         /\ Min60(l) \in 0..Mins - 1 /\ Hour(l) \in 0..Hours - 1
         /\ l = (l \div Mins) * Mins + Min60(l)
         /\ l \div Mins = Day(l) * Hours + Hour(l)
<1>1. l \div Mins \in Nat /\ Min60(l) \in 0..Mins - 1 /\ l = (l \div Mins) * Mins + Min60(l)
  BY CalendarTypes, Division DEF Min60
<1> DEFINE h == l \div Mins
<1>2. Day(l) = h \div Hours
  BY CalendarTypes, QuotientOfQuotient DEF Day
<1>3. Hour(l) = h % Hours
  BY DEF Hour
<1> HIDE DEF h
<1>4. Hour(l) \in 0..Hours - 1 /\ h = Day(l) * Hours + Hour(l)
  BY <1>1, <1>2, <1>3, CalendarTypes, Division DEF h
<1> QED
  BY <1>1, <1>4 DEF h

---------------------------------------------------------------------------
(* Where the search jumps, nothing it leaves out matches.                  *)

(* The minutes from l to before k. *)
Free(l, k) == \A t \in l..k - 1 : ~Matches(t)

Fields(e) ==
  /\ e.minute \subseteq 0..Mins - 1 /\ e.hour \subseteq 0..Hours - 1
  /\ e.month \subseteq 1..MonthsPerYear

LEMMA ExprFields ==
  ASSUME NEW e \in Exprs
  PROVE  Fields(e)
BY ExprAssumption DEF Fields

(* With a constant offset salts_cron_matches is the test of the search. *)
LEMMA MatchesLocal ==
  ASSUME Shift = 0, NEW t \in Nat
  PROVE  /\ Localtime(t) = t /\ Mktime(t) = {t}
         /\ Matches(t) <=> /\ Min60(t) \in expr.minute /\ Hour(t) \in expr.hour
                           /\ Mon(t) \in expr.month /\ DayMatches(t)
<1>1. ASSUME NEW u \in Nat PROVE Localtime(u) = u
  BY <1>1 DEF Localtime
<1>2. Localtime(t) = t
  BY <1>1
<1>3. Mktime(t) = {t}
  <2>1. t - Shift = t
    OBVIOUS
  <2>2. {u \in {t, t - Shift} : Localtime(u) = t} = {t}
    BY <1>2, <2>1
  <2> QED
    BY <2>2 DEF Mktime
<1> QED
  BY <1>2, <1>3 DEF Matches, DayMatches

(* Months of one year are numbered as in tm_mon. *)
LEMMA SameYear ==
  ASSUME NEW a \in Nat, NEW b \in Nat, a <= b,
         b < (a \div MonthsPerYear + 1) * MonthsPerYear
  PROVE  (b % MonthsPerYear) - (a % MonthsPerYear) = b - a
<1> DEFINE n == MonthsPerYear
<1>1. n \in Nat \ {0}
  BY CalendarTypes
<1> HIDE DEF n
<1>2. a \div n \in Nat /\ b \div n \in Nat
  BY <1>1, Division
<1>3. b \div n < a \div n + 1
  BY <1>1, <1>2, QuotientBelow DEF n
<1>4. a \div n <= b \div n
  BY <1>1, QuotientMonotone
<1>5. a \div n = b \div n
  BY <1>2, <1>3, <1>4
<1>6. b - a = (b % n) - (a % n)
  BY <1>1, <1>5, SameQuotient
<1> QED
  BY <1>6 DEF n

LEMMA MonthRange ==
  ASSUME NEW l \in Nat
  PROVE  Mon(l) \in 1..MonthsPerYear /\ MonthNo(l) % MonthsPerYear = Mon(l) - 1
<1>1. MonthNo(l) \in Nat /\ MonthsPerYear \in Nat \ {0}
  BY MonthReached, CalendarTypes
<1>2. MonthNo(l) % MonthsPerYear \in 0..MonthsPerYear - 1
  BY <1>1, Division
<1> QED
  BY <1>1, <1>2 DEF Mon

(* A jump to k moves forward and passes over no match. *)
Skips(k) == k \in Nat /\ local < k /\ Free(local, k)

LEMMA SkipYear ==
  ASSUME Shift = 0, local \in Nat, Fields(expr), AtLeast(expr.month, Mon(local)) = {}
  PROVE  Skips(DayMinute((MonthNo(local) \div MonthsPerYear + 1) * MonthsPerYear, 1))
<1> DEFINE a == MonthNo(local)
           m == (a \div MonthsPerYear + 1) * MonthsPerYear
<1>1. a \in Nat /\ MonthsPerYear \in Nat \ {0}
  BY MonthReached, CalendarTypes
<1>2. m \in Nat /\ a < m
  <2>1. a \div MonthsPerYear \in Nat
    BY <1>1, Division
  <2>2. a \div MonthsPerYear < a \div MonthsPerYear + 1 /\ a \div MonthsPerYear + 1 \in Nat
    BY <2>1
  <2>3. a < m
    BY <1>1, <2>2, QuotientBelow
  <2> QED
    BY <1>1, <2>2, <2>3
<1>3. DayMinute(m, 1) \in Nat /\ local < DayMinute(m, 1)
  BY <1>2, BeforeMonth
<1>4. ASSUME NEW t \in local..DayMinute(m, 1) - 1 PROVE ~Matches(t)
  <2>1. t \in Nat /\ local <= t /\ t < DayMinute(m, 1)
    BY <1>3
  <2>2. MonthNo(t) \in Nat /\ a <= MonthNo(t) /\ MonthNo(t) < m
    BY <1>2, <2>1, BeforeMonth, MonthMonotone
  <2>3. (MonthNo(t) % MonthsPerYear) - (a % MonthsPerYear) = MonthNo(t) - a
    BY <1>1, <2>2, SameYear
  <2>4. /\ Mon(t) \in Nat /\ MonthNo(t) % MonthsPerYear = Mon(t) - 1
        /\ Mon(local) \in Nat /\ a % MonthsPerYear = Mon(local) - 1
    BY <2>1, MonthRange
  <2>5. Mon(t) >= Mon(local)
    BY <1>1, <2>2, <2>3, <2>4
  <2>6. Mon(t) \notin expr.month
    BY <2>5 DEF AtLeast
  <2> QED
    BY <2>1, <2>6, MatchesLocal
<1> QED
  BY <1>3, <1>4 DEF Skips, Free

LEMMA SkipMonths ==
  ASSUME Shift = 0, local \in Nat, Fields(expr), ~MonthOK, AtLeast(expr.month, Mon(local)) # {}
  PROVE  Skips(DayMinute(MonthNo(local) + Min(AtLeast(expr.month, Mon(local))) - Mon(local), 1))
<1> DEFINE a == MonthNo(local)
           v == Min(AtLeast(expr.month, Mon(local)))
           m == a + v - Mon(local)
<1>1. a \in Nat /\ MonthsPerYear \in Nat \ {0} /\ Mon(local) \in 1..MonthsPerYear
      /\ a % MonthsPerYear = Mon(local) - 1
  BY MonthReached, MonthRange, CalendarTypes
<1>2. v \in expr.month /\ v >= Mon(local) /\ \A w \in expr.month : w >= Mon(local) => w >= v
  <2>1. expr.month \subseteq Nat /\ Mon(local) \in Nat
    BY <1>1 DEF Fields
  <2> QED
    BY <2>1, LowestLeft
<1>3. v \in 1..MonthsPerYear /\ v > Mon(local)
  BY <1>1, <1>2 DEF Fields, MonthOK
<1> HIDE DEF v
<1>4. m \in Nat /\ a < m
  BY <1>1, <1>3
<1>5. DayMinute(m, 1) \in Nat /\ local < DayMinute(m, 1)
  BY <1>4, BeforeMonth
<1>6. m < (a \div MonthsPerYear + 1) * MonthsPerYear
  <2>1. a \div MonthsPerYear \in Nat /\ a = (a \div MonthsPerYear) * MonthsPerYear + (a % MonthsPerYear)
    BY <1>1, Division
  <2> DEFINE q == a \div MonthsPerYear
  <2> HIDE DEF q
  <2>2. q \in Nat /\ a = q * MonthsPerYear + (Mon(local) - 1)
    BY <1>1, <2>1 DEF q
  <2>3. (q + 1) * MonthsPerYear = q * MonthsPerYear + MonthsPerYear /\ q * MonthsPerYear \in Nat
    BY <1>1, <2>2
  <2>4. m < (q + 1) * MonthsPerYear
    BY <1>1, <1>3, <2>2, <2>3
  <2> QED
    BY <2>4 DEF q
<1>7. ASSUME NEW t \in local..DayMinute(m, 1) - 1 PROVE ~Matches(t)
  <2>1. t \in Nat /\ local <= t /\ t < DayMinute(m, 1)
    BY <1>5
  <2>2. MonthNo(t) \in Nat /\ a <= MonthNo(t) /\ MonthNo(t) < m
    BY <1>4, <2>1, BeforeMonth, MonthMonotone
  <2>3. MonthNo(t) < (a \div MonthsPerYear + 1) * MonthsPerYear
    <3> DEFINE e == (a \div MonthsPerYear + 1) * MonthsPerYear
    <3>1. e \in Nat
      BY <1>1, Division
    <3> HIDE DEF e
    <3>2. m < e
      BY <1>6 DEF e
    <3>3. MonthNo(t) < e
      BY <1>4, <2>2, <3>1, <3>2
    <3> QED
      BY <3>3 DEF e
  <2>4. (MonthNo(t) % MonthsPerYear) - (a % MonthsPerYear) = MonthNo(t) - a
    BY <1>1, <2>2, <2>3, SameYear
  <2>5. Mon(t) \in Nat /\ MonthNo(t) % MonthsPerYear = Mon(t) - 1
    BY <2>1, MonthRange
  <2>6. Mon(t) >= Mon(local) /\ Mon(t) < v
    BY <1>1, <1>3, <2>2, <2>4, <2>5
  <2>7. Mon(t) \notin expr.month
    BY <1>2, <1>3, <2>5, <2>6
  <2> QED
    BY <2>1, <2>7, MatchesLocal
<1>8. Skips(DayMinute(m, 1))
  BY <1>5, <1>7 DEF Skips, Free
<1> QED
  BY <1>8 DEF v

(* To the next day when the day does not match, or no hour is left. *)
LEMMA SkipDay ==
  ASSUME Shift = 0, local \in Nat, Fields(expr),
         ~DayMatches(local) \/ AtLeast(expr.hour, Hour(local)) = {}
  PROVE  Skips(DayMinute(MonthNo(local), MDay(local) + 1))
<1> DEFINE k == DayMinute(MonthNo(local), MDay(local) + 1)
<1>1. Day(local) \in Nat /\ k \in Nat /\ local < k
  BY BeforeNextDay, MonthReached
<1>2. ASSUME NEW t \in local..k - 1 PROVE ~Matches(t)
  <2>1. t \in Nat /\ local <= t /\ t < k
    BY <1>1
  <2>2. Day(t) = Day(local)
    <3>1. Day(t) \in Nat /\ Day(t) <= Day(local)
      BY <2>1, BeforeNextDay, MonthReached
    <3>2. Day(local) <= Day(t)
      BY <2>1, QuotientMonotone, CalendarTypes DEF Day
    <3> QED
      BY <1>1, <3>1, <3>2
  <2>3. DayMatches(t) <=> DayMatches(local)
    <3>1. MDay(t) = MDay(local) /\ WDay(t) = WDay(local)
      BY <2>2 DEF MDay, WDay, MonthNo
    <3> QED
      BY <3>1 DEF DayMatches
  <2>4. Hour(t) >= Hour(local)
    <3>1. t \div Mins >= local \div Mins
      BY <2>1, QuotientMonotone, CalendarTypes
    <3> DEFINE d == Day(local) * Hours
    <3>2. d \in Nat
      BY <1>1, CalendarTypes
    <3>3. /\ t \div Mins = d + Hour(t) /\ Hour(t) \in Nat
          /\ local \div Mins = d + Hour(local) /\ Hour(local) \in Nat
      BY <2>1, <2>2, MinuteParts
    <3> HIDE DEF d
    <3> QED
      BY <3>1, <3>2, <3>3
  <2>5. Hour(t) \in expr.hour => ~DayMatches(t)
    BY <2>3, <2>4 DEF AtLeast
  <2> QED
    BY <2>1, <2>5, MatchesLocal
<1> QED
  BY <1>1, <1>2 DEF Skips, Free

(* Minute t lies in the hours h .. h + v - Hour(local) - 1 of one day. *)
LEMMA SkipHours ==
  ASSUME Shift = 0, local \in Nat, Fields(expr), Hour(local) \notin expr.hour,
         AtLeast(expr.hour, Hour(local)) # {}
  PROVE  Skips((local \div Mins + Min(AtLeast(expr.hour, Hour(local))) - Hour(local)) * Mins)
<1> DEFINE h == local \div Mins
           v == Min(AtLeast(expr.hour, Hour(local)))
           b == h + v - Hour(local)
<1>1. h \in Nat /\ Hour(local) \in 0..Hours - 1 /\ Mins \in Nat \ {0} /\ Hours \in Nat \ {0}
  BY MinuteParts, CalendarTypes
<1>2. v \in expr.hour /\ v >= Hour(local) /\ \A w \in expr.hour : w >= Hour(local) => w >= v
  <2>1. expr.hour \subseteq Nat /\ Hour(local) \in Nat
    BY <1>1 DEF Fields
  <2> QED
    BY <2>1, LowestLeft
<1>3. v \in 0..Hours - 1 /\ v > Hour(local)
  BY <1>1, <1>2 DEF Fields
<1>4. Day(local) \in Nat /\ h = Day(local) * Hours + Hour(local)
  BY MinuteParts, MonthReached
<1> HIDE DEF v
<1>5. b \in Nat /\ h < b /\ h \in Nat
  BY <1>1, <1>3
<1>6. b * Mins \in Nat /\ local < b * Mins
  <2> HIDE DEF b
  <2> QED
    BY <1>1, <1>5, QuotientBelow
<1>7. ASSUME NEW t \in local..b * Mins - 1 PROVE ~Matches(t)
  <2>1. t \in Nat /\ local <= t /\ t < b * Mins
    BY <1>6
  <2>2. t \div Mins \in Nat /\ h <= t \div Mins /\ t \div Mins < b
    <3> HIDE DEF b
    <3> QED
      BY <1>1, <1>5, <2>1, QuotientBelow, QuotientMonotone, Division
  <2> DEFINE g == Hour(local) + (t \div Mins - h)
  <2>3. g \in 0..Hours - 1 /\ g >= Hour(local) /\ g < v
    <3> HIDE DEF h
    <3> QED
      BY <1>1, <1>3, <2>2
  <2>4. t \div Mins = Day(local) * Hours + g
    <3> DEFINE d == Day(local) * Hours
    <3>1. d \in Nat
      BY <1>1, <1>4
    <3> HIDE DEF h, d
    <3>2. h = d + Hour(local)
      BY <1>4 DEF d
    <3>3. t \div Mins = d + g
      BY <1>1, <2>2, <3>1, <3>2
    <3> QED
      BY <3>3 DEF d
  <2>5. Hour(t) = g
    <3> HIDE DEF g
    <3> QED
      BY <1>1, <1>4, <2>3, <2>4, DivisionUnique DEF Hour
  <2>6. Hour(t) \notin expr.hour
    BY <1>1, <1>2, <1>3, <2>3, <2>5
  <2> QED
    BY <2>1, <2>6, MatchesLocal
<1>8. Skips(b * Mins)
  BY <1>6, <1>7 DEF Skips, Free
<1> QED
  BY <1>8 DEF v

LEMMA SkipHour ==
  ASSUME Shift = 0, local \in Nat, Fields(expr), AtLeast(expr.minute, Min60(local)) = {}
  PROVE  Skips((local \div Mins + 1) * Mins)
<1> DEFINE h == local \div Mins
<1>1. h \in Nat /\ Mins \in Nat \ {0} /\ Min60(local) \in Nat
  <2>1. Mins \in Nat \ {0}
    BY CalendarTypes
  <2>2. h \in Nat /\ Min60(local) \in 0..Mins - 1
    BY MinuteParts
  <2> HIDE DEF h
  <2> QED
    BY <2>1, <2>2
<1>2. h + 1 \in Nat /\ (h + 1) * Mins \in Nat /\ local < (h + 1) * Mins
  <2>1. h < h + 1 /\ h + 1 \in Nat
    BY <1>1
  <2>2. (h + 1) * Mins \in Nat
    BY <1>1, <2>1
  <2> QED
    BY <1>1, <2>1, <2>2, QuotientBelow
<1>3. ASSUME NEW t \in local..(h + 1) * Mins - 1 PROVE ~Matches(t)
  <2>1. t \in Nat /\ local <= t /\ t < (h + 1) * Mins
    BY <1>2
  <2>2. t \div Mins \in Nat /\ h <= t \div Mins /\ t \div Mins < h + 1
    BY <1>1, <1>2, <2>1, QuotientBelow, QuotientMonotone, Division
  <2>3. local \div Mins = t \div Mins
    BY <1>1, <2>2
  <2>4. t - local = Min60(t) - Min60(local)
    BY <1>1, <2>1, <2>3, SameQuotient DEF Min60
  <2>5. Min60(t) \in Nat
    BY <2>1, MinuteParts
  <2>6. Min60(t) \notin expr.minute
    BY <1>1, <2>1, <2>4, <2>5 DEF AtLeast
  <2> QED
    BY <2>1, <2>6, MatchesLocal
<1> QED
  BY <1>2, <1>3 DEF Skips, Free

LEMMA SkipMinutes ==
  ASSUME Shift = 0, local \in Nat, Fields(expr), Min60(local) \notin expr.minute,
         AtLeast(expr.minute, Min60(local)) # {}
  PROVE  Skips(local + Min(AtLeast(expr.minute, Min60(local))) - Min60(local))
<1> DEFINE v == Min(AtLeast(expr.minute, Min60(local)))
           q == (local \div Mins) * Mins
           k == local + v - Min60(local)
<1>1. local \div Mins \in Nat /\ Min60(local) \in 0..Mins - 1 /\ Mins \in Nat \ {0}
      /\ local = q + Min60(local)
  BY MinuteParts, CalendarTypes
<1>2. v \in expr.minute /\ v >= Min60(local) /\ \A w \in expr.minute : w >= Min60(local) => w >= v
  <2>1. expr.minute \subseteq Nat /\ Min60(local) \in Nat
    BY <1>1 DEF Fields
  <2> QED
    BY <2>1, LowestLeft
<1>3. v \in 0..Mins - 1 /\ v > Min60(local)
  BY <1>1, <1>2 DEF Fields
<1>4. q \in Nat
  BY <1>1
<1> HIDE DEF v
<1>5. k \in Nat /\ local < k /\ Min60(local) \in Nat
  BY <1>1, <1>3
<1>6. ASSUME NEW t \in local..k - 1 PROVE ~Matches(t)
  <2> DEFINE g == Min60(local) + (t - local)
  <2>1. t \in Nat /\ g \in 0..Mins - 1 /\ g >= Min60(local) /\ g < v
    BY <1>1, <1>3, <1>5
  <2>2. t = q + g
    <3>1. local = q + Min60(local)
      BY <1>1
    <3> HIDE DEF q, k
    <3> QED
      BY <1>4, <1>5, <2>1, <3>1
  <2>3. Min60(t) = g
    <3> HIDE DEF g
    <3> QED
      BY <1>1, <2>1, <2>2, DivisionUnique DEF Min60
  <2>4. Min60(t) \notin expr.minute
    BY <1>1, <1>2, <1>3, <2>1, <2>3
  <2> QED
    BY <2>1, <2>4, MatchesLocal
<1>7. Skips(k)
  <2> HIDE DEF k
  <2> QED
    BY <1>5, <1>6 DEF Skips, Free
<1> QED
  BY <1>7 DEF v

---------------------------------------------------------------------------
(* The inductive invariant.                                                *)

Types ==
  /\ expr \in Exprs /\ after \in Nat /\ anchor \in Nat /\ local \in Nat
  /\ out \in Seq(Nat) /\ iters \in 0..MaxIters

(* A search starts behind the time written last, and its candidate is past  *)
(* its anchor.                                                              *)
Underway ==
  status = "SEARCH" => anchor = Previous(Len(out) + 1) /\ anchor \div Minute < local

IInv == Types /\ Underway /\ NothingSkipped /\ EarliestMatch /\ StrictlyAfter

LEMMA FirstIsNext ==
  ASSUME Shift = 0, NEW a \in Nat
  PROVE  FirstCandidate(a) = a \div Minute + 1 /\ FirstCandidate(a) \in Nat
<1> DEFINE q == a \div Minute
<1>1. Minute \in Nat \ {0} /\ q \in Nat /\ a % Minute \in Nat
      /\ a = q * Minute + (a % Minute)
  BY CalendarTypes, Division
<1>2. a - (a % Minute) = q * Minute + 0
  <2> HIDE DEF q
  <2> QED
    BY <1>1
<1>3. (a - (a % Minute)) \div Minute = q
  <2> HIDE DEF q
  <2>1. 0 \in 0..Minute - 1
    BY <1>1
  <2>2. (q * Minute + 0) \div Minute = q
    BY <1>1, <2>1, DivisionUnique
  <2> QED
    BY <1>2, <2>2
<1>4. q + 1 \in Nat
  BY <1>1
<1> QED
  BY <1>3, <1>4, MatchesLocal DEF FirstCandidate

LEMMA InitIInv ==
  ASSUME Shift = 0, Init
  PROVE  IInv
<1>1. Anchors \subseteq Nat /\ Minute \in Nat \ {0} /\ MaxIters \in Nat
  BY CalendarAssumption
<1>2. after \in Nat /\ anchor = after /\ local = anchor \div Minute + 1 /\ local \in Nat
      /\ anchor \div Minute \in Nat
  BY <1>1, FirstIsNext, Division DEF Init
<1>3. Types
  BY <1>1, <1>2 DEF Types, Init
<1>4. Underway /\ NothingSkipped
  BY <1>2 DEF Init, Underway, NothingSkipped, Between, Previous
<1>5. EarliestMatch /\ StrictlyAfter
  BY DEF Init, EarliestMatch, StrictlyAfter
<1> QED
  BY <1>3, <1>4, <1>5 DEF IInv

LEMMA MatchesSame ==
  ASSUME expr' = expr, NEW t
  PROVE  Matches(t)' <=> Matches(t)
BY DEF Matches, DomAny, DowAny

(* A turn that jumps over no match. *)
LEMMA JumpKeeps ==
  ASSUME Shift = 0, IInv, NEW k, Jump(k), Skips(k)
  PROVE  IInv' /\ local < local'
<1>1. k \in Nat /\ local < k /\ local \in Nat /\ anchor \in Nat /\ status = "SEARCH"
      /\ anchor \div Minute < local /\ anchor \div Minute \in Nat
  BY CalendarTypes, Division DEF Skips, IInv, Types, Underway, Jump, Searching
<1>2. local' = k
  BY <1>1, MatchesLocal DEF Jump
<1>3. expr' = expr /\ after' = after /\ anchor' = anchor /\ out' = out /\ status' = status
  BY DEF Jump
<1>4. Types'
  <2>1. iters' \in 0..MaxIters
    BY CalendarAssumption DEF IInv, Types, Jump, Searching
  <2> QED
    BY <1>1, <1>2, <1>3, <2>1 DEF IInv, Types
<1>5. Underway'
  BY <1>1, <1>2, <1>3 DEF IInv, Underway, Previous
<1>6. NothingSkipped'
  <2> SUFFICES ASSUME NEW t \in Between(anchor, k)
               PROVE  ~Matches(t)'
    BY <1>2, <1>3 DEF NothingSkipped, Between
  <2>1. t \in Between(anchor, local) \/ t \in local..k - 1
    BY <1>1 DEF Between
  <2>2. ~Matches(t)
    BY <1>1, <2>1 DEF IInv, NothingSkipped, Skips, Free
  <2> QED
    BY <1>3, <2>2, MatchesSame
<1>7. EarliestMatch'
  BY <1>3, MatchesSame DEF IInv, EarliestMatch, Previous, Between
<1>8. StrictlyAfter'
  BY <1>3 DEF IInv, StrictlyAfter, Previous
<1> QED
  BY <1>1, <1>2, <1>4, <1>5, <1>6, <1>7, <1>8 DEF IInv

LEMMA MatchKeeps ==
  ASSUME Shift = 0, IInv, Match
  PROVE  IInv'
<1> DEFINE w == local * Minute
           n == Len(out) + 1
<1>1. local \in Nat /\ anchor \in Nat /\ after \in Nat /\ out \in Seq(Nat) /\ status = "SEARCH"
      /\ Minute \in Nat \ {0} /\ expr \in Exprs
  BY CalendarTypes DEF IInv, Types, Match, Searching
<1>2. /\ out' = Append(out, w)
      /\ expr' = expr /\ after' = after
      /\ \/ anchor' = w /\ local' = FirstCandidate(w)
         \/ status' = "OK" /\ anchor' = anchor /\ local' = local
  BY <1>1, MatchesLocal DEF Match
<1>3. w \in Nat /\ w \div Minute = local
  <2>1. w = local * Minute + 0 /\ 0 \in 0..Minute - 1 /\ w \in Nat
    BY <1>1
  <2> HIDE DEF w
  <2> QED
    BY <1>1, <2>1, DivisionUnique
<1>4. FirstCandidate(w) = local + 1
  BY <1>3, FirstIsNext
<1>5. anchor = Previous(n) /\ anchor \div Minute < local /\ w > anchor
  <2>1. anchor = Previous(n) /\ anchor \div Minute < local
    BY <1>1 DEF IInv, Underway
  <2>2. anchor < w
    BY <1>1, <2>1, QuotientBelow
  <2> QED
    BY <1>1, <1>3, <2>1, <2>2
<1>6. Matches(local) /\ \A t \in Between(anchor, local) : ~Matches(t)
  <2>1. Matches(local)
    BY <1>1, MatchesLocal DEF Match, MinuteOK, HourOK, DayOK, MonthOK
  <2> QED
    BY <1>1, <2>1 DEF IInv, NothingSkipped
<1> HIDE DEF w
<1>7. /\ DOMAIN out' = 1..n /\ n \in Nat \ {0} /\ out'[n] = w /\ Len(out') = n
      /\ \A i \in DOMAIN out : out'[i] = out[i]
      /\ DOMAIN out = 1..n - 1
  BY <1>1, <1>2, <1>3
<1>8. \A i \in 1..n : Previous(i)' = Previous(i)
  BY <1>2, <1>7 DEF Previous
<1>9. Types'
  <2>1. iters' \in 0..MaxIters
    <3>1. iters' = 0 \/ iters' = iters
      BY Zenon DEF Match
    <3>2. MaxIters \in Nat /\ iters \in 0..MaxIters
      BY CalendarAssumption DEF IInv, Types
    <3> QED
      BY <3>1, <3>2
  <2> QED
    BY <1>1, <1>2, <1>3, <1>4, <2>1 DEF Types
<1>10. status' = "SEARCH" => anchor' = w /\ local' = local + 1
  BY <1>2, <1>4
<1>11. Underway'
  <2>1. Previous(Len(out) + 1)' = w
    BY <1>7 DEF Previous
  <2> QED
    BY <1>1, <1>3, <1>10, <2>1 DEF Underway
<1>12. NothingSkipped'
  BY <1>1, <1>3, <1>10 DEF NothingSkipped, Between
<1>13. EarliestMatch'
  <2> SUFFICES ASSUME NEW i \in 1..n
               PROVE  /\ Matches(out'[i] \div Minute)
                      /\ \A t \in Between(Previous(i), out'[i] \div Minute) : ~Matches(t)
    BY <1>2, <1>7, <1>8, MatchesSame DEF EarliestMatch, Between
  <2>1. CASE i = n
    BY <1>3, <1>5, <1>6, <1>7, <2>1
  <2>2. CASE i # n
    <3>1. i \in DOMAIN out /\ out'[i] = out[i]
      BY <1>7, <2>2
    <3> QED
      BY <3>1 DEF IInv, EarliestMatch
  <2> QED
    BY <2>1, <2>2
<1>14. StrictlyAfter'
  <2> SUFFICES ASSUME NEW i \in 1..n
               PROVE  out'[i] > Previous(i)
    BY <1>7, <1>8 DEF StrictlyAfter
  <2>1. CASE i = n
    BY <1>5, <1>7, <2>1
  <2>2. CASE i # n
    <3>1. i \in DOMAIN out /\ out'[i] = out[i]
      BY <1>7, <2>2
    <3> QED
      BY <3>1 DEF IInv, StrictlyAfter
  <2> QED
    BY <2>1, <2>2
<1> QED
  BY <1>9, <1>11, <1>12, <1>13, <1>14 DEF IInv

(* The eight ways a turn can jump, each over no match. *)
LEMMA TurnSkips ==
  ASSUME Shift = 0, IInv,
         YearExhausted \/ MonthJump \/ DayMismatch \/ DayExhausted \/ HourJump
           \/ HourExhausted \/ MinuteJump
  PROVE  \E k : Jump(k) /\ Skips(k)
<1>1. local \in Nat /\ Fields(expr)
  BY ExprFields DEF IInv, Types
<1>2. CASE YearExhausted
  BY <1>1, <1>2, SkipYear DEF YearExhausted
<1>3. CASE MonthJump
  BY <1>1, <1>3, SkipMonths DEF MonthJump
<1>4. CASE DayMismatch
  BY <1>1, <1>4, SkipDay DEF DayMismatch, NextDay
<1>5. CASE DayExhausted
  BY <1>1, <1>5, SkipDay DEF DayExhausted, NextDay
<1>6. CASE HourJump
  BY <1>1, <1>6, SkipHours DEF HourJump, HourOK
<1>7. CASE HourExhausted
  BY <1>1, <1>7, SkipHour DEF HourExhausted, NextHour
<1>8. CASE MinuteJump
  BY <1>1, <1>8, SkipMinutes DEF MinuteJump, MinuteOK
<1> QED
  BY <1>2, <1>3, <1>4, <1>5, <1>6, <1>7, <1>8

LEMMA StutterKeeps ==
  ASSUME IInv, UNCHANGED <<expr, after, anchor, local, out, iters>>,
         status' = "SEARCH" => status = "SEARCH"
  PROVE  IInv'
<1>1. Types' /\ Underway'
  BY DEF IInv, Types, Underway, Previous
<1>2. NothingSkipped'
  BY MatchesSame DEF IInv, NothingSkipped, Between
<1>3. EarliestMatch'
  BY MatchesSame DEF IInv, EarliestMatch, Between, Previous
<1>4. StrictlyAfter'
  BY DEF IInv, StrictlyAfter, Previous
<1> QED
  BY <1>1, <1>2, <1>3, <1>4 DEF IInv

LEMMA NextIInv ==
  ASSUME Shift = 0, IInv, [Next]_vars
  PROVE  IInv'
<1>1. CASE YearExhausted \/ MonthJump \/ DayMismatch \/ DayExhausted \/ HourJump
             \/ HourExhausted \/ MinuteJump
  BY <1>1, TurnSkips, JumpKeeps
<1>2. CASE Match
  BY <1>2, MatchKeeps
<1>3. CASE GiveUp
  BY <1>3, StutterKeeps DEF GiveUp
<1>4. CASE UNCHANGED vars
  BY <1>4, StutterKeeps DEF vars
<1> QED
  BY <1>1, <1>2, <1>3, <1>4 DEF Next

---------------------------------------------------------------------------
(* The pace of the search: a turn per day.                                 *)

(* The day of the first candidate of the search in progress. *)
FirstDay == Day(FirstCandidate(anchor))

(* No more turns than days, but for one until the minute is 0, one until    *)
(* the hour matches and one until the minute does.                          *)
Paced ==
  \/ iters <= Day(local) - FirstDay
  \/ iters <= Day(local) - FirstDay + 1 /\ Min60(local) = 0
  \/ iters <= Day(local) - FirstDay + 2 /\ Min60(local) = 0 /\ HourOK
  \/ iters <= Day(local) - FirstDay + 3 /\ MinuteOK

(* A search that has ended short has used all its turns and skipped nothing. *)
Ended ==
  status # "SEARCH" =>
    /\ Len(out) < MaxCount => iters = MaxIters
    /\ \A t \in Between(anchor, local) : ~Matches(t)

PaceInv == IInv /\ Paced /\ Ended

(* The hour and the minute of a candidate. *)
LEMMA ClockTypes ==
  ASSUME NEW l \in Nat
  PROVE  l \div Mins \in Nat /\ Min60(l) \in Nat /\ Hour(l) \in Nat /\ Day(l) \in Nat
<1>1. Min60(l) \in 0..Mins - 1 /\ Hour(l) \in 0..Hours - 1 /\ l \div Mins \in Nat
  BY MinuteParts
<1>2. Day(l) \in Nat
  BY MonthReached
<1> QED
  BY <1>1, <1>2

(* 00:00 of a day. *)
LEMMA Midnight ==
  ASSUME NEW b \in Nat
  PROVE  Day(b * Hours * Mins) = b /\ Min60(b * Hours * Mins) = 0
<1>1. Hours \in Nat \ {0} /\ Mins \in Nat \ {0} /\ Hours * Mins \in Nat \ {0}
  BY CalendarTypes
<1>2. PICK n \in Nat \ {0} : n = Hours * Mins
  BY <1>1
<1>3. b * Hours * Mins = b * n
  BY <1>1, <1>2
<1>4. (b * n + 0) \div n = b
  <2>1. 0 \in 0..n - 1
    OBVIOUS
  <2> QED
    BY <2>1, DivisionUnique
<1>5. b * n + 0 = b * n
  OBVIOUS
<1>6. Day(b * Hours * Mins) = b
  BY <1>2, <1>3, <1>4, <1>5 DEF Day
<1>7. PICK c \in Nat : c = b * Hours
  BY <1>1
<1>8. (c * Mins + 0) % Mins = 0
  <2>1. 0 \in 0..Mins - 1
    BY <1>1
  <2> QED
    BY <1>1, <2>1, DivisionUnique
<1>9. c * Mins + 0 = c * Mins
  BY <1>1
<1> QED
  BY <1>6, <1>7, <1>8, <1>9 DEF Min60

(* The first minute of an hour. *)
LEMMA HourStart ==
  ASSUME NEW d \in Nat, NEW h \in 0..Hours - 1, NEW b, b = d * Hours + h
  PROVE  /\ b * Mins \in Nat /\ Min60(b * Mins) = 0
         /\ Hour(b * Mins) = h /\ Day(b * Mins) = d
<1>1. Hours \in Nat \ {0} /\ Mins \in Nat \ {0} /\ h \in Nat
  BY CalendarTypes
<1>2. d * Hours \in Nat
  BY <1>1
<1>3. b \in Nat
  BY <1>1, <1>2
<1>4. PICK k \in Nat : k = b * Mins
  BY <1>1, <1>3
<1>5. k = b * Mins + 0 /\ 0 \in 0..Mins - 1
  BY <1>1, <1>3, <1>4
<1>6. k \div Mins = b /\ k % Mins = 0
  BY <1>1, <1>3, <1>5, DivisionUnique
<1>7. b \div Hours = d /\ b % Hours = h
  BY <1>1, DivisionUnique
<1>8. Day(k) = d
  BY <1>1, <1>4, <1>6, <1>7, QuotientOfQuotient DEF Day
<1> QED
  BY <1>4, <1>6, <1>7, <1>8 DEF Hour, Min60

LEMMA DayMonotone ==
  ASSUME NEW l \in Nat, NEW t \in Nat, l <= t
  PROVE  Day(l) \in Nat /\ Day(t) \in Nat /\ Day(l) <= Day(t)
BY QuotientMonotone, CalendarTypes, MonthReached DEF Day

(* Month and day fields depend on the day alone. *)
LEMMA SameDay ==
  ASSUME NEW l \in Nat, NEW t \in Nat, Day(l) = Day(t)
  PROVE  Mon(l) = Mon(t) /\ (DayMatches(l) <=> DayMatches(t))
<1>1. MonthNo(l) = MonthNo(t)
  BY DEF MonthNo
<1>2. MDay(l) = MDay(t) /\ WDay(l) = WDay(t)
  BY <1>1 DEF MDay, WDay
<1> QED
  BY <1>1, <1>2 DEF Mon, DayMatches

(* What a turn that jumps to k leaves. *)
LEMMA Jumped ==
  ASSUME Shift = 0, IInv, NEW k \in Nat, Jump(k)
  PROVE  /\ local' = k /\ iters' = iters + 1 /\ iters \in Nat /\ local \in Nat
         /\ UNCHANGED <<expr, anchor, out, status>> /\ status = "SEARCH"
         /\ FirstDay' = FirstDay /\ FirstDay \in Nat
         /\ Day(local) \in Nat /\ Day(k) \in Nat /\ Day(local)' = Day(k)
         /\ Min60(local)' = Min60(k)
<1>1. local' = k
  BY MatchesLocal DEF Jump
<1>2. /\ iters' = iters + 1 /\ UNCHANGED <<expr, anchor, out, status>> /\ status = "SEARCH"
      /\ iters \in Nat /\ local \in Nat /\ anchor \in Nat
  BY CalendarAssumption DEF Jump, Searching, IInv, Types
<1>3. FirstDay' = FirstDay
  BY <1>2 DEF FirstDay
<1>4. FirstDay \in Nat
  <2>1. FirstCandidate(anchor) \in Nat
    BY <1>2, FirstIsNext
  <2> QED
    BY <2>1, MonthReached DEF FirstDay
<1>5. Day(local) \in Nat /\ Day(k) \in Nat
  BY <1>2, MonthReached
<1> QED
  BY <1>1, <1>2, <1>3, <1>4, <1>5

(* The four turns that go on at 00:00 of a later day. *)
LEMMA NewDayPaces ==
  ASSUME Shift = 0, IInv, Paced, ~HourOK, NEW k \in Nat, Jump(k),
         Day(local) < Day(k), Min60(k) = 0
  PROVE  Paced'
<1>1. /\ iters' = iters + 1 /\ iters \in Nat /\ FirstDay' = FirstDay /\ FirstDay \in Nat
      /\ Day(local) \in Nat /\ Day(k) \in Nat /\ Day(local)' = Day(k) /\ Min60(local)' = 0
  BY Jumped
<1>2. ~MinuteOK
  BY DEF MinuteOK
<1>3. iters <= Day(local) - FirstDay + 1
  BY <1>1, <1>2 DEF Paced
<1>4. iters' <= Day(local)' - FirstDay' + 1
  <2>1. PICK d \in Nat, e \in Nat, f \in Nat : d = Day(local) /\ e = Day(k) /\ f = FirstDay
    BY <1>1
  <2> QED
    BY <1>1, <1>3, <2>1
<1> QED
  BY <1>1, <1>4 DEF Paced

(* 00:00 of the first day of a later month, or of the next day, is such. *)
LEMMA LaterDays ==
  ASSUME local \in Nat
  PROVE  /\ \A m \in Nat : MonthNo(local) < m =>
              /\ DayMinute(m, 1) \in Nat /\ Day(local) < Day(DayMinute(m, 1))
              /\ Min60(DayMinute(m, 1)) = 0
         /\ LET k == DayMinute(MonthNo(local), MDay(local) + 1)
            IN  k \in Nat /\ Day(local) < Day(k) /\ Min60(k) = 0
<1>1. Day(local) \in Nat /\ MonthNo(local) \in Nat /\ MonthStart(MonthNo(local)) \in Nat
  BY MonthReached
<1>2. ASSUME NEW m \in Nat, MonthNo(local) < m
      PROVE  /\ DayMinute(m, 1) \in Nat /\ Day(local) < Day(DayMinute(m, 1))
             /\ Min60(DayMinute(m, 1)) = 0
  <2>1. /\ MonthStart(m) \in Nat /\ (m <= MonthNo(local) <=> MonthStart(m) <= Day(local))
        /\ DayMinute(m, 1) \in Nat
    BY MonthReached, BeforeMonth
  <2>2. PICK b \in Nat : b = MonthStart(m)
    BY <2>1
  <2>3. Day(local) < b
    BY <1>1, <1>2, <2>1, <2>2
  <2>4. DayMinute(m, 1) = b * Hours * Mins
    <3>1. b + 1 - 1 = b
      OBVIOUS
    <3> QED
      BY <2>2, <3>1 DEF DayMinute
  <2> QED
    BY <2>1, <2>3, <2>4, Midnight
<1>3. LET k == DayMinute(MonthNo(local), MDay(local) + 1)
      IN  k \in Nat /\ Day(local) < Day(k) /\ Min60(k) = 0
  <2>1. PICK b \in Nat : b = Day(local) + 1
    BY <1>1
  <2>2. MonthStart(MonthNo(local)) + (MDay(local) + 1) - 1 = b
    BY <1>1, <2>1 DEF MDay
  <2>3. DayMinute(MonthNo(local), MDay(local) + 1) = b * Hours * Mins
    BY <2>2 DEF DayMinute
  <2>4. Day(local) < b
    BY <1>1, <2>1
  <2> QED
    BY <2>3, <2>4, Midnight, BeforeNextDay
<1> QED
  BY <1>2, <1>3

LEMMA DayTurnsPace ==
  ASSUME Shift = 0, IInv, Paced, YearExhausted \/ MonthJump \/ DayMismatch \/ DayExhausted
  PROVE  Paced'
<1>0. local \in Nat /\ Fields(expr)
  BY ExprFields DEF IInv, Types
<1>1. MonthNo(local) \in Nat /\ Mon(local) \in 1..MonthsPerYear /\ MonthsPerYear \in Nat \ {0}
  BY <1>0, MonthReached, MonthRange, CalendarTypes
<1>2. CASE YearExhausted
  <2> DEFINE m == (MonthNo(local) \div MonthsPerYear + 1) * MonthsPerYear
  <2>1. ~HourOK
    BY <1>1, <1>2 DEF YearExhausted, AtLeast, HourOK, DayOK, MonthOK
  <2>2. m \in Nat /\ MonthNo(local) < m
    <3>1. MonthNo(local) \div MonthsPerYear \in Nat
      BY <1>1, Division
    <3>2. /\ MonthNo(local) \div MonthsPerYear < MonthNo(local) \div MonthsPerYear + 1
          /\ MonthNo(local) \div MonthsPerYear + 1 \in Nat
      BY <3>1
    <3>3. MonthNo(local) < m
      BY <1>1, <3>2, QuotientBelow
    <3> QED
      BY <1>1, <3>2, <3>3
  <2>3. Jump(DayMinute(m, 1))
    BY <1>2 DEF YearExhausted
  <2> HIDE DEF m
  <2> QED
    BY <1>0, <2>1, <2>2, <2>3, LaterDays, NewDayPaces
<1>3. CASE MonthJump
  <2> DEFINE v == Min(AtLeast(expr.month, Mon(local)))
             m == MonthNo(local) + v - Mon(local)
  <2>1. ~HourOK /\ ~MonthOK
    BY <1>3 DEF MonthJump, HourOK, DayOK
  <2>2. v \in expr.month /\ v >= Mon(local)
    <3>1. expr.month \subseteq Nat /\ Mon(local) \in Nat
      BY <1>0, <1>1 DEF Fields
    <3> QED
      BY <1>3, <3>1, LowestLeft DEF MonthJump
  <2>3. v \in Nat /\ v > Mon(local)
    BY <1>0, <1>1, <2>1, <2>2 DEF Fields, MonthOK
  <2>4. Jump(DayMinute(m, 1))
    BY <1>3 DEF MonthJump
  <2> HIDE DEF v
  <2>5. m \in Nat /\ MonthNo(local) < m
    BY <1>1, <2>3
  <2> HIDE DEF m
  <2> QED
    BY <1>0, <2>1, <2>4, <2>5, LaterDays, NewDayPaces
<1>4. CASE DayMismatch \/ DayExhausted
  <2>1. ~HourOK
    <3>1. Hour(local) \in Nat
      BY <1>0, ClockTypes
    <3> QED
      BY <1>4, <3>1 DEF DayMismatch, DayExhausted, AtLeast, HourOK, DayOK
  <2>2. Jump(DayMinute(MonthNo(local), MDay(local) + 1))
    BY <1>4 DEF DayMismatch, DayExhausted, NextDay
  <2> QED
    BY <1>0, <2>1, <2>2, LaterDays, NewDayPaces
<1> QED
  BY <1>2, <1>3, <1>4

(* To minute 0 of an hour that matches. *)
LEMMA HourJumpPaces ==
  ASSUME Shift = 0, IInv, Paced, HourJump
  PROVE  Paced'
<1>0. local \in Nat /\ Fields(expr) /\ DayOK /\ ~HourOK
  BY ExprFields DEF IInv, Types, HourJump
<1> DEFINE v == Min(AtLeast(expr.hour, Hour(local)))
           b == local \div Mins + v - Hour(local)
<1>1. /\ local \div Mins \in Nat /\ Hour(local) \in 0..Hours - 1 /\ Day(local) \in Nat
      /\ local \div Mins = Day(local) * Hours + Hour(local) /\ Hours \in Nat \ {0}
  BY <1>0, MinuteParts, MonthReached, CalendarTypes
<1>2. v \in expr.hour /\ v \in 0..Hours - 1
  <2>1. expr.hour \subseteq Nat /\ Hour(local) \in Nat
    BY <1>0, <1>1 DEF Fields
  <2>2. v \in expr.hour
    BY <2>1, LowestLeft DEF HourJump
  <2> QED
    BY <1>0, <2>2 DEF Fields
<1>3. Jump(b * Mins)
  BY DEF HourJump
<1> HIDE DEF v
<1>4. b = Day(local) * Hours + v
  <2>1. PICK x \in Nat : x = Day(local) * Hours
    BY <1>1
  <2>2. local \div Mins = x + Hour(local) /\ v \in Int /\ Hour(local) \in Int
    BY <1>1, <1>2, <2>1
  <2> QED
    BY <2>1, <2>2
<1> HIDE DEF b
<1>5. PICK k \in Nat : k = b * Mins /\ Min60(k) = 0 /\ Hour(k) = v /\ Day(k) = Day(local)
  BY <1>1, <1>2, <1>4, HourStart
<1>6. /\ local' = k /\ iters' = iters + 1 /\ iters \in Nat /\ FirstDay' = FirstDay /\ FirstDay \in Nat
      /\ Day(local)' = Day(local) /\ Min60(local)' = 0 /\ expr' = expr
  BY <1>3, <1>5, Jumped
<1>7. HourOK'
  <2>1. Mon(k) \in expr.month /\ DayMatches(k)
    BY <1>0, <1>5, SameDay DEF DayOK, MonthOK
  <2>2. DayMatches(local)' <=> DayMatches(k)
    BY <1>6 DEF DayMatches, DomAny, DowAny
  <2> QED
    BY <1>2, <1>5, <1>6, <2>1, <2>2 DEF HourOK, DayOK, MonthOK
<1>8. iters <= Day(local) - FirstDay + 1
  <2>1. ~MinuteOK
    BY <1>0 DEF MinuteOK
  <2> QED
    BY <1>0, <1>1, <1>6, <2>1 DEF Paced
<1>9. iters' <= Day(local)' - FirstDay' + 2
  BY <1>1, <1>6, <1>8
<1> QED
  BY <1>6, <1>7, <1>9 DEF Paced

(* To the next hour: only from a minute other than 0. *)
LEMMA HourExhaustedPaces ==
  ASSUME Shift = 0, IInv, Paced, HourExhausted
  PROVE  Paced'
<1>0. local \in Nat /\ expr \in Exprs /\ Fields(expr) /\ Mins \in Nat \ {0}
  BY ExprFields, CalendarTypes DEF IInv, Types
<1>1. local \div Mins \in Nat /\ Min60(local) \in Nat /\ Day(local) \in Nat
  BY <1>0, ClockTypes
<1>2. AtLeast(expr.minute, Min60(local)) = {} /\ Jump((local \div Mins + 1) * Mins)
  BY DEF HourExhausted, NextHour
<1>3. Min60(local) # 0 /\ ~MinuteOK
  <2>1. PICK x \in expr.minute : x \in Nat
    BY <1>0, ExprAssumption DEF Fields
  <2> QED
    BY <1>1, <1>2, <2>1 DEF AtLeast, MinuteOK
<1>4. PICK b \in Nat : b = local \div Mins + 1
  BY <1>1
<1>5. PICK k \in Nat : k = b * Mins
  BY <1>0, <1>4
<1>6. Min60(k) = 0
  <2>1. k = b * Mins + 0 /\ 0 \in 0..Mins - 1
    BY <1>0, <1>5
  <2> QED
    BY <1>0, <2>1, DivisionUnique DEF Min60
<1>7. local < k
  <2>1. local \div Mins < b
    BY <1>1, <1>4
  <2> QED
    BY <1>0, <1>5, <2>1, QuotientBelow
<1>8. Day(k) \in Nat /\ Day(local) <= Day(k)
  BY <1>0, <1>7, DayMonotone
<1>9. /\ iters' = iters + 1 /\ iters \in Nat /\ FirstDay' = FirstDay /\ FirstDay \in Nat
      /\ Day(local)' = Day(k) /\ Min60(local)' = 0
  BY <1>2, <1>4, <1>5, <1>6, Jumped
<1>10. iters <= Day(local) - FirstDay
  BY <1>3 DEF Paced
<1>11. iters' <= Day(local)' - FirstDay' + 1
  BY <1>1, <1>8, <1>9, <1>10
<1> QED
  BY <1>9, <1>11 DEF Paced

(* To a minute that matches, in the same hour. *)
LEMMA MinuteJumpPaces ==
  ASSUME Shift = 0, IInv, Paced, MinuteJump
  PROVE  Paced'
<1>0. local \in Nat /\ Fields(expr) /\ HourOK /\ ~MinuteOK
  BY ExprFields DEF IInv, Types, MinuteJump
<1> DEFINE v == Min(AtLeast(expr.minute, Min60(local)))
<1>1. /\ local \div Mins \in Nat /\ Min60(local) \in 0..Mins - 1 /\ Mins \in Nat \ {0}
      /\ local = (local \div Mins) * Mins + Min60(local) /\ Day(local) \in Nat
      /\ Hours \in Nat \ {0}
  BY <1>0, MinuteParts, MonthReached, CalendarTypes
<1>2. v \in expr.minute /\ v \in 0..Mins - 1
  <2>1. expr.minute \subseteq Nat /\ Min60(local) \in Nat
    BY <1>0, <1>1 DEF Fields
  <2>2. v \in expr.minute
    BY <2>1, LowestLeft DEF MinuteJump
  <2> QED
    BY <1>0, <2>2 DEF Fields
<1>3. Jump(local + v - Min60(local))
  BY DEF MinuteJump
<1> HIDE DEF v
<1>4. PICK h \in Nat : h = local \div Mins
  BY <1>1
<1>5. h * Mins \in Nat
  BY <1>1, <1>4
<1>6. PICK k \in Nat : k = local + v - Min60(local) /\ k = h * Mins + v
  <2>1. PICK x \in Nat : x = h * Mins
    BY <1>5
  <2>2. local = x + Min60(local)
    BY <1>1, <1>4, <2>1
  <2>3. PICK u \in Nat : u = Min60(local)
    BY <1>0, ClockTypes
  <2>4. v \in Nat
    BY <1>2
  <2>5. local = x + u
    BY <2>2, <2>3
  <2>6. local + v - u = x + v /\ x + v \in Nat
    BY <2>4, <2>5
  <2> QED
    BY <2>1, <2>3, <2>6
<1>7. k \div Mins = h /\ k % Mins = v
  BY <1>1, <1>2, <1>6, DivisionUnique
<1>8. Hour(k) = Hour(local) /\ Min60(k) = v /\ Day(k) = Day(local)
  <2>1. Day(k) = (k \div Mins) \div Hours /\ Day(local) = (local \div Mins) \div Hours
    BY <1>0, <1>1, QuotientOfQuotient DEF Day
  <2> QED
    BY <1>4, <1>7, <2>1 DEF Hour, Min60
<1>9. /\ local' = k /\ iters' = iters + 1 /\ iters \in Nat /\ FirstDay' = FirstDay /\ FirstDay \in Nat
      /\ Day(local)' = Day(local) /\ expr' = expr
  BY <1>3, <1>6, <1>8, Jumped
<1>10. MinuteOK'
  <2>1. Mon(k) \in expr.month /\ DayMatches(k)
    BY <1>0, <1>8, SameDay DEF HourOK, DayOK, MonthOK
  <2>2. DayMatches(local)' <=> DayMatches(k)
    BY <1>9 DEF DayMatches, DomAny, DowAny
  <2>3. Hour(k) \in expr.hour
    BY <1>0, <1>8 DEF HourOK
  <2> QED
    BY <1>2, <1>8, <1>9, <2>1, <2>2, <2>3 DEF MinuteOK, HourOK, DayOK, MonthOK
<1>11. iters <= Day(local) - FirstDay + 2
  BY <1>0, <1>1, <1>9 DEF Paced
<1>12. iters' <= Day(local)' - FirstDay' + 3
  BY <1>1, <1>9, <1>11
<1> QED
  BY <1>10, <1>12 DEF Paced

LEMMA PacedSame ==
  ASSUME Paced, UNCHANGED <<expr, anchor, local, iters>>
  PROVE  Paced'
BY DEF Paced, FirstDay, HourOK, MinuteOK, DayOK, MonthOK, DayMatches, DomAny, DowAny

LEMMA MatchPaces ==
  ASSUME Shift = 0, IInv, Paced, Match
  PROVE  Paced'
<1>1. CASE UNCHANGED <<anchor, local, iters>>
  BY <1>1, PacedSame DEF Match
<1>2. CASE iters' = 0 /\ local' = FirstCandidate(anchor')
  <2>1. Day(local') = FirstDay'
    BY <1>2 DEF FirstDay
  <2>2. local' \in Nat
    BY MatchKeeps DEF IInv, Types
  <2>3. Day(local') \in Nat
    BY <2>2, MonthReached
  <2>4. iters' <= Day(local') - FirstDay'
    BY <1>2, <2>1, <2>3
  <2> QED
    BY <2>4 DEF Paced
<1>3. \/ UNCHANGED <<anchor, local, iters>>
      \/ iters' = 0 /\ local' = FirstCandidate(anchor')
  BY DEF Match, FirstCandidate
<1> QED
  BY <1>1, <1>2, <1>3

LEMMA NextPaceInv ==
  ASSUME Shift = 0, PaceInv, [Next]_vars
  PROVE  PaceInv'
<1>0. IInv /\ Paced /\ Ended /\ IInv'
  BY NextIInv DEF PaceInv
<1>1. Paced'
  BY <1>0, DayTurnsPace, HourJumpPaces, HourExhaustedPaces, MinuteJumpPaces, MatchPaces, PacedSame
     DEF Next, GiveUp, vars
<1>2. Ended'
  <2> SUFFICES ASSUME status' # "SEARCH" PROVE Ended'
    BY DEF Ended
  <2>1. CASE Match
    <3>1. /\ Len(out) + 1 >= MaxCount /\ UNCHANGED <<expr, anchor, local, iters>> /\ status = "SEARCH"
          /\ Len(out') = Len(out) + 1
      <4>1. out \in Seq(Nat) /\ MaxCount \in Nat
        BY <1>0, CalendarAssumption DEF IInv, Types
      <4>2. PICK t : out' = Append(out, t)
        BY <2>1 DEF Match
      <4>3. Len(out') = Len(out) + 1
        BY <4>1, <4>2
      <4> QED
        BY <2>1, <4>1, <4>3 DEF Match, Searching
    <3>2. Len(out) \in Nat /\ MaxCount \in Nat
      BY <1>0, CalendarAssumption DEF IInv, Types
    <3> QED
      BY <1>0, <3>1, <3>2, MatchesSame DEF Ended, IInv, NothingSkipped, Between
  <2>2. CASE GiveUp
    <3>1. UNCHANGED <<expr, anchor, local, iters>> /\ status = "SEARCH" /\ iters = MaxIters
      BY <2>2 DEF GiveUp
    <3> QED
      BY <1>0, <3>1, MatchesSame DEF Ended, IInv, NothingSkipped, Between
  <2>3. CASE UNCHANGED vars
    BY <1>0, <2>3, MatchesSame DEF Ended, Between, vars
  <2>4. CASE YearExhausted \/ MonthJump \/ DayMismatch \/ DayExhausted \/ HourJump
               \/ HourExhausted \/ MinuteJump
    BY <2>4 DEF YearExhausted, MonthJump, DayMismatch, DayExhausted, NextDay, HourJump,
      HourExhausted, NextHour, MinuteJump, Jump, Searching
  <2> QED
    BY <2>1, <2>2, <2>3, <2>4 DEF Next
<1> QED
  BY <1>0, <1>1, <1>2 DEF PaceInv

LEMMA InitPaceInv ==
  ASSUME Shift = 0, Init
  PROVE  PaceInv
<1>1. IInv /\ local \in Nat
  BY InitIInv DEF IInv, Types
<1>2. Day(local) \in Nat /\ Day(local) = FirstDay /\ iters = 0
  BY <1>1, MonthReached DEF Init, FirstDay
<1> QED
  BY <1>1, <1>2 DEF PaceInv, Paced, Ended, Init

(* After MaxIters turns the candidate is that many days on, less three. *)
LEMMA PaceGivesUpLate ==
  ASSUME Shift = 0, PaceInv
  PROVE  GivesUpLate
<1> SUFFICES ASSUME status # "SEARCH", Len(out) < MaxCount,
                    NEW t \in Between(anchor, (FirstDay + MaxIters - 3) * Hours * Mins)
             PROVE  ~Matches(t)
  BY DEF GivesUpLate, FirstDay
<1>1. /\ iters = MaxIters /\ (\A u \in Between(anchor, local) : ~Matches(u))
      /\ local \in Nat /\ anchor \in Nat /\ MaxIters \in Nat /\ Minute \in Nat \ {0}
      /\ Hours \in Nat \ {0} /\ Mins \in Nat \ {0}
  BY CalendarAssumption DEF PaceInv, Ended, IInv, Types
<1>2. Day(local) \in Nat /\ FirstDay \in Nat
  BY <1>1, FirstIsNext, MonthReached DEF FirstDay
<1>3. FirstDay + MaxIters - 3 <= Day(local)
  BY <1>1, <1>2 DEF PaceInv, Paced
<1>4. PICK x \in Int : x = FirstDay + MaxIters - 3
  BY <1>1, <1>2
<1>5. PICK n \in Nat \ {0} : n = Hours * Mins
  BY <1>1
<1>6. x * Hours * Mins = x * n
  BY <1>1, <1>4, <1>5
<1>7. x * n <= local
  <2>1. PICK d \in Nat : d = Day(local)
    BY <1>2
  <2>2. x * n <= d * n
    BY <1>3, <1>4, <1>5, <2>1
  <2>3. PICK p \in Int, q \in Int : p = x * n /\ q = d * n
    BY <1>4, <1>5, <2>1
  <2>4. local = q + (local % n) /\ local % n \in Nat
    <3>1. local \div n = d
      BY <1>5, <2>1 DEF Day
    <3>2. local \in Nat
      BY <1>1
    <3>3. local % n \in 0..n - 1 /\ local = (local \div n) * n + (local % n)
      BY <3>2, Division
    <3> QED
      BY <2>3, <3>1, <3>3
  <2> QED
    BY <1>1, <2>2, <2>3, <2>4
<1>8. t \in Between(anchor, x * n)
  BY <1>4, <1>6
<1>9. anchor \div Minute \in Nat
  BY <1>1, Division
<1>10. t \in Between(anchor, local)
  <2>1. PICK p \in Int : p = x * n
    BY <1>4, <1>5
  <2> QED
    BY <1>1, <1>7, <1>8, <1>9, <2>1 DEF Between
<1> QED
  BY <1>1, <1>10

---------------------------------------------------------------------------
(* The results.                                                            *)

(* The invariant of salts_cron_next_n: where each search stands relative to *)
(* its anchor and to what has been written.                                 *)
THEOREM SearchInvariant ==
  ASSUME Shift = 0
  PROVE  Spec => []IInv
<1>1. Init => IInv
  BY InitIInv
<1>2. IInv /\ [Next]_vars => IInv'
  BY NextIInv
<1> QED
  BY <1>1, <1>2, PTL DEF Spec

(* No turn of the loop of salts_cron_next jumps over a match, whichever     *)
(* field it advances and whatever the calendar.                             *)
THEOREM SearchSkipsNothing ==
  ASSUME Shift = 0
  PROVE  Spec => []NothingSkipped
<1>1. IInv => NothingSkipped
  BY DEF IInv
<1> QED
  BY <1>1, SearchInvariant, PTL

(* Every time written is the first match after the one before it.           *)
THEOREM SearchFindsEarliest ==
  ASSUME Shift = 0
  PROVE  Spec => []EarliestMatch
<1>1. IInv => EarliestMatch
  BY DEF IInv
<1> QED
  BY <1>1, SearchInvariant, PTL

(* Times are written in ascending order, strictly after the caller's anchor *)
(* (salts_cron.h:148, 158).                                                 *)
THEOREM SearchStrictlyAfter ==
  ASSUME Shift = 0
  PROVE  Spec => []StrictlyAfter
<1>1. IInv => StrictlyAfter
  BY DEF IInv
<1> QED
  BY <1>1, SearchInvariant, PTL

(* Every turn that `continue`s has moved the candidate forward: the loop    *)
(* makes progress on each of its MaxIters turns.                            *)
THEOREM TurnsAdvance ==
  ASSUME Shift = 0
  PROVE  Spec => [][iters' = iters + 1 => local < local']_vars
<1>1. IInv /\ [Next]_vars => [iters' = iters + 1 => local < local']_vars
  <2> SUFFICES ASSUME IInv, Next, iters' = iters + 1
               PROVE  local < local'
    OBVIOUS
  <2>0. iters \in Nat
    BY CalendarAssumption DEF IInv, Types
  <2>1. CASE YearExhausted \/ MonthJump \/ DayMismatch \/ DayExhausted \/ HourJump
               \/ HourExhausted \/ MinuteJump
    BY <2>1, TurnSkips, JumpKeeps
  <2>2. CASE Match
    BY <2>0, <2>2 DEF Match
  <2>3. CASE GiveUp
    BY <2>0, <2>3 DEF GiveUp
  <2> QED
    BY <2>1, <2>2, <2>3 DEF Next
<1> QED
  BY <1>1, SearchInvariant, PTL DEF Spec

(* salts_cron_next gives up late, whatever the calendar, the expression and  *)
(* the limit: none of the MaxIters - 3 days from the first candidate on has  *)
(* a match.  An expression that recurs within that many days, as any date of *)
(* the Gregorian calendar does within 4997, never gets SALTS_CRON_ENEXT.     *)
THEOREM SearchGivesUpLate ==
  ASSUME Shift = 0
  PROVE  Spec => []GivesUpLate
<1>1. Init => PaceInv
  BY InitPaceInv
<1>2. PaceInv /\ [Next]_vars => PaceInv'
  BY NextPaceInv
<1>3. PaceInv => GivesUpLate
  BY PaceGivesUpLate
<1> QED
  BY <1>1, <1>2, <1>3, PTL DEF Spec

=============================================================================
