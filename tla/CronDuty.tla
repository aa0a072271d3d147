------------------------------ MODULE CronDuty ------------------------------
(***************************************************************************)
(* What a cron runner promises its host: as it is led from minute to       *)
(* minute, by a clock or by the host, every instant of the schedule that   *)
(* is passed becomes due, once, and is then passed to the callback, once.  *)
(* It is never led back, except by a start, which puts it at some minute:  *)
(* that forgives what lies before and forgets what lies behind, but never  *)
(* drops a callback that is due; nor does freeing it.                      *)
(***************************************************************************)
EXTENDS Integers

CONSTANTS Schedules, Minute

VARIABLES
  fires,    \* the schedule
  upto,     \* the minute up to which it has been followed, 0 at first
  due,      \* instants that are owed to the callback
  called    \* instants that were passed to it

vars == <<fires, upto, due, called>>

Init == fires \in Schedules /\ upto = 0 /\ due = {} /\ called = {}

WholeMinute(m) == m \in Nat /\ m % Minute = 0

Within(a, b) == {m \in fires : a < m /\ m <= b}

(* The first time, only the minute itself becomes due. *)
Follow ==
  /\ WholeMinute(upto') /\ upto <= upto'
  /\ due' = due \cup Within(IF upto = 0 THEN upto' - Minute ELSE upto, upto')
  /\ UNCHANGED <<fires, called>>

Call ==
  \E m \in due \ called :
    /\ due' = due \ {m} /\ called' = called \cup {m}
    /\ UNCHANGED <<fires, upto>>

(* Put at a minute: later instants will be due again when they are passed. *)
Start ==
  /\ due = {}
  /\ WholeMinute(upto')
  /\ called' = {m \in called : m <= upto'}
  /\ UNCHANGED <<fires, due>>

Renew ==
  /\ due = {}
  /\ upto' = 0 /\ called' = {}
  /\ UNCHANGED <<fires, due>>

Next == Follow \/ Call \/ Start \/ Renew

Spec == Init /\ [][Next]_vars

=============================================================================
