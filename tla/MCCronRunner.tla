---------------------------- MODULE MCCronRunner ----------------------------
(***************************************************************************)
(* Minutes of two ticks.  Times cover the minutes 0, 2, 4 and 6; 40 stands *)
(* for a match that is out of reach.  The empty schedule is an expression  *)
(* that never matches: salts_cron_next reports an error to start and       *)
(* advance.                                                                *)
(***************************************************************************)
EXTENDS CronRunner

MCSchedules == {{2, 4, 6, 40}, {4, 40}, {}}

=============================================================================
